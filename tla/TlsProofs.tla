----------------------------- MODULE TlsProofs -----------------------------
(***************************************************************************)
(* Theorems about Tls, for every number of half messages that a server     *)
(* puts into a record, every size of a TCP segment and of recv's argument, *)
(* and any amount of data: with a server that follows the protocol the two *)
(* sides agree on keys, sequence numbers and transcripts to the end, a     *)
(* flight of the server takes the client all the way, and recv implements  *)
(* ByteStream.  No fairness is needed.                                     *)
(*                                                                         *)
(* What is on the wire is a path through the stages of the server's side:  *)
(* each record leads from one stage to the next, the last one to where the *)
(* server stands.  The client is at the stage the path begins with, and    *)
(* has handed out or holds the data sent up to there.  In the other        *)
(* direction the records on their way are the ones the server has not      *)
(* read, in order.  ConversationOK says both, and every step keeps it.     *)
(***************************************************************************)
EXTENDS Tls, SequenceTheorems, FiniteSetTheorems, WellFoundedInduction, TLAPS

-----------------------------------------------------------------------------
(* The conversation: what is on the wire is a path through the stages of the *)
(* server's side.  seg is the part of its flight, pos counts the half        *)
(* messages of that part, seq the records under its key, data the units of   *)
(* data that the server has sent up to there.                                *)
Kinds12 == {"ServerHello12", "ServerHello12Ems"}
Segments(kind) ==
    CASE kind = "" -> {"start", "alerted"}
      [] kind = "1.3" -> {"hello", "flight", "post", "alerted"}
      [] OTHER -> {"plain", "fin", "post", "alerted"}

Stages(kind) ==
    {a \in [seg : Segments(kind), kind : {kind}, pos : 0..8, seq : Nat, data : Nat] :
        IF a.seg \in {"post", "alerted"} THEN a.pos = 0 ELSE a.data = 0}

Stage(seg, kind, pos, seq, data) ==
    [seg |-> seg, kind |-> kind, pos |-> pos, seq |-> seq, data |-> data]

Seen13 == <<"ClientHello", "ServerHello13", "EncryptedExtensions", "Certificate",
            "CertificateVerify", "Finished">>
Seen12(kind) == <<"ClientHello", kind, "Certificate12", "ServerKeyExchange", "ServerHelloDone",
                  "ClientKeyExchange", "ClientFinished">>
UpTo(s, n) == [i \in 1..n |-> s[i]]

Hello13 == <<Msg("ServerHello13", <<>>)>>
Flight13 == <<Msg("EncryptedExtensions", <<>>), Msg("Certificate", <<>>),
              Msg("CertificateVerify", UpTo(Seen13, 4)), Msg("Finished", UpTo(Seen13, 5))>>
Flight12(kind) == <<Msg(kind, <<>>), Msg("Certificate12", <<>>), Msg("ServerKeyExchange", <<>>),
                    Msg("ServerHelloDone", <<>>)>>
Finished12(kind) == <<Msg("Finished12", UpTo(Seen12(kind), 7))>>

Messages(a) ==
    CASE a.seg = "hello" -> Hello13
      [] a.seg = "flight" -> Flight13
      [] a.seg = "plain" -> Flight12(a.kind)
      [] a.seg = "fin" -> Finished12(a.kind)
      [] OTHER -> <<>>

Secret(kind) == IF kind = "ServerHello12Ems" THEN UpTo(Seen12(kind), 6) ELSE <<>>
ServerKey(kind) == IF kind = "1.3" THEN <<"s ap", UpTo(Seen13, 6)>> ELSE <<"s 12", Secret(kind)>>
ClientKey(kind) == IF kind = "1.3" THEN <<"c ap", UpTo(Seen13, 6)>> ELSE <<"c 12", Secret(kind)>>
ServerFlightKey == <<"s hs", UpTo(Seen13, 2)>>
ClientFlightKey == <<"c hs", UpTo(Seen13, 2)>>

SegKey(a) == CASE a.seg = "flight" -> ServerFlightKey
               [] a.seg = "fin" -> ServerKey(a.kind)
               [] OTHER -> Plain
Sealed(a) == IF a.seg \in {"flight", "fin"} THEN 1 ELSE 0

(* The end of the flight is the beginning of the data.                       *)
Reached(a, p) ==
    CASE a.seg = "flight" /\ p = 8 -> Stage("post", a.kind, 0, 0, 0)
      [] a.seg = "fin" /\ p = 2 -> Stage("post", a.kind, 0, a.seq + 1, 0)
      [] OTHER -> Stage(a.seg, a.kind, p, a.seq + Sealed(a), 0)

(* A record of the flight: it goes on where the one before has ended.        *)
Piece(r, a, b, k) ==
    /\ a.seg \in {"hello", "flight", "plain", "fin"}
    /\ \E p \in (a.pos + 1)..(2 * Len(Messages(a))) :
         /\ r = Rec("hs", SegKey(a), a.seq, SubSeq(MessageHalves(Messages(a)), a.pos + 1, p))
         /\ a.seg = "plain" /\ a.pos < 2 /\ p > 3 => k > 3
         /\ b = Reached(a, p)

Change(r, a, b) ==
    /\ r = Ccs
    /\ \/ a = Stage("hello", "1.3", 2, 0, 0) /\ b = Stage("flight", "1.3", 0, 0, 0)
       \/ /\ a.kind \in Kinds12 /\ a = Stage("plain", a.kind, 8, 0, 0)
          /\ b = Stage("fin", a.kind, 0, 0, 0)

Ticket == Msg("NewSessionTicket", <<>>)

(* A record after the handshake.                                             *)
Later(r, a, b) ==
    /\ a.seg = "post"
    /\ \/ /\ r = Rec("app", ServerKey(a.kind), a.seq, <<a.data + 1, a.data + 2>>)
          /\ b = Stage("post", a.kind, 0, a.seq + 1, a.data + 2)
       \/ /\ r = Rec("hs", ServerKey(a.kind), a.seq, <<Ticket, Ticket>>) /\ a.kind = "1.3"
          /\ b = Stage("post", a.kind, 0, a.seq + 1, a.data)
       \/ /\ r = Rec("alert", ServerKey(a.kind), a.seq, "close_notify")
          /\ b = Stage("post", a.kind, 0, a.seq + 1, a.data)
       \/ /\ r = Rec("alert", ServerKey(a.kind), a.seq, "fatal")
          /\ b = Stage("alerted", a.kind, 0, 0, a.data)

Refusal(r, a, b) ==
    /\ a = Stage("start", "", 0, 0, 0)
    /\ r = Rec("alert", Plain, 0, "fatal")
    /\ b = Stage("alerted", "", 0, 0, 0)

Takes(r, a, b, k) == Piece(r, a, b, k) \/ Change(r, a, b) \/ Later(r, a, b) \/ Refusal(r, a, b)

Kind(s) == CASE s.version = "" -> "" [] s.version = "1.3" -> "1.3" [] OTHER -> s.transcript[2]

(* The stage up to which the server has written.                             *)
ServerStage(s) ==
    CASE s.phase = "new" -> Stage("start", "", 0, 0, 0)
      [] s.phase = "alerted" -> Stage("alerted", Kind(s), 0, 0, s.sent)
      [] s.phase = "answered" /\ s.version = "1.2" -> Stage("plain", Kind(s), 8, 0, 0)
      [] OTHER -> Stage("post", Kind(s), 0, s.sendSeq, s.sent)

IsSeq(s) == s \in Seq({s[i] : i \in 1..Len(s)})

(* at[i] is the stage after the i-th record on the wire.                     *)
Path(at, w, s) ==
    /\ at \in [0..Len(w) -> Stages(Kind(s))]
    /\ at[Len(w)] = ServerStage(s)
    /\ \A i \in 1..Len(w) : Takes(w[i], at[i - 1], at[i], s.halves)
    /\ \A i \in 0..Len(w) : at[i].data <= s.sent

-----------------------------------------------------------------------------
(* Where the client is at a stage.                                           *)
IsClient(c) ==
    /\ c = [state |-> c.state, fail |-> c.fail, tls12 |-> c.tls12, half |-> c.half, hs |-> c.hs,
            transcript |-> c.transcript, sendKey |-> c.sendKey, recvKey |-> c.recvKey,
            sendSeq |-> c.sendSeq, recvSeq |-> c.recvSeq, sendOn |-> c.sendOn,
            recvOn |-> c.recvOn, appKeys |-> c.appKeys, appData |-> c.appData,
            peerClosed |-> c.peerClosed, ems |-> c.ems, sent |-> c.sent, out |-> c.out]
    /\ c.tls12 \in BOOLEAN /\ c.sendOn \in BOOLEAN /\ c.recvOn \in BOOLEAN /\ c.appKeys \in BOOLEAN
    /\ c.half \in {0, 1} /\ c.sendSeq \in Nat /\ c.sent \in Nat
    /\ IsSeq(c.out) /\ c.appData \in Seq(Nat)

HeldHalf(a) == IF a.pos % 2 = 1 THEN <<Messages(a)[(a.pos + 1) \div 2]>> ELSE <<>>

Waiting(c) == c.fail = "None" /\ ~c.appKeys /\ c.appData = <<>> /\ c.sent = 0

Greeting(c) ==
    /\ Waiting(c) /\ c.state = "WaitServerHello" /\ ~c.tls12 /\ ~c.recvOn /\ ~c.sendOn
    /\ c.transcript = UpTo(Seen13, 1) /\ c.sendSeq = 0

Talking(c, kind) ==
    /\ c.fail = "None" /\ c.state = "Connected" /\ c.appKeys /\ c.recvOn /\ c.sendOn
    /\ c.tls12 = (kind # "1.3")
    /\ c.sendKey = ClientKey(kind) /\ c.recvKey = ServerKey(kind)

(* After n messages, of both sides, of a 1.3 handshake, from ServerHello on.  *)
Expecting13 == <<"WaitServerHello", "WaitEncryptedExtensions", "WaitCertificate",
                 "WaitCertificateVerify", "WaitFinished">>
In13(c, n, seq) ==
    IF n < 6
    THEN /\ Waiting(c) /\ ~c.tls12 /\ c.recvOn /\ c.sendOn
         /\ c.state = Expecting13[n] /\ c.transcript = UpTo(Seen13, n)
         /\ c.sendKey = ClientFlightKey /\ c.recvKey = ServerFlightKey
         /\ c.sendSeq = 0 /\ c.recvSeq = seq
    ELSE Talking(c, "1.3") /\ c.recvSeq = 0

(* After n messages of a 1.2 handshake, up to ServerHelloDone.               *)
In12(c, kind, n) ==
    IF n = 1 THEN Greeting(c)
    ELSE /\ Waiting(c) /\ c.tls12 /\ ~c.recvOn
         /\ IF n < 5
            THEN /\ c.state = "WaitCertificate" /\ ~c.sendOn /\ c.sendSeq = 0
                 /\ c.ems = (kind = "ServerHello12Ems")
                 /\ c.transcript = UpTo(Seen12(kind), n)
            ELSE /\ c.state = "WaitFinished" /\ c.sendOn /\ c.sendSeq = 1
                 /\ c.transcript = UpTo(Seen12(kind), 7)
                 /\ c.sendKey = ClientKey(kind) /\ c.recvKey = ServerKey(kind)

Finishing12(c, kind, seq) ==
    /\ Waiting(c) /\ c.tls12 /\ c.recvOn /\ c.state = "WaitFinished" /\ c.sendOn
    /\ c.sendSeq = 1 /\ c.recvSeq = seq
    /\ c.transcript = UpTo(Seen12(kind), 7)
    /\ c.sendKey = ClientKey(kind) /\ c.recvKey = ServerKey(kind)

Stands(c, a) ==
    CASE a.seg = "start" -> c.state = "Fresh" \/ Greeting(c)
      [] a.seg = "hello" -> IF a.pos < 2 THEN Greeting(c) ELSE In13(c, 2, 0)
      [] a.seg = "flight" -> In13(c, 2 + (a.pos \div 2), a.seq)
      [] a.seg = "plain" -> In12(c, a.kind, 1 + (a.pos \div 2))
      [] a.seg = "fin" -> Finishing12(c, a.kind, a.seq)
      [] a.seg = "post" -> Talking(c, a.kind) /\ c.recvSeq = a.seq
      [] a.seg = "alerted" -> c.state = "Failed" /\ c.fail = "AlertReceived"

ClientAt(c, a) == Stands(c, a) /\ (a.seg # "alerted" => c.hs = HeldHalf(a))

(* A handshake that failed without an alert.                                 *)
Broken(c) ==
    /\ c.state = "Failed" /\ ~c.appKeys /\ c.appData = <<>>
    /\ \/ c.fail = "CertificateRejected" /\ ~trusted
       \/ c.fail = "RecordMalformed" /\ server.version = "1.2" /\ server.halves > 3
    /\ server.version = "1.2" => ~c.sendOn

-----------------------------------------------------------------------------
(* What the client has sent since its ClientHello: SentBy records, of which  *)
(* the server has read the first n.                                          *)
SentBy(c, kind) ==
    IF kind = "1.3" THEN (IF c.appKeys THEN 1 + c.sendSeq ELSE 0)
    ELSE (IF c.sendOn THEN 2 + c.sendSeq ELSE 0)

Opening(kind) == IF kind = "1.3" THEN 1 ELSE 3
DataBase(kind) == IF kind = "1.3" THEN 0 ELSE 1

IsData(r, kind, n) ==
    \/ r = Rec("app", ClientKey(kind), n - 1 + DataBase(kind), n)
    \/ r = Rec("alert", ClientKey(kind), n - 1 + DataBase(kind), "close_notify")

IsNth(r, kind, i) ==
    IF i > Opening(kind) THEN IsData(r, kind, i - Opening(kind))
    ELSE IF kind = "1.3" THEN r = Rec("hs", ClientFlightKey, 0, Msg("ClientFinished", UpTo(Seen13, 6)))
    ELSE r = << Rec("hs", Plain, 0, Msg("ClientKeyExchange", <<>>)), Ccs,
                Rec("hs", ClientKey(kind), 0, Msg("ClientFinished", UpTo(Seen12(kind), 6)))>>[i]

HasRead13(s, n) ==
    IF n = 0
    THEN /\ s.phase = "answered" /\ s.recvKey = ClientFlightKey /\ s.recvSeq = 0
         /\ s.transcript = UpTo(Seen13, 6) /\ s.got = <<>>
    ELSE /\ s.phase = "ready" /\ s.recvKey = ClientKey("1.3")
         /\ s.recvSeq = n - 1 /\ Len(s.got) = n - 1

HasRead12(s, kind, n) ==
    IF n < 3
    THEN /\ s.phase = "answered" /\ s.recvOn = (n = 2) /\ s.recvSeq = 0 /\ s.got = <<>>
         /\ s.transcript = UpTo(Seen12(kind), IF n = 0 THEN 5 ELSE 6)
         /\ n > 0 => s.recvKey = ClientKey(kind) /\ s.sendKey = ServerKey(kind)
    ELSE /\ s.phase = "ready" /\ s.recvOn /\ s.recvKey = ClientKey(kind)
         /\ s.recvSeq = n - 2 /\ Len(s.got) = n - 3

HasRead(s, n) == IF s.version = "1.3" THEN s.recvOn /\ HasRead13(s, n) ELSE HasRead12(s, Kind(s), n)

OnItsWay(c, u, s) ==
    s.phase \in {"answered", "ready"} =>
        \E n \in 0..SentBy(c, Kind(s)) :
            /\ HasRead(s, n)
            /\ Len(u) = SentBy(c, Kind(s)) - n
            /\ \A i \in 1..Len(u) : IsNth(u[i], Kind(s), n + i)

(* The sequence number of the client counts its records of data.             *)
Synced(c) == c.appKeys => c.sendSeq = c.sent + DataBase(Kind(server))

(* What a message of the handshake leaves as it was.                         *)
Handled(c, d) ==
    /\ IsClient(d) /\ d.hs = c.hs /\ d.half = c.half /\ d.appData = c.appData
    /\ d.sent = c.sent /\ (Synced(c) => Synced(d))
    /\ OnItsWay(d, up \o d.out, server)

-----------------------------------------------------------------------------
IsServer(s) ==
    /\ s = [phase |-> s.phase, version |-> s.version, halves |-> s.halves,
            transcript |-> s.transcript, sendKey |-> s.sendKey, recvKey |-> s.recvKey,
            sendSeq |-> s.sendSeq, recvSeq |-> s.recvSeq, recvOn |-> s.recvOn, sent |-> s.sent,
            got |-> s.got, ticket |-> s.ticket, rejects |-> s.rejects]
    /\ s.phase \in {"new", "answered", "ready", "peer closed", "closed", "alerted"}
    /\ s.version \in {"", "1.2", "1.3"}
    /\ s.halves \in Nat /\ s.sendSeq \in Nat /\ s.sent \in Nat /\ s.recvOn \in BOOLEAN

ServerOK(s) ==
    /\ IsServer(s)
    /\ ~s.rejects /\ Len(s.got) \in Nat /\ s.got = Numbers(Len(s.got))
    /\ s.phase = "new" => s = NewServer
    /\ s.version = "" => s.phase \in {"new", "alerted"} /\ s.sent = 0
    /\ s.version = "1.3" => s.phase # "new" /\ s.sendKey = ServerKey("1.3") /\ s.halves > 0
    /\ s.version = "1.2" =>
          /\ s.phase # "new" /\ Kind(s) \in Kinds12 /\ s.halves > 0
          /\ s.phase # "answered" => s.sendKey = ServerKey(Kind(s))
          /\ s.phase = "answered" => s.sent = 0

(* The calls.                                                                *)
CallOK ==
    /\ call \in {"none", "connect", "idle", "recv", "closed"}
    /\ call = "none" => client = NewClient /\ up = <<>> /\ server.phase = "new"
    /\ client.state = "Fresh" => call = "none"
    /\ call = "connect" => client.state \notin {"Failed", "Connected"}
    /\ call \in {"idle", "recv"} => client.appKeys
    /\ call # "closed" => client.out = <<>>
    /\ call \in {"none", "connect"} => pending = <<>> /\ delivered = <<>> /\ client.appData = <<>>
    /\ call = "recv" => pending = <<>> /\ client.appData = <<>>
    /\ call # "closed" /\ client.state # "Failed" => Synced(client)
    /\ server.phase = "new" /\ call # "none" =>
          up = <<Rec("hs", Plain, 0, Msg("ClientHello", <<>>))>> /\ client.out = <<>>
    /\ wire = <<>> => client.half = 0
    /\ fin => server.phase \in {"closed", "alerted"}

(* What the client has of the stream is what the server had sent at the      *)
(* client's stage.                                                           *)
Progress ==
    \E at : /\ Path(at, wire, server)
            /\ ClientAt(client, at[0])
            /\ delivered \o pending \o client.appData = Numbers(at[0].data)
            /\ client.appKeys => at[0].seg \in {"post", "alerted"}

GivenUp ==
    /\ Broken(client) /\ call = "closed" /\ delivered = <<>> /\ pending = <<>>
    /\ server.phase # "new"

ConversationOK ==
    /\ IsClient(client) /\ ServerOK(server)
    /\ IsSeq(wire) /\ IsSeq(up) /\ pending \in Seq(Nat) /\ delivered \in Seq(Nat)
    /\ trusted \in BOOLEAN /\ wanted \in Nat
    /\ OnItsWay(client, up \o client.out, server)
    /\ CallOK
    /\ Progress \/ GivenUp

-----------------------------------------------------------------------------
(* Numbers, functions and sequences.                                         *)

(* Induction: a set that has 0, and with n also n + 1, has every number.     *)
LEMMA NatSet ==
  ASSUME NEW S, 0 \in S, \A n \in Nat : n \in S => n + 1 \in S
  PROVE  Nat \subseteq S
<1> SUFFICES ASSUME NEW k \in Nat, k \notin S PROVE FALSE
  OBVIOUS
<1> DEFINE Below(n) == {j \in 0..k : j < n}
           T == {n \in 0..k : n \notin S}
           F == {Below(n) : n \in T}
           R == StrictSubsetOrdering(0..k)
<1>1. F \subseteq FiniteSubsetsOf(0..k)
  <2>1. IsFiniteSet(0..k)
    BY FS_Interval
  <2> QED BY <2>1, FS_Subset DEF FiniteSubsetsOf
<1>2. k \in T
  OBVIOUS
<1>3. Below(k) \in F
  <2> HIDE DEF T, Below
  <2> QED BY <1>2
<1>4. \E x \in F : \A y \in F : ~(<<y, x>> \in R)
  <2> HIDE DEF R, F
  <2>1. IsFiniteSet(0..k) /\ IsWellFoundedOn(R, FiniteSubsetsOf(0..k))
    BY FS_Interval, FS_StrictSubsetOrderingWellFounded DEF R
  <2> QED BY <1>1, <1>3, <2>1, WFMin, Zenon
<1>5. PICK m \in T : \A n \in T : ~(<<Below(n), Below(m)>> \in R)
  BY <1>4
<1>6. m # 0 /\ m - 1 \in Nat
  OBVIOUS
<1>7. m - 1 \in T
  <2>1. m - 1 \in S => (m - 1) + 1 \in S
    BY <1>6
  <2> QED BY <1>6, <2>1
<1>8. <<Below(m - 1), Below(m)>> \in R
  <2>1. Below(m - 1) \subseteq Below(m) /\ m - 1 \in Below(m) /\ m - 1 \notin Below(m - 1)
    BY <1>6, <1>7
  <2>2. Below(m - 1) \in SUBSET (0..k) /\ Below(m) \in SUBSET (0..k)
    OBVIOUS
  <2> HIDE DEF Below
  <2> QED BY <2>1, <2>2 DEF R, StrictSubsetOrdering
<1> QED BY <1>5, <1>7, <1>8

(* The loops: a recursive function over 0..n exists and obeys its equation.  *)
MessagesRun(c, msgs) ==
    \E after : /\ after[0] = c
               /\ \A i \in 1..Len(msgs) :
                    after[i] = HandleMessage(c.tls12, after[i - 1], msgs[i])
               /\ HandleMessages(c, msgs) = after[Len(msgs)]

RecordsRun(c, n) ==
    \E after : /\ after[0] = c
               /\ \A i \in 1..n : after[i] = FeedRecord(after[i - 1], wire[i])
               /\ FeedRecords(c, n) = after[n]

LEMMA MessagesLoop ==
  ASSUME NEW c, NEW msgs, Len(msgs) \in Nat
  PROVE  MessagesRun(c, msgs)
<1> DEFINE Loop(m, g) == g = [i \in 0..m |->
                       IF i = 0 THEN c ELSE HandleMessage(c.tls12, g[i - 1], msgs[i])]
           S == {m \in Nat : \E g : Loop(m, g)}
<1>1. 0 \in S
  <2>1. Loop(0, [i \in 0..0 |-> c])
    OBVIOUS
  <2> QED BY <2>1
<1>2. ASSUME NEW m \in Nat, m \in S PROVE m + 1 \in S
  <2>1. PICK g : Loop(m, g)
    BY <1>2
  <2> DEFINE f == [i \in 0..(m + 1) |->
                     IF i = m + 1 THEN HandleMessage(c.tls12, g[m], msgs[m + 1]) ELSE g[i]]
  <2>2. ASSUME NEW i \in 0..(m + 1)
        PROVE  f[i] = IF i = 0 THEN c ELSE HandleMessage(c.tls12, f[i - 1], msgs[i])
    <3>1. CASE i = 0
      BY <2>1, <3>1
    <3>2. CASE i = m + 1
      BY <2>1, <3>2
    <3>3. CASE i \in 1..m
      <4>1. f[i] = g[i] /\ f[i - 1] = g[i - 1] /\ i \in 0..m /\ i # 0
        BY <3>3
      <4> QED BY <2>1, <4>1
    <3> QED BY <3>1, <3>2, <3>3
  <2>3. Loop(m + 1, f)
    <3> HIDE DEF f
    <3>1. f = [i \in 0..(m + 1) |-> f[i]]
      BY DEF f
    <3> QED BY <2>2, <3>1
  <2>4. m + 1 \in Nat
    OBVIOUS
  <2> HIDE DEF Loop
  <2> QED BY <2>3, <2>4
<1>3. Len(msgs) \in S
  <2> HIDE DEF S
  <2> QED BY <1>1, <1>2, NatSet
<1> DEFINE after[i \in 0..Len(msgs)] ==
             IF i = 0 THEN c ELSE HandleMessage(c.tls12, after[i - 1], msgs[i])
<1>4. after = [i \in 0..Len(msgs) |->
                 IF i = 0 THEN c ELSE HandleMessage(c.tls12, after[i - 1], msgs[i])]
  BY <1>3 DEF after
<1>5. HandleMessages(c, msgs) = after[Len(msgs)]
  BY DEF HandleMessages
<1> HIDE DEF after
<1>6. after[0] = c
  BY <1>4
<1>7. \A i \in 1..Len(msgs) : after[i] = HandleMessage(c.tls12, after[i - 1], msgs[i])
  BY <1>4
<1> QED BY <1>5, <1>6, <1>7 DEF MessagesRun

LEMMA RecordsLoop ==
  ASSUME NEW c, NEW n \in Nat
  PROVE  RecordsRun(c, n)
<1> DEFINE Loop(m, g) == g = [i \in 0..m |-> IF i = 0 THEN c ELSE FeedRecord(g[i - 1], wire[i])]
           S == {m \in Nat : \E g : Loop(m, g)}
<1>1. 0 \in S
  <2>1. Loop(0, [i \in 0..0 |-> c])
    OBVIOUS
  <2> QED BY <2>1
<1>2. ASSUME NEW m \in Nat, m \in S PROVE m + 1 \in S
  <2>1. PICK g : Loop(m, g)
    BY <1>2
  <2> DEFINE f == [i \in 0..(m + 1) |->
                     IF i = m + 1 THEN FeedRecord(g[m], wire[m + 1]) ELSE g[i]]
  <2>2. ASSUME NEW i \in 0..(m + 1)
        PROVE  f[i] = IF i = 0 THEN c ELSE FeedRecord(f[i - 1], wire[i])
    <3>1. CASE i = 0
      BY <2>1, <3>1
    <3>2. CASE i = m + 1
      BY <2>1, <3>2
    <3>3. CASE i \in 1..m
      <4>1. f[i] = g[i] /\ f[i - 1] = g[i - 1] /\ i \in 0..m /\ i # 0
        BY <3>3
      <4> QED BY <2>1, <4>1
    <3> QED BY <3>1, <3>2, <3>3
  <2>3. Loop(m + 1, f)
    <3> HIDE DEF f
    <3>1. f = [i \in 0..(m + 1) |-> f[i]]
      BY DEF f
    <3> QED BY <2>2, <3>1
  <2>4. m + 1 \in Nat
    OBVIOUS
  <2> HIDE DEF Loop
  <2> QED BY <2>3, <2>4
<1>3. n \in S
  <2> HIDE DEF S
  <2> QED BY <1>1, <1>2, NatSet
<1> DEFINE after[i \in 0..n] == IF i = 0 THEN c ELSE FeedRecord(after[i - 1], wire[i])
<1>4. after = [i \in 0..n |-> IF i = 0 THEN c ELSE FeedRecord(after[i - 1], wire[i])]
  BY <1>3 DEF after
<1>5. FeedRecords(c, n) = after[n]
  BY DEF FeedRecords
<1> HIDE DEF after
<1>6. after[0] = c
  BY <1>4
<1>7. \A i \in 1..n : after[i] = FeedRecord(after[i - 1], wire[i])
  BY <1>4
<1> QED BY <1>5, <1>6, <1>7 DEF RecordsRun

LEMMA SeqIs ==
  ASSUME NEW S, NEW s \in Seq(S)
  PROVE  IsSeq(s)
<1>1. Len(s) \in Nat /\ s \in [1..Len(s) -> S]
  OBVIOUS
<1>2. s \in [1..Len(s) -> {s[i] : i \in 1..Len(s)}]
  BY <1>1
<1> QED BY <1>1, <1>2, SeqDef DEF IsSeq

LEMMA FunctionIsSeq ==
  ASSUME NEW s, NEW n \in Nat, DOMAIN s = 1..n, s = [i \in 1..n |-> s[i]]
  PROVE  IsSeq(s) /\ Len(s) = n
<1>1. s \in [1..n -> {s[i] : i \in 1..n}]
  OBVIOUS
<1>2. s \in Seq({s[i] : i \in 1..n})
  BY <1>1, SeqDef
<1>3. Len(s) = n
  BY <1>2, LenProperties
<1> QED BY <1>2, <1>3 DEF IsSeq

LEMMA IsSeqFacts ==
  ASSUME NEW s, IsSeq(s)
  PROVE  Len(s) \in Nat /\ DOMAIN s = 1..Len(s) /\ s = [i \in 1..Len(s) |-> s[i]]
BY LenProperties DEF IsSeq

(* Two sequences, of whatever elements, put together.                        *)
LEMMA Joined ==
  ASSUME NEW s, NEW t, IsSeq(s), IsSeq(t)
  PROVE  /\ IsSeq(s \o t) /\ Len(s \o t) = Len(s) + Len(t)
         /\ \A i \in 1..Len(s) : (s \o t)[i] = s[i]
         /\ \A i \in 1..Len(t) : (s \o t)[Len(s) + i] = t[i]
<1> DEFINE S == {s[i] : i \in 1..Len(s)} \cup {t[i] : i \in 1..Len(t)}
<1>1. s \in Seq(S) /\ t \in Seq(S)
  BY SeqMonotonic DEF IsSeq
<1>2. Len(s) \in Nat /\ Len(t) \in Nat
  BY <1>1
<1> HIDE DEF S
<1>3. s \o t \in Seq(S) /\ Len(s \o t) = Len(s) + Len(t)
      /\ \A i \in 1 .. Len(s) + Len(t) : (s \o t)[i] =
                     IF i <= Len(s) THEN s[i] ELSE t[i - Len(s)]
  BY <1>1, ConcatProperties
<1>4. ASSUME NEW i \in 1..Len(t) PROVE (s \o t)[Len(s) + i] = t[i]
  BY <1>2, <1>3
<1>5. ASSUME NEW i \in 1..Len(s) PROVE (s \o t)[i] = s[i]
  BY <1>2, <1>3
<1> QED BY <1>3, <1>4, <1>5, SeqIs

LEMMA JoinedThree ==
  ASSUME NEW s, NEW t, NEW u, IsSeq(s), IsSeq(t), IsSeq(u)
  PROVE  (s \o t) \o u = s \o (t \o u)
<1> DEFINE S == {s[i] : i \in 1..Len(s)} \cup {t[i] : i \in 1..Len(t)} \cup {u[i] : i \in 1..Len(u)}
<1>1. s \in Seq(S) /\ t \in Seq(S) /\ u \in Seq(S)
  BY SeqMonotonic DEF IsSeq
<1> HIDE DEF S
<1> QED BY <1>1, ConcatAssociative

LEMMA NoneIsSeq == IsSeq(<<>>) /\ Len(<<>>) = 0
<1>1. <<>> \in Seq({})
  OBVIOUS
<1> QED BY <1>1, SeqIs

LEMMA JoinedEmpty ==
  ASSUME NEW s, IsSeq(s)
  PROVE  s \o <<>> = s /\ <<>> \o s = s /\ IsSeq(<<>>)
<1>1. IsSeq(<<>>)
  <2>1. <<>> \in Seq({})
    OBVIOUS
  <2> QED BY <2>1, SeqIs
<1> QED BY <1>1, ConcatEmptySeq DEF IsSeq

LEMMA Appended ==
  ASSUME NEW s, NEW e, IsSeq(s)
  PROVE  /\ Append(s, e) = s \o <<e>> /\ IsSeq(Append(s, e)) /\ Len(Append(s, e)) = Len(s) + 1
         /\ \A i \in 1..Len(s) : Append(s, e)[i] = s[i]
         /\ Append(s, e)[Len(s) + 1] = e
<1> DEFINE S == {s[i] : i \in 1..Len(s)} \cup {e}
<1>1. s \in Seq(S) /\ e \in S
  <2>1. {s[i] : i \in 1..Len(s)} \subseteq S /\ e \in S
    OBVIOUS
  <2> HIDE DEF S
  <2> QED BY <2>1, SeqMonotonic DEF IsSeq
<1> HIDE DEF S
<1>2. /\ Append(s, e) \in Seq(S) /\ Len(Append(s, e)) = Len(s) + 1
      /\ \A i \in 1..Len(s) : Append(s, e)[i] = s[i]
      /\ Append(s, e)[Len(s) + 1] = e
  BY <1>1, AppendProperties
<1>3. Append(s, e) = s \o <<e>>
  BY <1>1, AppendIsConcat
<1>4. IsSeq(Append(s, e))
  BY <1>2, SeqIs
<1> QED BY <1>2, <1>3, <1>4

(* What is left of a sequence when its beginning is gone.                    *)
LEMMA Dropped ==
  ASSUME NEW s, IsSeq(s), NEW m \in 0..Len(s)
  PROVE  /\ IsSeq(SubSeq(s, m + 1, Len(s))) /\ Len(SubSeq(s, m + 1, Len(s))) = Len(s) - m
         /\ \A i \in 1..(Len(s) - m) : SubSeq(s, m + 1, Len(s))[i] = s[m + i]
<1> DEFINE S == {s[i] : i \in 1..Len(s)}
<1>1. Len(s) \in Nat /\ m \in Nat
  BY IsSeqFacts
<1>2. \A i \in (m + 1)..Len(s) : s[i] \in S
  BY <1>1
<1> HIDE DEF S
<1>3. /\ SubSeq(s, m + 1, Len(s)) \in Seq(S)
      /\ Len(SubSeq(s, m + 1, Len(s))) = IF m + 1 <= Len(s) THEN Len(s) - (m + 1) + 1 ELSE 0
      /\ \A i \in 1..(Len(s) - (m + 1) + 1) : SubSeq(s, m + 1, Len(s))[i] = s[(m + 1) + i - 1]
  BY <1>1, <1>2, SubSeqProperties
<1>4. Len(SubSeq(s, m + 1, Len(s))) = Len(s) - m
  BY <1>1, <1>3
<1>5. ASSUME NEW i \in 1..(Len(s) - m) PROVE SubSeq(s, m + 1, Len(s))[i] = s[m + i]
  <2>1. i \in 1..(Len(s) - (m + 1) + 1) /\ (m + 1) + i - 1 = m + i
    BY <1>1
  <2> QED BY <1>3, <2>1
<1> QED BY <1>3, <1>4, <1>5, SeqIs

LEMMA TailOf ==
  ASSUME NEW s, IsSeq(s), s # <<>>
  PROVE  /\ IsSeq(Tail(s)) /\ Len(s) > 0 /\ Len(Tail(s)) = Len(s) - 1 /\ Head(s) = s[1]
         /\ \A i \in 1..Len(Tail(s)) : Tail(s)[i] = s[i + 1]
<1> DEFINE S == {s[i] : i \in 1..Len(s)}
<1>1. s \in Seq(S)
  BY DEF IsSeq
<1> HIDE DEF S
<1>2. Tail(s) \in Seq(S) /\ Len(Tail(s)) = Len(s)-1 /\ \A i \in 1 .. Len(Tail(s)) : Tail(s)[i] = s[i+1]
  BY <1>1, HeadTailProperties
<1>3. Len(s) > 0 /\ Head(s) = s[1]
  BY <1>1
<1> QED BY <1>2, <1>3, SeqIs

(* Sequences of any elements are equal when their elements are.              *)
LEMMA SameSeq ==
  ASSUME NEW s, NEW t, IsSeq(s), IsSeq(t), Len(s) = Len(t), \A i \in 1..Len(s) : s[i] = t[i]
  PROVE  s = t
<1>1. s = [i \in 1..Len(s) |-> s[i]] /\ t = [i \in 1..Len(s) |-> t[i]]
  BY IsSeqFacts
<1> QED BY <1>1

(* Numbers.                                                                  *)
LEMMA NumbersSeq ==
  ASSUME NEW n \in Nat
  PROVE  Numbers(n) \in Seq(Nat) /\ Len(Numbers(n)) = n /\ \A i \in 1..n : Numbers(n)[i] = i
BY DEF Numbers

(* The two half messages of each message, cut anywhere.                      *)
Held(msgs, p) == IF p % 2 = 1 THEN <<msgs[(p + 1) \div 2]>> ELSE <<>>

LEMMA HalvesAfter ==
  ASSUME NEW q \in Nat, NEW m \in Int
  PROVE  (q - 2 * m) \div 2 = (q \div 2) - m
OBVIOUS

LEMMA Chunk ==
  ASSUME NEW msgs, IsSeq(msgs), NEW p \in 0..(2 * Len(msgs)), NEW q \in p..(2 * Len(msgs))
  PROVE  LET body == SubSeq(MessageHalves(msgs), p + 1, q)
             all == Held(msgs, p) \o body
         IN  /\ Complete(all) = [i \in 1..(q \div 2 - p \div 2) |-> msgs[p \div 2 + i]]
             /\ Rest(all) = Held(msgs, q)
<1> DEFINE M == {msgs[i] : i \in 1..Len(msgs)}
           h == MessageHalves(msgs)
           body == SubSeq(h, p + 1, q)
           all == Held(msgs, p) \o body
           m == p \div 2
           n == q \div 2
<1>1. Len(msgs) \in Nat /\ p \in Nat /\ q \in Nat
  BY IsSeqFacts
<1>2. h \in Seq(M) /\ Len(h) = 2 * Len(msgs) /\ \A i \in 1..(2 * Len(msgs)) : h[i] = msgs[(i + 1) \div 2]
  <2>1. \A i \in 1..(2 * Len(msgs)) : (i + 1) \div 2 \in 1..Len(msgs)
    BY <1>1
  <2>2. \A i \in 1..(2 * Len(msgs)) : msgs[(i + 1) \div 2] \in M
    BY <2>1
  <2>3. 2 * Len(msgs) \in Nat
    BY <1>1
  <2> HIDE DEF M
  <2> QED BY <2>2, <2>3 DEF MessageHalves
<1>3. Held(msgs, p) \in Seq(M) /\ Len(Held(msgs, p)) = p % 2
      /\ (p % 2 = 1 => Held(msgs, p)[1] = msgs[(p + 1) \div 2])
  <2>1. CASE p % 2 = 1
    <3>1. (p + 1) \div 2 \in 1..Len(msgs)
      BY <1>1, <2>1
    <3> QED BY <2>1, <3>1 DEF Held
  <2>2. CASE p % 2 # 1
    <3>1. p % 2 = 0
      BY <1>1, <2>2
    <3> QED BY <2>2, <3>1 DEF Held
  <2> QED BY <2>1, <2>2
<1> HIDE DEF M
<1>4. body \in Seq(M) /\ Len(body) = q - p /\ \A i \in 1..(q - p) : body[i] = h[p + i]
  <2>1. \A i \in (p + 1)..q : h[i] \in M
    BY <1>1, <1>2
  <2> HIDE DEF h
  <2>2. /\ body \in Seq(M)
        /\ Len(body) = IF p + 1 <= q THEN q - (p + 1) + 1 ELSE 0
        /\ \A i \in 1..(q - (p + 1) + 1) : body[i] = h[(p + 1) + i - 1]
    BY <1>1, <2>1, SubSeqProperties, SMTT(40)
  <2>3. Len(body) = q - p
    BY <1>1, <2>2
  <2>4. ASSUME NEW i \in 1..(q - p) PROVE body[i] = h[p + i]
    <3>1. i \in 1..(q - (p + 1) + 1) /\ (p + 1) + i - 1 = p + i
      BY <1>1
    <3> QED BY <2>2, <3>1
  <2> QED BY <2>2, <2>3, <2>4
<1> HIDE DEF body, h
(* all begins at the last boundary of a message before p.                    *)
<1>5. all \in Seq(M) /\ Len(all) = q - 2 * m /\ \A i \in 1..(q - 2 * m) : all[i] = msgs[(2 * m + i + 1) \div 2]
  <2>1. all \in Seq(M) /\ Len(all) = (p % 2) + (q - p)
        /\ \A i \in 1..Len(all) : all[i] = IF i <= p % 2 THEN Held(msgs, p)[i] ELSE body[i - (p % 2)]
    BY <1>1, <1>3, <1>4, ConcatProperties
  <2>2. p = 2 * m + (p % 2) /\ p % 2 \in {0, 1}
    BY <1>1
  <2>3. ASSUME NEW i \in 1..(q - 2 * m) PROVE all[i] = msgs[(2 * m + i + 1) \div 2]
    <3>1. CASE i <= p % 2
      <4>1. i = 1 /\ p % 2 = 1 /\ (2 * m + i + 1) \div 2 = (p + 1) \div 2
        BY <1>1, <2>2, <3>1
      <4> QED BY <1>3, <2>1, <2>2, <4>1
    <3>2. CASE i > p % 2
      <4> DEFINE e == p % 2
      <4>0. p = 2 * m + e /\ e \in {0, 1} /\ i > e /\ m \in Nat
        BY <1>1, <2>2, <3>2
      <4>a. Len(all) = e + (q - p)
        BY <2>1
      <4>1. i - e \in 1..(q - p) /\ p + (i - e) = 2 * m + i /\ i \in 1..Len(all) /\ ~(i <= e)
        <5> HIDE DEF m, e, all
        <5> QED BY <1>1, <4>a, <4>0
      <4>2. 2 * m + i \in 1..(2 * Len(msgs))
        BY <1>1, <4>0
      <4>3. all[i] = body[i - e]
        <5> HIDE DEF all, m
        <5> QED BY <2>1, <4>1
      <4>4. body[i - e] = h[2 * m + i]
        <5> HIDE DEF e, m
        <5> QED BY <1>4, <4>1
      <4> QED BY <1>2, <4>2, <4>3, <4>4
    <3>3. i <= p % 2 \/ i > p % 2
      BY <1>1, <2>2
    <3> QED BY <3>1, <3>2, <3>3
  <2> QED BY <2>1, <2>2, <2>3
<1> HIDE DEF all
<1>6. Ready(all) = n - m
  <2>1. Len(all) = q - 2 * m
    BY <1>5
  <2>2. m \in Int
    BY <1>1
  <2>3. (q - 2 * m) \div 2 = n - m
    <3> HIDE DEF m
    <3> QED BY <1>1, <2>2, HalvesAfter
  <2> QED BY <2>1, <2>3, Zenon DEF Ready
<1>7. Complete(all) = [i \in 1..(n - m) |-> msgs[m + i]]
  <2>1. ASSUME NEW i \in 1..(n - m) PROVE all[2 * i] = msgs[m + i]
    <3>1. 2 * i \in 1..(q - 2 * m) /\ (2 * m + 2 * i + 1) \div 2 = m + i
      BY <1>1
    <3> QED BY <1>5, <3>1
  <2> QED BY <1>6, <2>1 DEF Complete
<1>8. Rest(all) = Held(msgs, q)
  <2>1. Rest(all) = SubSeq(all, 2 * (n - m) + 1, q - 2 * m)
    BY <1>5, <1>6 DEF Rest
  <2>2. CASE q % 2 = 1
    <3>1. 2 * (n - m) + 1 = q - 2 * m /\ q - 2 * m \in 1..Len(all)
      <4>1. q = 2 * n + 1 /\ m <= n /\ n \in Nat /\ m \in Nat
        BY <1>1, <2>2
      <4> HIDE DEF m, n
      <4> QED BY <1>5, <4>1
    <3>2. (2 * m + (q - 2 * m) + 1) \div 2 = (q + 1) \div 2
      BY <1>1
    <3>3. all[q - 2 * m] = msgs[(q + 1) \div 2]
      BY <1>5, <3>1, <3>2
    <3>4. SubSeq(all, q - 2 * m, q - 2 * m) = <<all[q - 2 * m]>>
      <4> DEFINE l == q - 2 * m
      <4>1. l \in Nat /\ l \in 1..Len(all)
        BY <1>1, <3>1
      <4> HIDE DEF l
      <4>2. \A i \in l..l : all[i] \in M
        BY <1>5, <4>1
      <4>3. SubSeq(all, l, l) \in Seq(M) /\ Len(SubSeq(all, l, l)) = 1 /\ SubSeq(all, l, l)[1] = all[l]
        <5>1. /\ SubSeq(all, l, l) \in Seq(M) /\ Len(SubSeq(all, l, l)) = (IF l <= l THEN l - l + 1 ELSE 0)
              /\ \A i \in 1..(l - l + 1) : SubSeq(all, l, l)[i] = all[l + i - 1]
          BY <4>1, <4>2, SubSeqProperties
        <5>2. l - l + 1 = 1 /\ l + 1 - 1 = l /\ l <= l
          BY <4>1
        <5> QED BY <5>1, <5>2
      <4>4. SubSeq(all, l, l) = <<all[l]>>
        <5> DEFINE t == SubSeq(all, l, l)
        <5>1. t \in Seq(M) /\ Len(t) = 1 /\ t[1] = all[l]
          BY <4>3
        <5> HIDE DEF t
        <5>2. t = <<all[l]>>
          BY <5>1
        <5> QED BY <5>2 DEF t
      <4> QED BY <4>4 DEF l
    <3> QED BY <2>1, <2>2, <3>1, <3>3, <3>4 DEF Held
  <2>3. CASE q % 2 # 1
    <3>1. q - 2 * m < 2 * (n - m) + 1 /\ q - 2 * m \in Int /\ 2 * (n - m) + 1 \in Int
      BY <1>1, <2>3
    <3> QED BY <2>1, <2>3, <3>1, SubSeqEmpty DEF Held
  <2> QED BY <2>2, <2>3
<1> QED BY <1>7, <1>8 DEF all, body, h

-----------------------------------------------------------------------------
(* The messages of the server, and what the client makes of them.            *)

(* The transcripts grow by one message at a time.                            *)
LEMMA Grows13 ==
  /\ Append(UpTo(Seen13, 1), "ServerHello13") = UpTo(Seen13, 2)
  /\ Append(UpTo(Seen13, 2), "EncryptedExtensions") = UpTo(Seen13, 3)
  /\ Append(UpTo(Seen13, 3), "Certificate") = UpTo(Seen13, 4)
  /\ Append(UpTo(Seen13, 4), "CertificateVerify") = UpTo(Seen13, 5)
  /\ Append(UpTo(Seen13, 5), "Finished") = UpTo(Seen13, 6)
BY DEF UpTo, Seen13

LEMMA Grows12 ==
  ASSUME NEW kind \in Kinds12
  PROVE  /\ Append(UpTo(Seen13, 1), kind) = UpTo(Seen12(kind), 2)
         /\ Append(UpTo(Seen12(kind), 2), "Certificate12") = UpTo(Seen12(kind), 3)
         /\ Append(UpTo(Seen12(kind), 3), "ServerKeyExchange") = UpTo(Seen12(kind), 4)
         /\ Append(UpTo(Seen12(kind), 4), "ServerHelloDone") = UpTo(Seen12(kind), 5)
         /\ Append(UpTo(Seen12(kind), 5), "ClientKeyExchange") = UpTo(Seen12(kind), 6)
         /\ Append(UpTo(Seen12(kind), 6), "ClientFinished") = UpTo(Seen12(kind), 7)
BY DEF UpTo, Seen13, Seen12

(* What the client sent stays on its way when it sends nothing.              *)
LEMMA NothingSent ==
  ASSUME NEW c, NEW d, OnItsWay(c, up \o c.out, server), d.out = c.out,
         d.appKeys = c.appKeys, d.sendOn = c.sendOn, d.sendSeq = c.sendSeq
  PROVE  OnItsWay(d, up \o d.out, server)
<1>1. \A kind : SentBy(d, kind) = SentBy(c, kind)
  BY DEF SentBy
<1>2. up \o d.out = up \o c.out
  OBVIOUS
<1> QED BY <1>1, <1>2 DEF OnItsWay

(* A message to which the client does not answer.                            *)
Silent(c, d) ==
    /\ IsClient(d) /\ d.hs = c.hs /\ d.half = c.half /\ d.appData = c.appData /\ d.out = c.out
    /\ d.appKeys = c.appKeys /\ d.sendSeq = c.sendSeq /\ d.sent = c.sent

LEMMA SilentIsHandled ==
  ASSUME NEW c, NEW d, OnItsWay(c, up \o c.out, server), Silent(c, d),
         d.sendOn = c.sendOn \/ Kind(server) = "1.3"
  PROVE  Handled(c, d)
<1>1. SentBy(d, Kind(server)) = SentBy(c, Kind(server)) /\ d.out = c.out
  BY DEF SentBy, Silent
<1>2. OnItsWay(d, up \o d.out, server)
  BY <1>1 DEF OnItsWay
<1>3. Synced(c) => Synced(d)
  BY Zenon DEF Silent, Synced
<1> QED BY <1>2, <1>3, Zenon DEF Handled, Silent

(* A message that only extends the transcript.                               *)
LEMMA Noted ==
  ASSUME NEW c, NEW m, NEW t, Append(c.transcript, m.type) = t
  PROVE  Note(c, m) = [c EXCEPT !.transcript = t]
BY DEF Note

(* What In13 says of the first five messages.                                *)
LEMMA In13Means ==
  ASSUME NEW c, NEW n \in 2..5, NEW seq, In13(c, n, seq)
  PROVE  /\ Waiting(c) /\ ~c.tls12 /\ c.recvOn /\ c.sendOn
         /\ c.state = Expecting13[n] /\ c.transcript = UpTo(Seen13, n)
         /\ c.sendKey = ClientFlightKey /\ c.recvKey = ServerFlightKey
         /\ c.sendSeq = 0 /\ c.recvSeq = seq
BY DEF In13

LEMMA In13Is ==
  ASSUME NEW c, NEW n \in 2..5, NEW seq, Waiting(c), ~c.tls12, c.recvOn, c.sendOn,
         c.state = Expecting13[n], c.transcript = UpTo(Seen13, n),
         c.sendKey = ClientFlightKey, c.recvKey = ServerFlightKey, c.sendSeq = 0, c.recvSeq = seq
  PROVE  In13(c, n, seq)
BY DEF In13

LEMMA WaitingStays ==
  ASSUME NEW c, NEW d, Waiting(c), d.fail = c.fail, d.appKeys = c.appKeys, d.appData = c.appData,
         d.sent = c.sent
  PROVE  Waiting(d)
BY DEF Waiting

LEMMA NotFailed ==
  ASSUME NEW n \in 2..5
  PROVE  Expecting13[n] # "Failed"
BY DEF Expecting13

Turn(c, t, s) == [c EXCEPT !.transcript = t, !.state = s]
NotedIn(c, m, s) == [Note(c, m) EXCEPT !.state = s]

LEMMA Turns ==
  ASSUME NEW c, NEW m, NEW t, NEW s, Append(c.transcript, m.type) = t
  PROVE  NotedIn(c, m, s) = Turn(c, t, s)
<1>1. Note(c, m) = [c EXCEPT !.transcript = t]
  BY DEF Note
<1> QED BY <1>1 DEF Turn, NotedIn

(* The client differs in its transcript, its state and its failure only.     *)
Turned(c, d, t, s, f) ==
    /\ Silent(c, d) /\ d.transcript = t /\ d.state = s /\ d.fail = f
    /\ d.sendSeq = c.sendSeq /\ d.recvSeq = c.recvSeq
    /\ d.sendKey = c.sendKey /\ d.recvKey = c.recvKey
    /\ d.tls12 = c.tls12 /\ d.appKeys = c.appKeys /\ d.recvOn = c.recvOn
    /\ d.sendOn = c.sendOn /\ d.ems = c.ems

Quiet(c, d) == Silent(c, d) /\ d.sendOn = c.sendOn

LEMMA SilentStep ==
  ASSUME NEW c, IsClient(c), NEW t, NEW s, NEW f,
         NEW d, d = [c EXCEPT !.transcript = t, !.state = s, !.fail = f]
  PROVE  Turned(c, d, t, s, f)
<1>1. IsClient(d)
  BY DEF IsClient
<1>2. /\ d.hs = c.hs /\ d.half = c.half /\ d.out = c.out /\ d.fail = f
      /\ d.appData = c.appData /\ d.sent = c.sent /\ d.sendSeq = c.sendSeq
      /\ d.recvSeq = c.recvSeq /\ d.sendKey = c.sendKey /\ d.recvKey = c.recvKey
      /\ d.state = s /\ d.transcript = t
  BY DEF IsClient
<1>3. d.tls12 = c.tls12 /\ d.appKeys = c.appKeys /\ d.recvOn = c.recvOn /\ d.sendOn = c.sendOn
      /\ d.ems = c.ems
  BY DEF IsClient
<1>4. Silent(c, d)
  BY <1>1, <1>2, <1>3, Zenon DEF Silent
<1> QED BY <1>2, <1>3, <1>4, Zenon DEF Turned

LEMMA Advanced13 ==
  ASSUME NEW c, IsClient(c), NEW n \in 2..4, NEW seq, In13(c, n, seq),
         NEW k, k = n + 1, NEW s, s = Expecting13[k], NEW d, d = Turn(c, UpTo(Seen13, k), s)
  PROVE  Quiet(c, d) /\ In13(d, k, seq)
<1>1. d = [c EXCEPT !.transcript = UpTo(Seen13, k), !.state = s,
                    !.fail = c.fail]
  BY DEF IsClient, Turn
<1>0. Turned(c, d, UpTo(Seen13, k), s, c.fail)
  BY <1>1, SilentStep
<1>2. /\ Silent(c, d) /\ d.transcript = UpTo(Seen13, k) /\ d.state = s
      /\ d.fail = c.fail /\ d.sendSeq = c.sendSeq /\ d.recvSeq = c.recvSeq
      /\ d.sendKey = c.sendKey /\ d.recvKey = c.recvKey
      /\ d.tls12 = c.tls12 /\ d.appKeys = c.appKeys /\ d.recvOn = c.recvOn
      /\ d.sendOn = c.sendOn
  BY <1>0, Zenon DEF Turned
<1>3. n \in 2..5 /\ k \in 2..5 /\ d.state = Expecting13[k]
  BY <1>2
<1>4. /\ Waiting(c) /\ ~c.tls12 /\ c.recvOn /\ c.sendOn
      /\ c.sendKey = ClientFlightKey /\ c.recvKey = ServerFlightKey
      /\ c.sendSeq = 0 /\ c.recvSeq = seq
  BY <1>3, In13Means, ZenonT(40)
<1>5. ~d.tls12 /\ d.recvOn /\ d.sendOn
  BY <1>2, <1>4, Zenon
<1>6. d.appData = c.appData /\ d.sent = c.sent
  BY <1>2, Zenon DEF Silent
<1>7. Waiting(d)
  BY <1>2, <1>4, <1>6, WaitingStays, Zenon
<1>8. d.sendKey = ClientFlightKey /\ d.recvKey = ServerFlightKey /\ d.sendSeq = 0 /\ d.recvSeq = seq
  BY <1>2, <1>4, Zenon
<1>9. In13(d, k, seq)
  BY <1>2, <1>3, <1>5, <1>7, <1>8, In13Is, ZenonT(40)
<1> QED BY <1>2, <1>9, Zenon DEF Quiet

(* The messages of a 1.3 flight, one by one.                                 *)
Greeted(c) == [c EXCEPT !.transcript = UpTo(Seen13, 2), !.sendKey = ClientFlightKey,
                        !.recvKey = ServerFlightKey, !.sendSeq = 0, !.recvSeq = 0,
                        !.sendOn = TRUE, !.recvOn = TRUE, !.state = "WaitEncryptedExtensions"]
KeysInstalled(c) == [InstallHandshakeKeys(c) EXCEPT
                       !.recvOn = TRUE, !.state = "WaitEncryptedExtensions"]

LEMMA GreetingKeys ==
  ASSUME NEW c, NEW m, Append(c.transcript, m.type) = UpTo(Seen13, 2), IsClient(c)
  PROVE  KeysInstalled(Note(c, m)) = Greeted(c)
<1>1. Note(c, m) = [c EXCEPT !.transcript = UpTo(Seen13, 2)]
  BY Noted
<1>2. Note(c, m).transcript = UpTo(Seen13, 2)
  BY <1>1 DEF IsClient
<1> QED
  BY <1>1, <1>2 DEF InstallHandshakeKeys, ClientFlightKey, ServerFlightKey, KeysInstalled, Greeted

LEMMA ServerHello13Handled ==
  ASSUME NEW c, IsClient(c), Greeting(c), NEW d, d = HandleMessage(FALSE, c, Hello13[1])
  PROVE  Silent(c, d) /\ In13(d, 2, 0)
<1>1. Hello13[1].type = "ServerHello13" /\ Expecting13[2] = "WaitEncryptedExtensions"
  BY DEF Hello13, Msg, Expecting13
<1>2. Waiting(c) /\ ~c.tls12 /\ c.sendSeq = 0 /\ c.state # "Failed"
  BY DEF Greeting
<1>3. c.transcript = UpTo(Seen13, 1)
  BY DEF Greeting
<1>4. d = Greeted(c)
  <2>1. d = KeysInstalled(Note(c, Hello13[1]))
    BY <1>1, <1>2 DEF HandleMessage, HandleHandshake, OnServerHello, KeysInstalled
  <2>2. Append(c.transcript, Hello13[1].type) = UpTo(Seen13, 2)
    BY <1>1, <1>3, Grows13
  <2> QED BY <2>1, <2>2, GreetingKeys, Zenon
<1>5. IsClient(d)
  <2>1. ASSUME NEW e, e = Greeted(c) PROVE IsClient(e)
    BY <2>1 DEF IsClient, Greeted
  <2> QED BY <1>4, <2>1, Zenon
<1>6. /\ d.hs = c.hs /\ d.half = c.half /\ d.out = c.out /\ d.fail = c.fail
      /\ d.appData = c.appData /\ d.sent = c.sent /\ d.sendSeq = 0 /\ d.recvSeq = 0
      /\ d.sendKey = ClientFlightKey /\ d.recvKey = ServerFlightKey
      /\ d.state = "WaitEncryptedExtensions" /\ d.transcript = UpTo(Seen13, 2)
  BY <1>4, ZenonT(40) DEF IsClient, Greeted
<1>7. d.tls12 = c.tls12 /\ d.appKeys = c.appKeys
  BY <1>4 DEF IsClient, Greeted
<1>8. d.recvOn /\ d.sendOn
  BY <1>4 DEF IsClient, Greeted
<1>9. Waiting(d) /\ ~d.tls12
  BY <1>2, <1>6, <1>7, WaitingStays, Zenon
<1>10. In13(d, 2, 0)
  <2>1. 2 \in 2..5
    OBVIOUS
  <2> QED BY <1>1, <1>6, <1>8, <1>9, <2>1, In13Is, Zenon
<1>11. Silent(c, d)
  BY <1>2, <1>5, <1>6, <1>7, Zenon DEF Silent
<1> QED BY <1>10, <1>11

LEMMA EncryptedExtensionsHandled ==
  ASSUME NEW c, IsClient(c), NEW seq, In13(c, 2, seq),
         NEW d, d = HandleMessage(FALSE, c, Flight13[1])
  PROVE  Quiet(c, d) /\ In13(d, 3, seq)
<1>1. Flight13[1].type = "EncryptedExtensions" /\ Expecting13[3] = "WaitCertificate"
  BY DEF Flight13, Msg, Expecting13
<1>2. c.transcript = UpTo(Seen13, 2) /\ c.state # "Failed"
  BY In13Means, NotFailed
<1>3. d = NotedIn(c, Flight13[1], "WaitCertificate")
  BY <1>1, <1>2 DEF HandleMessage, HandleHandshake, OnEncryptedExtensions, NotedIn
<1>4. Append(c.transcript, Flight13[1].type) = UpTo(Seen13, 3)
  BY <1>1, <1>2, Grows13
<1>5. d = Turn(c, UpTo(Seen13, 3), "WaitCertificate")
  BY <1>3, <1>4, Turns, Zenon
<1>6. 2 \in 2..4 /\ 3 = 2 + 1 /\ "WaitCertificate" = Expecting13[3]
  BY <1>1
<1> QED BY <1>5, <1>6, Advanced13, Zenon

LEMMA CertificateHandled ==
  ASSUME NEW c, IsClient(c), NEW seq, In13(c, 3, seq),
         NEW d, d = HandleMessage(FALSE, c, Flight13[2])
  PROVE  Quiet(c, d) /\ In13(d, 4, seq)
<1>1. Flight13[2].type = "Certificate" /\ Expecting13[4] = "WaitCertificateVerify"
  BY DEF Flight13, Msg, Expecting13
<1>2. c.transcript = UpTo(Seen13, 3) /\ c.state # "Failed"
  BY In13Means, NotFailed
<1>3. d = NotedIn(c, Flight13[2], "WaitCertificateVerify")
  BY <1>1, <1>2 DEF HandleMessage, HandleHandshake, OnCertificate, NotedIn
<1>4. Append(c.transcript, Flight13[2].type) = UpTo(Seen13, 4)
  BY <1>1, <1>2, Grows13
<1>5. d = Turn(c, UpTo(Seen13, 4), "WaitCertificateVerify")
  BY <1>3, <1>4, Turns, Zenon
<1>6. 3 \in 2..4 /\ 4 = 3 + 1 /\ "WaitCertificateVerify" = Expecting13[4]
  BY <1>1
<1> QED BY <1>5, <1>6, Advanced13, Zenon

(* The one certificate that is not trusted ends the handshake.               *)
LEMMA RejectedIsBroken ==
  ASSUME NEW c, IsClient(c), Waiting(c), ~trusted, NEW t,
         NEW d, d = [c EXCEPT !.transcript = t, !.fail = "CertificateRejected", !.state = "Failed"],
         server.version = "1.2" => ~c.sendOn
  PROVE  Quiet(c, d) /\ Broken(d)
<1>1. d = [c EXCEPT !.transcript = t, !.state = "Failed", !.fail = "CertificateRejected"]
  BY DEF IsClient
<1>0. Turned(c, d, t, "Failed", "CertificateRejected")
  BY <1>1, SilentStep
<1>2. /\ Silent(c, d) /\ d.state = "Failed" /\ d.fail = "CertificateRejected"
      /\ d.appKeys = c.appKeys /\ d.sendOn = c.sendOn
  BY <1>0, Zenon DEF Turned
<1>3. ~d.appKeys /\ d.appData = <<>>
  BY <1>2, Zenon DEF Silent, Waiting
<1>4. server.version = "1.2" => ~d.sendOn
  BY <1>2, Zenon
<1>5. Broken(d)
  BY <1>2, <1>3, <1>4, Zenon DEF Broken
<1> QED BY <1>2, <1>5, Zenon DEF Quiet

LEMMA CertificateVerifyHandled ==
  ASSUME NEW c, IsClient(c), NEW seq, In13(c, 4, seq), server.version = "1.3", trusted \in BOOLEAN,
         NEW d, d = HandleMessage(FALSE, c, Flight13[3])
  PROVE  Quiet(c, d) /\ (In13(d, 5, seq) \/ Broken(d))
<1>1. Flight13[3].type = "CertificateVerify" /\ Flight13[3].th = UpTo(Seen13, 4)
      /\ Expecting13[5] = "WaitFinished"
  BY DEF Flight13, Msg, Expecting13
<1>2. c.transcript = UpTo(Seen13, 4) /\ c.state # "Failed" /\ Waiting(c) /\ c.fail = "None"
  BY In13Means, NotFailed DEF Waiting
<1>3. d = OnCertificateVerify(c, Flight13[3])
  BY <1>1, <1>2 DEF HandleMessage, HandleHandshake
<1>4a. Append(c.transcript, Flight13[3].type) = UpTo(Seen13, 5)
  BY <1>1, <1>2, Grows13
<1>4. Note(c, Flight13[3]) = [c EXCEPT !.transcript = UpTo(Seen13, 5)]
  BY <1>4a, Noted
<1>5. CASE trusted
  <2>1. d = NotedIn(c, Flight13[3], "WaitFinished")
    BY <1>1, <1>2, <1>3, <1>5 DEF OnCertificateVerify, NotedIn
  <2>2. d = Turn(c, UpTo(Seen13, 5), "WaitFinished")
    BY <1>4a, <2>1, Turns, Zenon
  <2>3. 4 \in 2..4 /\ 5 = 4 + 1 /\ "WaitFinished" = Expecting13[5]
    BY <1>1
  <2> QED BY <2>2, <2>3, Advanced13, Zenon
<1>6. CASE ~trusted
  <2>1. d = Fail(Note(c, Flight13[3]), "CertificateRejected")
    BY <1>1, <1>2, <1>3, <1>6 DEF OnCertificateVerify
  <2>2. d = [c EXCEPT !.transcript = UpTo(Seen13, 5), !.fail = "CertificateRejected",
                      !.state = "Failed"]
    BY <1>2, <1>4, <2>1 DEF IsClient, Fail
  <2>3. server.version # "1.2"
    OBVIOUS
  <2> QED BY <1>2, <1>6, <2>2, <2>3, RejectedIsBroken
<1> QED BY <1>5, <1>6

(* What the client sends joins what is on its way.                           *)
LEMMA SentMore ==
  ASSUME NEW c, NEW d, NEW u, NEW v, IsSeq(u), IsSeq(v), OnItsWay(c, u, server),
         NEW kind, kind = Kind(server), SentBy(c, kind) \in Nat,
         SentBy(d, kind) = SentBy(c, kind) + Len(v),
         \A i \in 1..Len(v) : IsNth(v[i], kind, SentBy(c, kind) + i)
  PROVE  OnItsWay(d, u \o v, server)
<1> SUFFICES ASSUME server.phase \in {"answered", "ready"}
             PROVE  \E n \in 0..SentBy(d, kind) :
                      /\ HasRead(server, n)
                      /\ Len(u \o v) = SentBy(d, kind) - n
                      /\ \A i \in 1..Len(u \o v) : IsNth((u \o v)[i], kind, n + i)
  BY DEF OnItsWay
<1>1. PICK n \in 0..SentBy(c, kind) :
             /\ HasRead(server, n)
             /\ Len(u) = SentBy(c, kind) - n
             /\ \A i \in 1..Len(u) : IsNth(u[i], kind, n + i)
  BY DEF OnItsWay
<1>2. /\ Len(u) \in Nat /\ Len(v) \in Nat /\ Len(u \o v) = Len(u) + Len(v)
      /\ \A i \in 1..Len(u) : (u \o v)[i] = u[i]
      /\ \A i \in 1..Len(v) : (u \o v)[Len(u) + i] = v[i]
  BY IsSeqFacts, Joined
<1>3. ASSUME NEW i \in 1..Len(u \o v) PROVE IsNth((u \o v)[i], kind, n + i)
  <2>1. CASE i <= Len(u)
    <3>1. i \in 1..Len(u)
      BY <1>2, <2>1
    <3> QED BY <1>1, <1>2, <3>1
  <2>2. CASE i > Len(u)
    <3> DEFINE j == i - Len(u)
    <3>1. j \in 1..Len(v) /\ i = Len(u) + j /\ n + i = SentBy(c, kind) + j
      BY <1>1, <1>2, <2>2
    <3> HIDE DEF j
    <3> QED BY <1>2, <3>1
  <2> QED BY <1>2, <2>1, <2>2
<1>4. n \in 0..SentBy(d, kind) /\ Len(u \o v) = SentBy(d, kind) - n
  BY <1>1, <1>2
<1> QED BY <1>1, <1>3, <1>4

(* Of In12, what its messages need.                                          *)
Between12(c, kind, n) ==
    /\ Waiting(c) /\ c.tls12 /\ ~c.recvOn /\ c.state = "WaitCertificate" /\ ~c.sendOn
    /\ c.sendSeq = 0 /\ c.ems = (kind = "ServerHello12Ems")
    /\ c.transcript = UpTo(Seen12(kind), n)

LEMMA In12Means ==
  ASSUME NEW c, NEW kind, NEW n \in 2..4
  PROVE  In12(c, kind, n) <=> Between12(c, kind, n)
<1>1. ~(n = 1) /\ n < 5
  OBVIOUS
<1> QED BY <1>1, Zenon DEF In12, Between12

Greeted12(c, kind) ==
    [c EXCEPT !.transcript = UpTo(Seen12(kind), 2), !.tls12 = TRUE,
              !.ems = (kind = "ServerHello12Ems"), !.state = "WaitCertificate"]
Noted12(c, m) == [Note(c, m) EXCEPT !.tls12 = TRUE, !.ems = (m.type = "ServerHello12Ems"),
                                    !.state = "WaitCertificate"]

LEMMA Greets12 ==
  ASSUME NEW c, NEW m, NEW kind, m.type = kind,
         Append(c.transcript, m.type) = UpTo(Seen12(kind), 2)
  PROVE  Noted12(c, m) = Greeted12(c, kind)
<1>1. Note(c, m) = [c EXCEPT !.transcript = UpTo(Seen12(kind), 2)]
  BY Noted
<1> QED BY <1>1 DEF Noted12, Greeted12

LEMMA ServerHello12Handled ==
  ASSUME NEW c, IsClient(c), Greeting(c), NEW kind \in Kinds12,
         NEW d, d = HandleMessage(FALSE, c, Flight12(kind)[1])
  PROVE  Quiet(c, d) /\ In12(d, kind, 2)
<1>1. Flight12(kind)[1].type = kind
  BY DEF Flight12, Msg
<1>2. Waiting(c) /\ ~c.recvOn /\ ~c.sendOn /\ c.sendSeq = 0 /\ c.state # "Failed"
  BY DEF Greeting
<1>3. c.transcript = UpTo(Seen13, 1)
  BY DEF Greeting
<1>4. d = Greeted12(c, kind)
  <2>1. d = Noted12(c, Flight12(kind)[1])
    BY <1>1, <1>2 DEF HandleMessage, HandleHandshake, OnServerHello, Noted12, Kinds12
  <2>2. Append(c.transcript, Flight12(kind)[1].type) = UpTo(Seen12(kind), 2)
    BY <1>1, <1>3, Grows12
  <2> QED BY <1>1, <2>1, <2>2, Greets12, Zenon
<1>5. IsClient(d)
  BY <1>4 DEF IsClient, Greeted12
<1>6. /\ d.hs = c.hs /\ d.half = c.half /\ d.out = c.out /\ d.fail = c.fail
      /\ d.appData = c.appData /\ d.sent = c.sent /\ d.sendSeq = c.sendSeq
      /\ d.state = "WaitCertificate" /\ d.transcript = UpTo(Seen12(kind), 2)
  BY <1>4 DEF IsClient, Greeted12
<1>7. d.sendOn = c.sendOn /\ d.appKeys = c.appKeys /\ d.recvOn = c.recvOn
  BY <1>4 DEF IsClient, Greeted12
<1>8. d.tls12
  BY <1>4 DEF IsClient, Greeted12
<1>9. d.ems = (kind = "ServerHello12Ems")
  BY <1>4 DEF IsClient, Greeted12
<1>10. Waiting(d)
  BY <1>2, <1>6, <1>7, WaitingStays, Zenon
<1>11. Between12(d, kind, 2)
  BY <1>2, <1>6, <1>7, <1>8, <1>9, <1>10, Zenon DEF Between12
<1>12. Quiet(c, d)
  BY <1>5, <1>6, <1>7, Zenon DEF Quiet, Silent
<1>13. 2 \in 2..4
  OBVIOUS
<1> QED BY <1>11, <1>12, <1>13, In12Means, Zenon

LEMMA Advanced12 ==
  ASSUME NEW c, IsClient(c), NEW kind, NEW n, In12(c, kind, n), n \in 2..3,
         NEW k, k = n + 1, NEW d, d = [c EXCEPT !.transcript = UpTo(Seen12(kind), k)]
  PROVE  Quiet(c, d) /\ In12(d, kind, k)
<1>1. d = [c EXCEPT !.transcript = UpTo(Seen12(kind), k), !.state = c.state, !.fail = c.fail]
  BY DEF IsClient
<1>2. Turned(c, d, UpTo(Seen12(kind), k), c.state, c.fail)
  BY <1>1, SilentStep
<1>3. /\ Silent(c, d) /\ d.transcript = UpTo(Seen12(kind), k) /\ d.state = c.state
      /\ d.fail = c.fail /\ d.sendSeq = c.sendSeq
      /\ d.tls12 = c.tls12 /\ d.appKeys = c.appKeys /\ d.recvOn = c.recvOn
      /\ d.sendOn = c.sendOn /\ d.ems = c.ems
  BY <1>2, Zenon DEF Turned
<1>4. n \in 2..4 /\ k \in 2..4
  OBVIOUS
<1>5. Between12(c, kind, n)
  BY <1>4, In12Means, Zenon
<1>6. d.appData = c.appData /\ d.sent = c.sent
  BY <1>3, Zenon DEF Silent
<1>7. Waiting(d)
  BY <1>3, <1>5, <1>6, WaitingStays, Zenon DEF Between12
<1>8. Between12(d, kind, k)
  BY <1>3, <1>5, <1>7, Zenon DEF Between12
<1> QED BY <1>3, <1>4, <1>8, In12Means, Zenon DEF Quiet

LEMMA Certificate12Handled ==
  ASSUME NEW c, IsClient(c), NEW kind \in Kinds12, In12(c, kind, 2),
         NEW d, d = HandleMessage(TRUE, c, Flight12(kind)[2])
  PROVE  Quiet(c, d) /\ In12(d, kind, 3)
<1>1. Flight12(kind)[2].type = "Certificate12"
  BY DEF Flight12, Msg
<1>2. 2 \in 2..3 /\ 2 \in 2..4 /\ 3 = 2 + 1
  OBVIOUS
<1>3. c.transcript = UpTo(Seen12(kind), 2) /\ c.state # "Failed"
  <2>1. Between12(c, kind, 2)
    BY <1>2, In12Means, Zenon
  <2> QED BY <2>1 DEF Between12
<1>4. d = Note(c, Flight12(kind)[2])
  BY <1>1, <1>3 DEF HandleMessage, HandleHandshake12
<1>5. Append(c.transcript, Flight12(kind)[2].type) = UpTo(Seen12(kind), 3)
  BY <1>1, <1>3, Grows12
<1>6. d = [c EXCEPT !.transcript = UpTo(Seen12(kind), 3)]
  BY <1>4, <1>5, Noted
<1> QED BY <1>2, <1>6, Advanced12, Zenon

(* In a 1.2 handshake the certificate is judged with the ServerKeyExchange.  *)
LEMMA ServerKeyExchangeHandled ==
  ASSUME NEW c, IsClient(c), NEW kind \in Kinds12, In12(c, kind, 3), trusted \in BOOLEAN,
         NEW d, d = HandleMessage(TRUE, c, Flight12(kind)[3])
  PROVE  Quiet(c, d) /\ (In12(d, kind, 4) \/ Broken(d))
<1>1. Flight12(kind)[3].type = "ServerKeyExchange"
  BY DEF Flight12, Msg
<1>2. 3 \in 2..3 /\ 3 \in 2..4 /\ 4 = 3 + 1
  OBVIOUS
<1>3. Between12(c, kind, 3)
  BY <1>2, In12Means, Zenon
<1>4. c.transcript = UpTo(Seen12(kind), 3) /\ c.state # "Failed" /\ c.fail = "None"
  BY <1>3 DEF Between12, Waiting
<1>5. d = OnServerKeyExchange12(Note(c, Flight12(kind)[3]), Flight12(kind)[3])
  BY <1>1, <1>4 DEF HandleMessage, HandleHandshake12
<1>6. Append(c.transcript, Flight12(kind)[3].type) = UpTo(Seen12(kind), 4)
  BY <1>1, <1>4, Grows12
<1>7. Note(c, Flight12(kind)[3]) = [c EXCEPT !.transcript = UpTo(Seen12(kind), 4)]
  BY <1>6, Noted
<1>8. CASE trusted
  <2>1. d = Note(c, Flight12(kind)[3])
    BY <1>5, <1>8 DEF OnServerKeyExchange12
  <2>2. d = [c EXCEPT !.transcript = UpTo(Seen12(kind), 4)]
    BY <1>7, <2>1, Zenon
  <2> QED BY <1>2, <2>2, Advanced12, Zenon
<1>9. CASE ~trusted
  <2>1. d = Fail(Note(c, Flight12(kind)[3]), "CertificateRejected")
    BY <1>5, <1>9 DEF OnServerKeyExchange12
  <2>2. d = [c EXCEPT !.transcript = UpTo(Seen12(kind), 4), !.fail = "CertificateRejected",
                      !.state = "Failed"]
    BY <1>4, <1>7, <2>1 DEF IsClient, Fail
  <2>3. Waiting(c) /\ ~c.sendOn
    BY <1>3 DEF Between12
  <2> QED BY <1>9, <2>2, <2>3, RejectedIsBroken
<1> QED BY <1>8, <1>9

(* The Finished of a 1.3 server: the client answers with its own.            *)
Own13 == Msg("ClientFinished", UpTo(Seen13, 6))
Finished13(c) ==
    [c EXCEPT !.transcript = Append(UpTo(Seen13, 6), "ClientFinished"),
              !.out = Append(c.out, Rec("hs", ClientFlightKey, 0, Own13)), !.sendSeq = 1,
              !.sendKey = ClientKey("1.3"), !.recvKey = ServerKey("1.3"),
              !.sendSeq = 0, !.recvSeq = 0, !.appKeys = TRUE, !.state = "Connected"]
Finishes13(c, m) ==
    LET seen == Note(c, m)
        own == Msg("ClientFinished", seen.transcript)
    IN  [InstallApplicationKeys(SealRecord(Note(seen, own), "hs", own), seen.transcript)
           EXCEPT !.state = "Connected"]

LEMMA FinishedIs13 ==
  ASSUME NEW c, NEW m, IsClient(c), Append(c.transcript, m.type) = UpTo(Seen13, 6),
         c.sendOn, c.sendKey = ClientFlightKey, c.sendSeq = 0
  PROVE  Finishes13(c, m) = Finished13(c)
<1>1. Note(c, m) = [c EXCEPT !.transcript = UpTo(Seen13, 6)]
  BY Noted
<1>2. Note(c, m).transcript = UpTo(Seen13, 6)
  BY <1>1 DEF IsClient
<1> DEFINE e == Note(Note(c, m), Own13)
<1>3. e = [c EXCEPT !.transcript = Append(UpTo(Seen13, 6), "ClientFinished")]
  BY <1>1, <1>2 DEF Note, Own13, Msg, IsClient
<1>4. e.sendOn = c.sendOn
  BY <1>3 DEF IsClient
<1>5. e.sendKey = ClientFlightKey /\ e.sendSeq = 0 /\ e.out = c.out
  BY <1>3 DEF IsClient
<1> HIDE DEF e
<1>6. SealRecord(e, "hs", Own13) =
        [e EXCEPT !.out = Append(c.out, Rec("hs", ClientFlightKey, 0, Own13)), !.sendSeq = 1]
  <2>1. e.sendOn
    BY <1>4, Zenon
  <2>2. SealRecord(e, "hs", Own13) =
        [e EXCEPT !.out = Append(@, Rec("hs", e.sendKey, e.sendSeq, Own13)), !.sendSeq = @ + 1]
    BY <2>1, Zenon DEF SealRecord
  <2> QED BY <1>5, <2>2
<1>7. Finishes13(c, m) =
        [InstallApplicationKeys(SealRecord(e, "hs", Own13), UpTo(Seen13, 6)) EXCEPT !.state = "Connected"]
  BY <1>2 DEF Finishes13, e, Own13
<1>8. ClientKey("1.3") = <<"c ap", UpTo(Seen13, 6)>> /\ ServerKey("1.3") = <<"s ap", UpTo(Seen13, 6)>>
  BY DEF ClientKey, ServerKey
<1>9. SealRecord(e, "hs", Own13) =
        [c EXCEPT !.transcript = Append(UpTo(Seen13, 6), "ClientFinished"),
                  !.out = Append(c.out, Rec("hs", ClientFlightKey, 0, Own13)), !.sendSeq = 1]
  BY <1>3, <1>6
<1>10. Finishes13(c, m) =
         [[SealRecord(e, "hs", Own13) EXCEPT
             !.sendKey = <<"c ap", UpTo(Seen13, 6)>>, !.recvKey = <<"s ap", UpTo(Seen13, 6)>>,
             !.sendSeq = 0, !.recvSeq = 0, !.appKeys = TRUE] EXCEPT !.state = "Connected"]
  BY <1>7, Zenon DEF InstallApplicationKeys
<1> QED BY <1>8, <1>9, <1>10 DEF Finished13

(* A single record on its way.                                               *)
LEMMA OneSent ==
  ASSUME NEW c, NEW d, IsSeq(up), IsSeq(c.out), OnItsWay(c, up \o c.out, server),
         NEW r, d.out = Append(c.out, r), NEW kind, kind = Kind(server), NEW n \in Nat,
         SentBy(c, kind) = n, SentBy(d, kind) = n + 1, IsNth(r, kind, n + 1)
  PROVE  OnItsWay(d, up \o d.out, server) /\ IsSeq(d.out)
<1>1. PICK v : v = <<r>> /\ IsSeq(v) /\ Len(v) = 1 /\ v[1] = r
  <2>1. <<r>> \in Seq({r})
    OBVIOUS
  <2>2. IsSeq(<<r>>) /\ Len(<<r>>) = 1 /\ <<r>>[1] = r
    BY <2>1, SeqIs
  <2> QED BY <2>2
<1> DEFINE u == up \o c.out
<1>a. IsSeq(u)
  BY Joined
<1>2. IsSeq(d.out) /\ up \o d.out = u \o v
  <2>1. d.out = c.out \o v /\ IsSeq(d.out)
    BY <1>1, Appended
  <2>2. (up \o c.out) \o v = up \o (c.out \o v)
    <3> DEFINE p == up
               q == c.out
    <3>1. IsSeq(p) /\ IsSeq(q) /\ IsSeq(v)
      BY <1>1
    <3> HIDE DEF p, q
    <3>2. (p \o q) \o v = p \o (q \o v)
      BY <3>1, JoinedThree, SMTT(40)
    <3> QED BY <3>2 DEF p, q
  <2> QED BY <2>1, <2>2
<1>3. OnItsWay(c, u, server)
  OBVIOUS
<1> HIDE DEF u
<1>4. \A i \in 1..Len(v) : IsNth(v[i], kind, SentBy(c, kind) + i)
  BY <1>1
<1>5. SentBy(d, kind) = SentBy(c, kind) + Len(v) /\ SentBy(c, kind) \in Nat
  BY <1>1
<1>6. OnItsWay(d, u \o v, server)
  BY <1>1, <1>a, <1>3, <1>4, <1>5, SentMore
<1> QED BY <1>2, <1>6

LEMMA Finished13Fields ==
  ASSUME NEW c, IsClient(c), NEW d, d = Finished13(c)
  PROVE  /\ d.hs = c.hs /\ d.half = c.half /\ d.fail = c.fail /\ d.appData = c.appData
         /\ d.sendKey = ClientKey("1.3") /\ d.recvKey = ServerKey("1.3") /\ d.state = "Connected"
         /\ d.out = Append(c.out, Rec("hs", ClientFlightKey, 0, Own13))
         /\ d.sendSeq = 0 /\ d.recvSeq = 0 /\ d.sent = c.sent
         /\ d.tls12 = c.tls12 /\ d.sendOn = c.sendOn /\ d.recvOn = c.recvOn /\ d.appKeys
<1>1. /\ d.hs = c.hs /\ d.half = c.half /\ d.fail = c.fail /\ d.appData = c.appData
      /\ d.sendKey = ClientKey("1.3") /\ d.recvKey = ServerKey("1.3") /\ d.state = "Connected"
      /\ d.out = Append(c.out, Rec("hs", ClientFlightKey, 0, Own13))
      /\ d.sendSeq = 0 /\ d.recvSeq = 0 /\ d.sent = c.sent
  BY DEF IsClient, Finished13
<1>2. d.tls12 = c.tls12 /\ d.sendOn = c.sendOn /\ d.recvOn = c.recvOn
  BY DEF IsClient, Finished13
<1>3. d.appKeys
  BY DEF IsClient, Finished13
<1> QED BY <1>1, <1>2, <1>3, Zenon

LEMMA Finished13IsClient ==
  ASSUME NEW c, IsClient(c), NEW d, d = Finished13(c), IsSeq(d.out)
  PROVE  IsClient(d)
BY DEF IsClient, Finished13

LEMMA FinishedHandled ==
  ASSUME NEW c, IsClient(c), IsSeq(up), NEW seq, In13(c, 5, seq), server.version = "1.3",
         OnItsWay(c, up \o c.out, server), NEW d, d = HandleMessage(FALSE, c, Flight13[4])
  PROVE  Handled(c, d) /\ In13(d, 6, 0)
<1>1. Flight13[4].type = "Finished" /\ Flight13[4].th = UpTo(Seen13, 5)
  BY DEF Flight13, Msg
<1>2. c.transcript = UpTo(Seen13, 5) /\ c.state # "Failed" /\ Waiting(c)
      /\ c.sendKey = ClientFlightKey /\ c.sendSeq = 0
  <2>1. 5 \in 2..5
    OBVIOUS
  <2> QED BY <2>1, In13Means, NotFailed, Zenon
<1>3. c.sendOn /\ c.recvOn /\ ~c.tls12
  <2>1. 5 \in 2..5
    OBVIOUS
  <2> QED BY <2>1, In13Means, Zenon
<1>4. d = Finished13(c)
  <2>1. d = Finishes13(c, Flight13[4])
    BY <1>1, <1>2 DEF HandleMessage, HandleHandshake, OnFinished, Finishes13
  <2>2. Append(c.transcript, Flight13[4].type) = UpTo(Seen13, 6)
    BY <1>1, <1>2, Grows13
  <2> QED BY <1>2, <1>3, <2>1, <2>2, FinishedIs13, Zenon
<1>5. /\ d.hs = c.hs /\ d.half = c.half /\ d.fail = c.fail /\ d.appData = c.appData
      /\ d.sendKey = ClientKey("1.3") /\ d.recvKey = ServerKey("1.3") /\ d.state = "Connected"
      /\ d.out = Append(c.out, Rec("hs", ClientFlightKey, 0, Own13))
      /\ d.sendSeq = 0 /\ d.recvSeq = 0
  BY <1>4, Finished13Fields, ZenonT(40)
<1>6. d.tls12 = c.tls12 /\ d.sendOn = c.sendOn /\ d.recvOn = c.recvOn
  BY <1>4, Finished13Fields, Zenon
<1>7. d.appKeys
  BY <1>4, Finished13Fields, Zenon
<1>8. Talking(d, "1.3")
  <2>1. d.sendOn /\ d.recvOn /\ ~d.tls12
    BY <1>3, <1>6, Zenon
  <2>2. d.tls12 = ("1.3" # "1.3")
    <3>1. ~d.tls12 /\ d.tls12 \in BOOLEAN
      BY <2>1, <1>6, Zenon DEF IsClient
    <3> QED BY <3>1
  <2>3. d.fail = "None"
    BY <1>2, <1>5 DEF Waiting
  <2> QED BY <1>5, <1>7, <2>1, <2>2, <2>3, Zenon DEF Talking
<1>9. Kind(server) = "1.3"
  BY DEF Kind
<1>10. SentBy(c, "1.3") = 0 /\ SentBy(d, "1.3") = 0 + 1
  <2>1. ~c.appKeys
    BY <1>2 DEF Waiting
  <2>2. \A e : ~e.appKeys => SentBy(e, "1.3") = 0
    BY DEF SentBy
  <2>3. \A e : e.appKeys /\ e.sendSeq = 0 => SentBy(e, "1.3") = 0 + 1
    BY DEF SentBy
  <2> QED BY <1>5, <1>7, <2>1, <2>2, <2>3, Zenon
<1>11. IsNth(Rec("hs", ClientFlightKey, 0, Own13), "1.3", 0 + 1)
  BY DEF IsNth, Opening, Own13
<1>12. IsSeq(c.out)
  BY DEF IsClient
<1>13. OnItsWay(d, up \o d.out, server) /\ IsSeq(d.out)
  <2>1. 0 \in Nat
    OBVIOUS
  <2> QED BY <1>5, <1>9, <1>10, <1>11, <1>12, <2>1, OneSent, Zenon
<1>14. IsClient(d)
  BY <1>4, <1>13, Finished13IsClient, Zenon
<1>15. In13(d, 6, 0)
  <2>1. ~(6 < 6)
    OBVIOUS
  <2> QED BY <1>5, <1>8, <2>1, Zenon DEF In13
<1>16. d.sent = c.sent
  BY <1>4, Finished13Fields, Zenon
<1>17. Synced(d)
  <2>1. d.sendSeq = 0 /\ d.sent = 0 /\ DataBase(Kind(server)) = 0
    BY <1>2, <1>5, <1>9, <1>16 DEF Waiting, DataBase
  <2>2. 0 = 0 + 0
    OBVIOUS
  <2> QED BY <2>1, <2>2, Zenon DEF Synced
<1> QED BY <1>5, <1>13, <1>14, <1>15, <1>16, <1>17, Zenon DEF Handled

(* The answer of a 1.2 client: three records, of which the last is sealed.   *)
Cke == Msg("ClientKeyExchange", <<>>)
Own12(kind) == Msg("ClientFinished", UpTo(Seen12(kind), 6))
Sent12(kind) == << Rec("hs", Plain, 0, Cke), Ccs, Rec("hs", ClientKey(kind), 0, Own12(kind)) >>
Answers12(c, kind) ==
    [c EXCEPT !.transcript = UpTo(Seen12(kind), 6), !.sendKey = ClientKey(kind),
              !.recvKey = ServerKey(kind), !.out = Append(c.out, Sent12(kind)[1]),
              !.transcript = UpTo(Seen12(kind), 7),
              !.out = Append(Append(c.out, Sent12(kind)[1]), Sent12(kind)[2]),
              !.sendOn = TRUE, !.sendSeq = 0,
              !.out = Append(Append(Append(c.out, Sent12(kind)[1]), Sent12(kind)[2]),
                             Sent12(kind)[3]),
              !.sendSeq = 1, !.state = "WaitFinished"]

LEMMA AnswerIs12 ==
  ASSUME NEW kind \in Kinds12, NEW c, IsClient(c), c.transcript = UpTo(Seen12(kind), 5),
         ~c.sendOn, c.ems = (kind = "ServerHello12Ems")
  PROVE  OnServerHelloDone12(c) = Answers12(c, kind)
<1> DEFINE n == Note(c, Cke)
           k == DeriveTls12Keys(n)
           s == SealRecord(k, "hs", Cke)
           f == Note(s, Own12(kind))
           x == [f EXCEPT !.out = Append(@, Ccs), !.sendOn = TRUE, !.sendSeq = 0]
           y == SealRecord(x, "hs", Own12(kind))
<1>1. n = [c EXCEPT !.transcript = UpTo(Seen12(kind), 6)]
  <2>1. Append(c.transcript, Cke.type) = UpTo(Seen12(kind), 6)
    BY Grows12 DEF Cke, Msg
  <2> QED BY <2>1, Noted
<1>2. n.transcript = UpTo(Seen12(kind), 6)
  BY <1>1 DEF IsClient
<1>3. n.ems = c.ems /\ n.sendOn = c.sendOn
  BY <1>1 DEF IsClient
<1> HIDE DEF n
<1>4. (IF n.ems THEN n.transcript ELSE <<>>) = Secret(kind)
  <2>1. CASE kind = "ServerHello12Ems"
    <3>1. n.ems
      BY <1>3, <2>1
    <3> QED BY <1>2, <2>1, <3>1 DEF Secret
  <2>2. CASE kind # "ServerHello12Ems"
    <3>1. ~n.ems
      BY <1>3, <2>2
    <3> QED BY <2>2, <3>1 DEF Secret
  <2> QED BY <2>1, <2>2
<1>5. k = [n EXCEPT !.sendKey = ClientKey(kind), !.recvKey = ServerKey(kind)]
  <2>1. ClientKey(kind) = <<"c 12", Secret(kind)>> /\ ServerKey(kind) = <<"s 12", Secret(kind)>>
    BY DEF ClientKey, ServerKey, Kinds12
  <2>2. k = [n EXCEPT !.sendKey = <<"c 12", Secret(kind)>>, !.recvKey = <<"s 12", Secret(kind)>>]
    BY <1>4 DEF DeriveTls12Keys
  <2> QED BY <2>1, <2>2
<1>6. k = [c EXCEPT !.transcript = UpTo(Seen12(kind), 6), !.sendKey = ClientKey(kind),
                    !.recvKey = ServerKey(kind)]
  BY <1>1, <1>5
<1> HIDE DEF k
<1>7. k.out = c.out
  BY <1>6 DEF IsClient
<1>8. k.sendOn = c.sendOn
  BY <1>6 DEF IsClient
<1>9. s = [c EXCEPT !.transcript = UpTo(Seen12(kind), 6), !.sendKey = ClientKey(kind),
                    !.recvKey = ServerKey(kind), !.out = Append(c.out, Sent12(kind)[1])]
  <2>1. ~k.sendOn
    BY <1>8, Zenon
  <2>2. s = [k EXCEPT !.out = Append(@, Rec("hs", Plain, 0, Cke))]
    BY <2>1, Zenon DEF SealRecord
  <2>3. s = [k EXCEPT !.out = Append(c.out, Sent12(kind)[1])]
    BY <1>7, <2>2 DEF Sent12
  <2> QED BY <1>6, <2>3
<1>10. s.transcript = UpTo(Seen12(kind), 6)
  BY <1>9 DEF IsClient
<1>11. s.out = Append(c.out, Sent12(kind)[1])
  BY <1>9 DEF IsClient
<1> HIDE DEF s
<1>12. f = [s EXCEPT !.transcript = UpTo(Seen12(kind), 7)]
  <2>1. Append(s.transcript, Own12(kind).type) = UpTo(Seen12(kind), 7)
    BY <1>10, Grows12 DEF Own12, Msg
  <2> QED BY <2>1, Noted
<1>13. f = [c EXCEPT !.transcript = UpTo(Seen12(kind), 6), !.sendKey = ClientKey(kind),
                     !.recvKey = ServerKey(kind), !.out = Append(c.out, Sent12(kind)[1]),
                     !.transcript = UpTo(Seen12(kind), 7)]
  BY <1>9, <1>12
<1>14. f.out = Append(c.out, Sent12(kind)[1])
  BY <1>13 DEF IsClient
<1> HIDE DEF f
<1>15. x = [f EXCEPT !.out = Append(Append(c.out, Sent12(kind)[1]), Sent12(kind)[2]),
                     !.sendOn = TRUE, !.sendSeq = 0]
  BY <1>14 DEF Sent12
<1>16. x = [c EXCEPT !.transcript = UpTo(Seen12(kind), 6), !.sendKey = ClientKey(kind),
                     !.recvKey = ServerKey(kind), !.out = Append(c.out, Sent12(kind)[1]),
                     !.transcript = UpTo(Seen12(kind), 7),
                     !.out = Append(Append(c.out, Sent12(kind)[1]), Sent12(kind)[2]),
                     !.sendOn = TRUE, !.sendSeq = 0]
  BY <1>13, <1>15
<1> HIDE DEF x
<1>17. x.out = Append(Append(c.out, Sent12(kind)[1]), Sent12(kind)[2])
       /\ x.sendKey = ClientKey(kind) /\ x.sendSeq = 0
  BY <1>16 DEF IsClient
<1>18. x.sendOn
  BY <1>16 DEF IsClient
<1>19. y = [x EXCEPT !.out = Append(Append(Append(c.out, Sent12(kind)[1]), Sent12(kind)[2]),
                                    Sent12(kind)[3]), !.sendSeq = 1]
  <2>1. y = [x EXCEPT !.out = Append(@, Rec("hs", x.sendKey, x.sendSeq, Own12(kind))), !.sendSeq = @ + 1]
    BY <1>18, Zenon DEF SealRecord
  <2>2. Rec("hs", x.sendKey, x.sendSeq, Own12(kind)) = Sent12(kind)[3] /\ x.sendSeq + 1 = 1
    BY <1>17 DEF Sent12
  <2> QED BY <1>17, <2>1, <2>2
<1>20. OnServerHelloDone12(c) = [y EXCEPT !.state = "WaitFinished"]
  BY <1>10 DEF OnServerHelloDone12, y, x, f, s, k, n, Cke, Own12, Ccs
<1> QED BY <1>16, <1>19, <1>20 DEF Answers12

LEMMA JoinedMore ==
  ASSUME NEW u, NEW s, NEW v, IsSeq(u), IsSeq(s), IsSeq(v), NEW t, t = s \o v
  PROVE  u \o t = (u \o s) \o v
BY JoinedThree, SMTT(40)

Triple(v, x, y, z) == IsSeq(v) /\ Len(v) = 3 /\ v[1] = x /\ v[2] = y /\ v[3] = z

LEMMA ThreeAppended ==
  ASSUME NEW s, NEW x, NEW y, NEW z, IsSeq(s), NEW v, Triple(v, x, y, z)
  PROVE  Append(Append(Append(s, x), y), z) = s \o v /\ IsSeq(s \o v)
<1>1. IsSeq(v) /\ Len(v) = 3 /\ v[1] = x /\ v[2] = y /\ v[3] = z
  BY DEF Triple
<1> DEFINE a == Append(s, x)
           b == Append(a, y)
           e == Append(b, z)
<1>2. Len(s) \in Nat
  BY IsSeqFacts
<1>3. IsSeq(a) /\ Len(a) = Len(s) + 1 /\ (\A i \in 1..Len(s) : a[i] = s[i]) /\ a[Len(s) + 1] = x
  BY Appended, ZenonT(40)
<1> HIDE DEF a
<1>4. IsSeq(b) /\ Len(b) = Len(a) + 1 /\ (\A i \in 1..Len(a) : b[i] = a[i]) /\ b[Len(a) + 1] = y
  BY <1>3, Appended, ZenonT(40)
<1> HIDE DEF b
<1>5. IsSeq(e) /\ Len(e) = Len(b) + 1 /\ (\A i \in 1..Len(b) : e[i] = b[i]) /\ e[Len(b) + 1] = z
  BY <1>4, Appended, ZenonT(40)
<1> HIDE DEF e
<1>6. /\ IsSeq(s \o v) /\ Len(s \o v) = Len(s) + Len(v)
      /\ \A i \in 1..Len(s) : (s \o v)[i] = s[i]
      /\ \A i \in 1..Len(v) : (s \o v)[Len(s) + i] = v[i]
  <2>1. IsSeq(v)
    BY <1>1
  <2> QED BY <2>1, Joined
<1>7. Len(e) = Len(s) + 3
  BY <1>2, <1>3, <1>4, <1>5
<1>8. ASSUME NEW i \in 1..Len(e) PROVE e[i] = (s \o v)[i]
  <2>1. CASE i \in 1..Len(s)
    <3>1. i \in 1..Len(a) /\ i \in 1..Len(b)
      BY <1>2, <1>3, <1>4, <2>1
    <3> QED BY <1>3, <1>4, <1>5, <1>6, <2>1, <3>1
  <2>2. CASE i = Len(s) + 1
    <3>1. i \in 1..Len(a) /\ i \in 1..Len(b) /\ 1 \in 1..Len(v)
      BY <1>1, <1>2, <1>3, <1>4, <2>2
    <3>2. e[i] = x
      BY <1>3, <1>4, <1>5, <2>2, <3>1
    <3>3. (s \o v)[i] = x
      BY <1>1, <1>6, <2>2, <3>1
    <3> QED BY <3>2, <3>3
  <2>3. CASE i = Len(s) + 2
    <3>1. i = Len(a) + 1 /\ i \in 1..Len(b) /\ 2 \in 1..Len(v)
      BY <1>1, <1>2, <1>3, <1>4, <2>3
    <3>2. e[i] = y
      BY <1>4, <1>5, <3>1
    <3>3. (s \o v)[i] = y
      BY <1>1, <1>6, <2>3, <3>1
    <3> QED BY <3>2, <3>3
  <2>4. CASE i = Len(s) + 3
    <3>1. i = Len(b) + 1 /\ 3 \in 1..Len(v)
      BY <1>1, <1>2, <1>3, <1>4, <2>4
    <3>2. e[i] = z
      BY <1>5, <3>1
    <3>3. (s \o v)[i] = z
      BY <1>1, <1>6, <2>4, <3>1
    <3> QED BY <3>2, <3>3
  <2>5. i \in 1..Len(s) \/ i = Len(s) + 1 \/ i = Len(s) + 2 \/ i = Len(s) + 3
    BY <1>2, <1>7
  <2> QED BY <2>1, <2>2, <2>3, <2>4, <2>5, Zenon
<1>9. e = s \o v
  BY <1>1, <1>5, <1>6, <1>7, <1>8, SameSeq
<1> QED BY <1>6, <1>9 DEF a, b, e

LEMMA Answered12IsClient ==
  ASSUME NEW c, IsClient(c), NEW kind, NEW d, d = Answers12(c, kind), IsSeq(d.out)
  PROVE  IsClient(d)
BY DEF IsClient, Answers12

LEMMA ServerHelloDoneHandled ==
  ASSUME NEW c, IsClient(c), IsSeq(up), NEW kind \in Kinds12, In12(c, kind, 4),
         kind = Kind(server), OnItsWay(c, up \o c.out, server),
         NEW d, d = HandleMessage(TRUE, c, Flight12(kind)[4])
  PROVE  Handled(c, d) /\ In12(d, kind, 5)
<1>1. Flight12(kind)[4].type = "ServerHelloDone"
  BY DEF Flight12, Msg
<1>2. Between12(c, kind, 4)
  <2>1. 4 \in 2..4
    OBVIOUS
  <2> QED BY <2>1, In12Means, Zenon
<1>3. /\ Waiting(c) /\ c.tls12 /\ ~c.recvOn /\ c.state # "Failed" /\ ~c.sendOn
      /\ c.transcript = UpTo(Seen12(kind), 4)
  BY <1>2 DEF Between12
<1>4. c.ems = (kind = "ServerHello12Ems")
  BY <1>2, Zenon DEF Between12
<1> DEFINE n == Note(c, Flight12(kind)[4])
<1>5. n = [c EXCEPT !.transcript = UpTo(Seen12(kind), 5)]
  <2>1. Append(c.transcript, Flight12(kind)[4].type) = UpTo(Seen12(kind), 5)
    BY <1>1, <1>3, Grows12
  <2> QED BY <2>1, Noted
<1>6. d = OnServerHelloDone12(n)
  BY <1>1, <1>3 DEF HandleMessage, HandleHandshake12
<1> HIDE DEF n
<1>7. n = [c EXCEPT !.transcript = UpTo(Seen12(kind), 5), !.state = c.state, !.fail = c.fail]
  BY <1>5 DEF IsClient
<1>8. Turned(c, n, UpTo(Seen12(kind), 5), c.state, c.fail)
  BY <1>7, SilentStep
<1>9. /\ IsClient(n) /\ n.hs = c.hs /\ n.half = c.half /\ n.appData = c.appData /\ n.out = c.out
      /\ n.sent = c.sent /\ n.transcript = UpTo(Seen12(kind), 5) /\ n.fail = c.fail
      /\ n.ems = c.ems /\ n.sendOn = c.sendOn /\ n.tls12 = c.tls12 /\ n.recvOn = c.recvOn
      /\ n.appKeys = c.appKeys
  BY <1>8, Zenon DEF Turned, Silent
<1>10. ~n.sendOn /\ n.ems = (kind = "ServerHello12Ems")
  BY <1>3, <1>4, <1>9, Zenon
<1>11. d = Answers12(n, kind)
  BY <1>6, <1>9, <1>10, AnswerIs12, Zenon
<1> DEFINE v == Sent12(kind)
           out == Append(Append(Append(n.out, v[1]), v[2]), v[3])
<1>12. out = n.out \o v /\ IsSeq(n.out \o v) /\ IsSeq(v) /\ Len(v) = 3
  <2> DEFINE s == n.out
             x == v[1]
             y == v[2]
             z == v[3]
  <2>1. v \in Seq({x, y, z}) /\ Len(v) = 3
    BY DEF Sent12
  <2>2. IsSeq(s)
    BY <1>9 DEF IsClient
  <2>3. v[1] = x /\ v[2] = y /\ v[3] = z
    OBVIOUS
  <2> HIDE DEF v, s, x, y, z
  <2>4. IsSeq(v)
    BY <2>1, SeqIs
  <2>5. Triple(v, x, y, z)
    BY <2>1, <2>3, <2>4 DEF Triple
  <2>6. Append(Append(Append(s, x), y), z) = s \o v /\ IsSeq(s \o v)
    BY <2>2, <2>5, ThreeAppended
  <2> QED BY <2>1, <2>4, <2>6 DEF s, x, y, z
<1>13. /\ d.hs = n.hs /\ d.half = n.half /\ d.appData = n.appData /\ d.fail = n.fail
       /\ d.sent = n.sent /\ d.out = out /\ d.sendSeq = 1 /\ d.state = "WaitFinished"
       /\ d.transcript = UpTo(Seen12(kind), 7)
       /\ d.sendKey = ClientKey(kind) /\ d.recvKey = ServerKey(kind)
  BY <1>9, <1>11, ZenonT(40) DEF IsClient, Answers12
<1>14. d.tls12 = n.tls12 /\ d.recvOn = n.recvOn /\ d.appKeys = n.appKeys
  BY <1>9, <1>11 DEF IsClient, Answers12
<1>15. d.sendOn
  BY <1>9, <1>11 DEF IsClient, Answers12
<1>16. IsClient(d)
  <2>1. IsSeq(out)
    BY <1>12
  <2> HIDE DEF out
  <2>2. IsSeq(d.out)
    BY <1>13, <2>1, Zenon
  <2> QED BY <1>9, <1>11, <2>2, Answered12IsClient, Zenon
<1> HIDE DEF v, out
<1>17. kind # "1.3"
  BY DEF Kinds12
<1>18. SentBy(c, kind) = 0 /\ SentBy(d, kind) = 3
  <2>1. \A e : ~e.sendOn => SentBy(e, kind) = 0
    BY <1>17 DEF SentBy
  <2>2. \A e : e.sendOn /\ e.sendSeq = 1 => SentBy(e, kind) = 3
    BY <1>17 DEF SentBy
  <2> QED BY <1>3, <1>13, <1>15, <2>1, <2>2, Zenon
<1>19. \A i \in 1..Len(v) : IsNth(v[i], kind, SentBy(c, kind) + i)
  <2> SUFFICES ASSUME NEW i \in 1..3 PROVE IsNth(v[i], kind, i)
    BY <1>12, <1>18
  <2>1. ~(i > Opening(kind))
    BY <1>17 DEF Opening
  <2>2. v[i] = << Rec("hs", Plain, 0, Msg("ClientKeyExchange", <<>>)), Ccs,
                  Rec("hs", ClientKey(kind), 0, Msg("ClientFinished", UpTo(Seen12(kind), 6)))>>[i]
    BY DEF v, Sent12, Cke, Own12
  <2> QED BY <1>17, <2>1, <2>2, Zenon DEF IsNth
<1>20. OnItsWay(d, up \o d.out, server)
  <2>1. d.out = c.out \o v
    BY <1>9, <1>12, <1>13
  <2>2. IsSeq(c.out) /\ IsSeq(v)
    BY <1>12 DEF IsClient
  <2>3. up \o d.out = (up \o c.out) \o v
    <3> DEFINE p == up
               q == c.out
               t == d.out
    <3>1. IsSeq(p) /\ IsSeq(q) /\ t = q \o v
      BY <2>1, <2>2
    <3> HIDE DEF p, q, t
    <3>2. p \o t = (p \o q) \o v
      BY <2>2, <3>1, JoinedMore
    <3> QED BY <3>2 DEF p, q, t
  <2> DEFINE u == up \o c.out
  <2>4. IsSeq(u)
    BY <2>2, Joined
  <2>5. OnItsWay(c, u, server)
    OBVIOUS
  <2> HIDE DEF u
  <2>6. SentBy(c, kind) \in Nat /\ SentBy(d, kind) = SentBy(c, kind) + Len(v) /\ IsSeq(v)
    <3>1. 0 \in Nat /\ 3 = 0 + 3
      OBVIOUS
    <3> QED BY <1>12, <1>18, <3>1, Zenon
  <2>7. OnItsWay(d, u \o v, server)
    BY <1>19, <2>4, <2>5, <2>6, SentMore
  <2> QED BY <2>3, <2>7 DEF u
<1>21. Waiting(d)
  <2>1. d.fail = c.fail /\ d.appKeys = c.appKeys /\ d.appData = c.appData /\ d.sent = c.sent
    BY <1>9, <1>13, <1>14, Zenon
  <2> QED BY <1>3, <2>1, WaitingStays, Zenon
<1>22. In12(d, kind, 5)
  <2>1. ~(5 = 1) /\ ~(5 < 5)
    OBVIOUS
  <2>2. d.tls12 /\ ~d.recvOn
    BY <1>3, <1>9, <1>14, Zenon
  <2> QED BY <1>13, <1>15, <1>21, <2>1, <2>2, Zenon DEF In12
<1>23. d.hs = c.hs /\ d.half = c.half /\ d.appData = c.appData /\ d.sent = c.sent
  BY <1>9, <1>13, Zenon
<1>24. Synced(d)
  BY <1>21 DEF Synced, Waiting
<1> QED BY <1>16, <1>20, <1>22, <1>23, <1>24, Zenon DEF Handled

(* The Finished of a 1.2 server ends the handshake.                          *)
Finished12At(c, t) == [c EXCEPT !.transcript = t, !.appKeys = TRUE, !.state = "Connected"]

LEMMA Finished12Handled ==
  ASSUME NEW c, IsClient(c), NEW kind \in Kinds12, NEW seq, Finishing12(c, kind, seq),
         kind = Kind(server), OnItsWay(c, up \o c.out, server),
         NEW d, d = HandleMessage(TRUE, c, Finished12(kind)[1])
  PROVE  Handled(c, d) /\ Talking(d, kind) /\ d.recvSeq = seq
<1>1. Finished12(kind)[1].type = "Finished12" /\ Finished12(kind)[1].th = UpTo(Seen12(kind), 7)
  BY DEF Finished12, Msg
<1>2. /\ Waiting(c) /\ c.tls12 /\ c.recvOn /\ c.sendOn /\ c.state # "Failed" /\ c.fail = "None"
      /\ c.recvSeq = seq /\ c.transcript = UpTo(Seen12(kind), 7)
      /\ c.sendKey = ClientKey(kind) /\ c.recvKey = ServerKey(kind)
  BY DEF Finishing12, Waiting
<1> DEFINE t == Append(UpTo(Seen12(kind), 7), "Finished12")
<1>3. d = Finished12At(c, t)
  <2>1. d = [Note(c, Finished12(kind)[1]) EXCEPT !.appKeys = TRUE, !.state = "Connected"]
    BY <1>1, <1>2 DEF HandleMessage, HandleHandshake12, OnFinished12
  <2>2. Note(c, Finished12(kind)[1]) = [c EXCEPT !.transcript = t]
    BY <1>1, <1>2 DEF Note
  <2> HIDE DEF t
  <2> QED BY <2>1, <2>2 DEF Finished12At
<1> HIDE DEF t
<1>4. IsClient(d)
  BY <1>3 DEF IsClient, Finished12At
<1>5. /\ d.hs = c.hs /\ d.half = c.half /\ d.appData = c.appData /\ d.out = c.out
      /\ d.fail = c.fail /\ d.sendSeq = c.sendSeq /\ d.sent = c.sent /\ d.recvSeq = c.recvSeq
      /\ d.sendKey = c.sendKey /\ d.recvKey = c.recvKey /\ d.state = "Connected"
  BY <1>3 DEF IsClient, Finished12At
<1>6. d.sendOn = c.sendOn /\ d.recvOn = c.recvOn /\ d.tls12 = c.tls12
  BY <1>3 DEF IsClient, Finished12At
<1>7. d.appKeys
  BY <1>3 DEF IsClient, Finished12At
<1>8. Talking(d, kind)
  <2>1. d.sendOn /\ d.recvOn /\ d.tls12
    BY <1>2, <1>6, Zenon
  <2>2. d.tls12 = (kind # "1.3")
    <3>1. kind # "1.3"
      BY DEF Kinds12
    <3>2. d.tls12 \in BOOLEAN
      BY <1>4, Zenon DEF IsClient
    <3> QED BY <2>1, <3>1, <3>2
  <2>3. d.fail = "None" /\ d.sendKey = ClientKey(kind) /\ d.recvKey = ServerKey(kind)
    BY <1>2, <1>5
  <2> QED BY <1>5, <1>7, <2>1, <2>2, <2>3, Zenon DEF Talking
<1>9. OnItsWay(d, up \o d.out, server)
  <2>1. kind # "1.3"
    BY DEF Kinds12
  <2>2. SentBy(d, kind) = SentBy(c, kind) /\ d.out = c.out
    BY <1>5, <1>6, <2>1 DEF SentBy
  <2> QED BY <2>2 DEF OnItsWay
<1>10. Synced(d)
  <2>1. c.sent = 0 /\ c.sendSeq = 1 /\ DataBase(Kind(server)) = 1
    BY DEF Finishing12, Waiting, DataBase, Kinds12
  <2>2. 1 = 0 + 1
    OBVIOUS
  <2>3. d.sendSeq = d.sent + DataBase(Kind(server))
    BY <1>5, <2>1, <2>2, Zenon
  <2> QED BY <2>3, Zenon DEF Synced
<1> QED BY <1>2, <1>4, <1>5, <1>8, <1>9, <1>10, Zenon DEF Handled

LEMMA TicketHandled ==
  ASSUME NEW c, Talking(c, "1.3")
  PROVE  HandleMessage(FALSE, c, Ticket) = c
<1>1. Ticket.type = "NewSessionTicket" /\ c.state # "Failed"
  BY DEF Ticket, Msg, Talking
<1> QED BY <1>1 DEF HandleMessage, HandleHandshake

(* The second message of a 1.2 server in its first record meets the handlers *)
(* of 1.3.                                                                   *)
LEMMA DisturbedHandled ==
  ASSUME NEW c, IsClient(c), NEW kind \in Kinds12, In12(c, kind, 2), server.version = "1.2",
         server.halves > 3, NEW d, d = HandleMessage(FALSE, c, Flight12(kind)[2])
  PROVE  Quiet(c, d) /\ Broken(d)
<1>1. Flight12(kind)[2].type = "Certificate12"
  BY DEF Flight12, Msg
<1>2. Between12(c, kind, 2)
  <2>1. 2 \in 2..4
    OBVIOUS
  <2> QED BY <2>1, In12Means, Zenon
<1>3. /\ ~c.sendOn /\ c.state # "Failed" /\ c.fail = "None" /\ ~c.appKeys /\ c.appData = <<>>
  BY <1>2 DEF Between12, Waiting
<1>4. d = Fail(Note(c, Flight12(kind)[2]), "RecordMalformed")
  BY <1>1, <1>3 DEF HandleMessage, HandleHandshake, OnCertificate
<1> DEFINE t == Append(c.transcript, Flight12(kind)[2].type)
<1>5. Note(c, Flight12(kind)[2]) = [c EXCEPT !.transcript = t]
  BY DEF Note
<1> HIDE DEF t
<1>6. d = [c EXCEPT !.transcript = t, !.fail = "RecordMalformed", !.state = "Failed"]
  BY <1>3, <1>4, <1>5 DEF IsClient, Fail
<1>7. d = [c EXCEPT !.transcript = t, !.state = "Failed", !.fail = "RecordMalformed"]
  BY <1>6 DEF IsClient
<1>8. Turned(c, d, t, "Failed", "RecordMalformed")
  BY <1>7, SilentStep
<1>9. /\ Silent(c, d) /\ d.state = "Failed" /\ d.fail = "RecordMalformed"
      /\ d.appKeys = c.appKeys /\ d.sendOn = c.sendOn
  BY <1>8, Zenon DEF Turned
<1>10. ~d.appKeys /\ d.appData = <<>> /\ ~d.sendOn
  BY <1>3, <1>9, Zenon DEF Silent
<1>11. Broken(d)
  BY <1>9, <1>10, Zenon DEF Broken
<1> QED BY <1>9, <1>11, Zenon DEF Quiet

Setting == ServerOK(server) /\ IsSeq(up) /\ trusted \in BOOLEAN
InFlight == {"hello", "flight", "plain", "fin"}

LEMMA StageFacts ==
  ASSUME Setting, NEW a \in Stages(Kind(server))
  PROVE  /\ a.kind = Kind(server) /\ a.pos \in 0..8 /\ a.seq \in Nat /\ a.data \in Nat
         /\ a.seg \in {"start", "hello", "flight", "plain", "fin", "post", "alerted"}
         /\ a.seg \in {"hello", "flight"} => server.version = "1.3" /\ a.kind = "1.3"
         /\ a.seg \in {"plain", "fin"} => server.version = "1.2" /\ a.kind \in Kinds12
         /\ a.seg = "post" => server.version # ""
         /\ a.seg = "start" => server.version = "" /\ a.kind = ""
         /\ a.seg \notin {"post", "alerted"} => a.data = 0
         /\ a.seg \in {"post", "alerted"} => a.pos = 0
<1>1. /\ server.version \in {"", "1.2", "1.3"} /\ (server.version = "1.2" => Kind(server) \in Kinds12)
  BY DEF Setting, ServerOK, IsServer
<1>2. /\ server.version = "" => Kind(server) = ""
      /\ server.version = "1.3" => Kind(server) = "1.3"
  BY DEF Kind
<1>3. a.seg \in Segments(Kind(server)) /\ a.kind = Kind(server) /\ a.pos \in 0..8 /\ a.seq \in Nat
      /\ a.data \in Nat /\ (a.seg \notin {"post", "alerted"} => a.data = 0)
      /\ (a.seg \in {"post", "alerted"} => a.pos = 0)
  BY DEF Stages
<1>4. "ServerHello12" # "" /\ "ServerHello12" # "1.3" /\ "ServerHello12Ems" # "" /\ "ServerHello12Ems" # "1.3"
  OBVIOUS
<1>5. CASE server.version = ""
  <2>1. a.seg \in {"start", "alerted"} /\ a.kind = ""
    BY <1>2, <1>3, <1>5 DEF Segments
  <2> QED BY <1>3, <1>5, <2>1
<1>6. CASE server.version = "1.3"
  <2>1. a.seg \in {"hello", "flight", "post", "alerted"} /\ a.kind = "1.3"
    BY <1>2, <1>3, <1>6 DEF Segments
  <2> QED BY <1>3, <1>6, <2>1
<1>7. CASE server.version = "1.2"
  <2>1. a.seg \in {"plain", "fin", "post", "alerted"} /\ a.kind \in Kinds12
    BY <1>1, <1>3, <1>4, <1>7 DEF Segments, Kinds12
  <2> QED BY <1>3, <1>7, <2>1
<1> QED BY <1>1, <1>5, <1>6, <1>7

LEMMA MessagesAre ==
  ASSUME NEW a
  PROVE  /\ a.seg = "hello" => Messages(a) = Hello13 /\ Len(Messages(a)) = 1
         /\ a.seg = "flight" => Messages(a) = Flight13 /\ Len(Messages(a)) = 4
         /\ a.seg = "plain" => Messages(a) = Flight12(a.kind) /\ Len(Messages(a)) = 4
         /\ a.seg = "fin" => Messages(a) = Finished12(a.kind) /\ Len(Messages(a)) = 1
         /\ a.seg \notin InFlight => Messages(a) = <<>> /\ Len(Messages(a)) = 0
         /\ IsSeq(Messages(a))
<1>1. CASE a.seg = "hello"
  <2>1. Messages(a) = Hello13
    BY <1>1 DEF Messages
  <2>2. Hello13 \in Seq({Hello13[1]}) /\ Len(Hello13) = 1
    BY DEF Hello13
  <2> QED BY <1>1, <2>1, <2>2, SeqIs DEF InFlight
<1>2. CASE a.seg = "flight"
  <2>1. Messages(a) = Flight13
    BY <1>2 DEF Messages
  <2>2. Flight13 \in Seq({Flight13[1], Flight13[2], Flight13[3], Flight13[4]}) /\ Len(Flight13) = 4
    BY DEF Flight13
  <2> QED BY <1>2, <2>1, <2>2, SeqIs DEF InFlight
<1>3. CASE a.seg = "plain"
  <2> DEFINE f == Flight12(a.kind)
  <2>1. Messages(a) = f
    BY <1>3 DEF Messages
  <2>2. f \in Seq({f[1], f[2], f[3], f[4]}) /\ Len(f) = 4
    BY DEF Flight12
  <2> HIDE DEF f
  <2>3. IsSeq(f)
    BY <2>2, SeqIs
  <2> QED BY <1>3, <2>1, <2>2, <2>3 DEF InFlight, f
<1>4. CASE a.seg = "fin"
  <2> DEFINE f == Finished12(a.kind)
  <2>1. Messages(a) = f
    BY <1>4 DEF Messages
  <2>2. f \in Seq({f[1]}) /\ Len(f) = 1
    BY DEF Finished12
  <2> HIDE DEF f
  <2>3. IsSeq(f)
    BY <2>2, SeqIs
  <2> QED BY <1>4, <2>1, <2>2, <2>3 DEF InFlight, f
<1>5. CASE a.seg \notin InFlight
  <2>1. Messages(a) = <<>> /\ a.seg \notin {"hello", "flight", "plain", "fin"}
    BY <1>5 DEF Messages, InFlight
  <2> DEFINE e == <<>>
  <2>3. IsSeq(e) /\ Len(e) = 0
    <3>1. e \in Seq({})
      OBVIOUS
    <3> QED BY <3>1, SeqIs
  <2>4. Messages(a) = e
    BY <2>1
  <2> HIDE DEF e
  <2>2. IsSeq(Messages(a)) /\ Len(Messages(a)) = 0
    BY <2>3, <2>4
  <2> QED BY <1>5, <2>1, <2>2 DEF InFlight
<1> QED BY <1>1, <1>2, <1>3, <1>4, <1>5 DEF InFlight

(* Where the client is after n messages of a segment.                        *)
Along(c, a, n, seq) ==
    CASE a.seg = "hello" -> IF n = 0 THEN Greeting(c) ELSE In13(c, 2, 0)
      [] a.seg = "flight" -> In13(c, 2 + n, seq)
      [] a.seg = "plain" -> In12(c, a.kind, 1 + n)
      [] a.seg = "fin" -> IF n = 0 THEN Finishing12(c, a.kind, seq)
                          ELSE Talking(c, a.kind) /\ c.recvSeq = seq

(* In the middle of a record that began after m messages.                    *)
Going(c, a, m, n, seq) ==
    \/ Broken(c)
    \/ Along(c, a, n, seq) /\ (a.seg = "plain" /\ m = 0 => n < 2)

(* The handlers of 1.2 are asked once the record before has negotiated it.   *)
Asks12(a, m) == a.seg = "fin" \/ (a.seg = "plain" /\ m > 0)

LEMMA AlongIs ==
  ASSUME NEW c, NEW a, NEW n, NEW seq
  PROVE  /\ a.seg = "hello" => (Along(c, a, n, seq) <=> IF n = 0 THEN Greeting(c) ELSE In13(c, 2, 0))
         /\ a.seg = "flight" => (Along(c, a, n, seq) <=> In13(c, 2 + n, seq))
         /\ a.seg = "plain" => (Along(c, a, n, seq) <=> In12(c, a.kind, 1 + n))
         /\ a.seg = "fin" => (Along(c, a, n, seq) <=>
                                IF n = 0 THEN Finishing12(c, a.kind, seq)
                                ELSE Talking(c, a.kind) /\ c.recvSeq = seq)
BY DEF Along

LEMMA BrokenStays ==
  ASSUME NEW c, Broken(c), NEW f, NEW m
  PROVE  HandleMessage(f, c, m) = c
BY DEF Broken, HandleMessage

LEMMA NothingHandled ==
  ASSUME NEW c, IsClient(c), OnItsWay(c, up \o c.out, server)
  PROVE  Handled(c, c)
BY DEF Handled

LEMMA QuietIsHandled ==
  ASSUME NEW c, NEW d, OnItsWay(c, up \o c.out, server), Quiet(c, d)
  PROVE  Handled(c, d)
BY SilentIsHandled, Zenon DEF Quiet

LEMMA FlightStep ==
  ASSUME Setting, server.version = "1.3", NEW seq, NEW n \in 0..3,
         NEW c, IsClient(c), OnItsWay(c, up \o c.out, server), In13(c, 2 + n, seq),
         NEW d, d = HandleMessage(FALSE, c, Flight13[n + 1])
  PROVE  Handled(c, d) /\ (Broken(d) \/ In13(d, 2 + (n + 1), seq))
<1>1. CASE n = 0
  <2>1. In13(c, 2, seq) /\ d = HandleMessage(FALSE, c, Flight13[1]) /\ 2 + (n + 1) = 3
    BY <1>1
  <2>2. Quiet(c, d) /\ In13(d, 3, seq)
    BY <2>1, EncryptedExtensionsHandled, Zenon
  <2> QED BY <2>1, <2>2, QuietIsHandled, Zenon
<1>2. CASE n = 1
  <2>1. In13(c, 3, seq) /\ d = HandleMessage(FALSE, c, Flight13[2]) /\ 2 + (n + 1) = 4
    BY <1>2
  <2>2. Quiet(c, d) /\ In13(d, 4, seq)
    BY <2>1, CertificateHandled, Zenon
  <2> QED BY <2>1, <2>2, QuietIsHandled, Zenon
<1>3. CASE n = 2
  <2>1. In13(c, 4, seq) /\ d = HandleMessage(FALSE, c, Flight13[3]) /\ 2 + (n + 1) = 5
    BY <1>3
  <2>2. Quiet(c, d) /\ (In13(d, 5, seq) \/ Broken(d))
    BY <2>1, CertificateVerifyHandled, Zenon DEF Setting
  <2> QED BY <2>1, <2>2, QuietIsHandled, Zenon
<1>4. CASE n = 3
  <2>1. In13(c, 5, seq) /\ d = HandleMessage(FALSE, c, Flight13[4]) /\ 2 + (n + 1) = 6
    BY <1>4
  <2>2. Handled(c, d) /\ In13(d, 6, 0)
    BY <2>1, FinishedHandled, Zenon DEF Setting
  <2>3. \A e : In13(e, 6, 0) => In13(e, 6, seq)
    BY DEF In13
  <2> QED BY <2>1, <2>2, <2>3, Zenon
<1>5. n = 0 \/ n = 1 \/ n = 2 \/ n = 3
  OBVIOUS
<1> QED BY <1>1, <1>2, <1>3, <1>4, <1>5, Zenon

LEMMA PlainStep ==
  ASSUME Setting, server.version = "1.2", NEW kind \in Kinds12, kind = Kind(server),
         NEW m \in Nat, NEW n \in 0..3, m <= n,
         m = 0 /\ n = 1 => server.halves > 3, m = 0 => n < 2,
         NEW c, IsClient(c), OnItsWay(c, up \o c.out, server), In12(c, kind, 1 + n),
         NEW f, m = 0 => f = FALSE, m # 0 => f = TRUE,
         NEW d, d = HandleMessage(f, c, Flight12(kind)[n + 1])
  PROVE  Handled(c, d) /\ (Broken(d) \/ (In12(d, kind, 1 + (n + 1)) /\ (m = 0 => n + 1 < 2)))
<1>b. /\ n = 0 => In12(c, kind, 1) /\ d = HandleMessage(f, c, Flight12(kind)[1])
      /\ n = 1 => In12(c, kind, 2) /\ d = HandleMessage(f, c, Flight12(kind)[2])
      /\ n = 2 => In12(c, kind, 3) /\ d = HandleMessage(f, c, Flight12(kind)[3])
      /\ n = 3 => In12(c, kind, 4) /\ d = HandleMessage(f, c, Flight12(kind)[4])
  OBVIOUS
<1>1. CASE n = 0
  <2>1. In12(c, kind, 1) /\ m = 0 /\ 1 + (n + 1) = 2 /\ n + 1 < 2
    BY <1>b, <1>1
  <2>2. d = HandleMessage(FALSE, c, Flight12(kind)[1])
    BY <1>b, <1>1, <2>1, Zenon
  <2>3. Greeting(c)
    BY <2>1, Zenon DEF In12
  <2>4. Quiet(c, d) /\ In12(d, kind, 2)
    BY <2>2, <2>3, ServerHello12Handled, Zenon
  <2> QED BY <2>1, <2>4, QuietIsHandled, Zenon
<1>2. CASE n = 1 /\ m = 0
  <2>1. In12(c, kind, 2) /\ server.halves > 3
    BY <1>b, <1>2
  <2>2. d = HandleMessage(FALSE, c, Flight12(kind)[2])
    BY <1>b, <1>2, Zenon
  <2>3. Quiet(c, d) /\ Broken(d)
    BY <2>1, <2>2, DisturbedHandled, Zenon
  <2> QED BY <2>3, QuietIsHandled, Zenon
<1>3. CASE n = 1 /\ m # 0
  <2>1. In12(c, kind, 2) /\ 1 + (n + 1) = 3
    BY <1>b, <1>3
  <2>2. d = HandleMessage(TRUE, c, Flight12(kind)[2])
    BY <1>b, <1>3, Zenon
  <2>3. Quiet(c, d) /\ In12(d, kind, 3)
    BY <2>1, <2>2, Certificate12Handled, Zenon
  <2> QED BY <1>3, <2>1, <2>3, QuietIsHandled, Zenon
<1>4. CASE n = 2
  <2>1. In12(c, kind, 3) /\ 1 + (n + 1) = 4 /\ m # 0
    BY <1>b, <1>4
  <2>2. d = HandleMessage(TRUE, c, Flight12(kind)[3])
    BY <1>b, <1>4, <2>1, Zenon
  <2>3. Quiet(c, d) /\ (In12(d, kind, 4) \/ Broken(d))
    BY <2>1, <2>2, ServerKeyExchangeHandled, Zenon DEF Setting
  <2> QED BY <2>1, <2>3, QuietIsHandled, Zenon
<1>5. CASE n = 3
  <2>1. In12(c, kind, 4) /\ 1 + (n + 1) = 5 /\ m # 0
    BY <1>b, <1>5
  <2>2. d = HandleMessage(TRUE, c, Flight12(kind)[4])
    BY <1>b, <1>5, <2>1, Zenon
  <2>4. Handled(c, d) /\ In12(d, kind, 5)
    BY <2>1, <2>2, ServerHelloDoneHandled, Zenon DEF Setting
  <2> QED BY <2>1, <2>4, Zenon
<1>6. n = 0 \/ (n = 1 /\ m = 0) \/ (n = 1 /\ m # 0) \/ n = 2 \/ n = 3
  OBVIOUS
<1> QED BY <1>1, <1>2, <1>3, <1>4, <1>5, <1>6, Zenon

LEMMA AlongStep ==
  ASSUME Setting, NEW a \in Stages(Kind(server)), a.seg \in InFlight, NEW seq,
         NEW m \in Nat, NEW n \in Nat, m <= n, n < Len(Messages(a)),
         a.seg = "plain" /\ m = 0 /\ n = 1 => server.halves > 3,
         NEW c, IsClient(c), OnItsWay(c, up \o c.out, server), Along(c, a, n, seq),
         a.seg = "plain" /\ m = 0 => n < 2,
         NEW f \in BOOLEAN, f <=> Asks12(a, m),
         NEW d, d = HandleMessage(f, c, Messages(a)[n + 1])
  PROVE  Handled(c, d) /\ Going(d, a, m, n + 1, seq)
<1>0. a.kind = Kind(server)
  BY StageFacts
<1>1. CASE a.seg = "hello"
  <2>1. n = 0 /\ Messages(a) = Hello13 /\ ~(n + 1 = 0) /\ Messages(a)[n + 1] = Hello13[1]
    BY <1>1, MessagesAre
  <2>a. f = FALSE
    BY <1>1 DEF Asks12
  <2>2. Greeting(c)
    BY <1>1, <2>1, AlongIs, Zenon
  <2>3. d = HandleMessage(FALSE, c, Hello13[1])
    BY <2>1, <2>a, Zenon
  <2>4. Silent(c, d) /\ In13(d, 2, 0)
    BY <2>2, <2>3, ServerHello13Handled, Zenon
  <2>5. Kind(server) = "1.3"
    BY <1>0, <1>1, StageFacts
  <2>6. Handled(c, d)
    BY <2>4, <2>5, SilentIsHandled, Zenon
  <2>7. Along(d, a, n + 1, seq)
    BY <1>1, <2>1, <2>4, AlongIs, Zenon
  <2>8. a.seg # "plain"
    BY <1>1
  <2> QED BY <2>6, <2>7, <2>8, Zenon DEF Going
<1>2. CASE a.seg = "flight"
  <2>1. Messages(a) = Flight13 /\ Len(Messages(a)) = 4
    BY <1>2, MessagesAre, Zenon
  <2>a. server.version = "1.3"
    BY <1>2, StageFacts
  <2>b. n \in 0..3
    <3> QED BY <2>1
  <2>2. In13(c, 2 + n, seq)
    BY <1>2, AlongIs, Zenon
  <2>c. f = FALSE
    BY <1>2 DEF Asks12
  <2>3. d = HandleMessage(FALSE, c, Flight13[n + 1])
    BY <2>1, <2>c, Zenon
  <2>4. Handled(c, d) /\ (Broken(d) \/ In13(d, 2 + (n + 1), seq))
    BY <2>a, <2>b, <2>2, <2>3, FlightStep, Zenon
  <2>5. Broken(d) \/ Along(d, a, n + 1, seq)
    BY <1>2, <2>4, AlongIs, Zenon
  <2>6. a.seg # "plain"
    BY <1>2
  <2> QED BY <2>4, <2>5, <2>6, Zenon DEF Going
<1>3. CASE a.seg = "plain"
  <2>1. Messages(a) = Flight12(a.kind) /\ Len(Messages(a)) = 4
    BY <1>3, MessagesAre, Zenon
  <2>a. server.version = "1.2" /\ a.kind \in Kinds12
    BY <1>3, StageFacts
  <2>b. n \in 0..3
    <3> QED BY <2>1
  <2>2. In12(c, a.kind, 1 + n)
    BY <1>3, AlongIs, Zenon
  <2>3. d = HandleMessage(f, c, Flight12(a.kind)[n + 1])
    BY <2>1, Zenon
  <2>c. m > 0 <=> m # 0
    OBVIOUS
  <2>d. (m = 0 => f = FALSE) /\ (m # 0 => f = TRUE)
    BY <1>3, <2>c DEF Asks12
  <2>e. (m = 0 /\ n = 1 => server.halves > 3) /\ (m = 0 => n < 2)
    BY <1>3, Zenon
  <2>4. Handled(c, d) /\ (Broken(d) \/ (In12(d, a.kind, 1 + (n + 1)) /\ (m = 0 => n + 1 < 2)))
    BY <1>0, <2>a, <2>b, <2>2, <2>3, <2>d, <2>e, PlainStep, Zenon
  <2>5. Broken(d) \/ (Along(d, a, n + 1, seq) /\ (m = 0 => n + 1 < 2))
    BY <1>3, <2>4, AlongIs, Zenon
  <2> QED BY <2>4, <2>5, Zenon DEF Going
<1>4. CASE a.seg = "fin"
  <2>1. n = 0 /\ Messages(a) = Finished12(a.kind) /\ ~(n + 1 = 0)
        /\ Messages(a)[n + 1] = Finished12(a.kind)[1]
    BY <1>4, MessagesAre
  <2>b. a.kind \in Kinds12
    BY <1>4, StageFacts
  <2>2. Finishing12(c, a.kind, seq)
    BY <1>4, <2>1, AlongIs, Zenon
  <2>a. f = TRUE
    BY <1>4 DEF Asks12
  <2>3. d = HandleMessage(TRUE, c, Finished12(a.kind)[1])
    BY <2>1, <2>a, Zenon
  <2>4. Handled(c, d) /\ Talking(d, a.kind) /\ d.recvSeq = seq
    <3>1. PICK kind : kind = a.kind
      OBVIOUS
    <3>2. kind \in Kinds12 /\ kind = Kind(server)
      BY <1>0, <2>b, <3>1, Zenon
    <3>3. Finishing12(c, kind, seq) /\ d = HandleMessage(TRUE, c, Finished12(kind)[1])
      BY <2>2, <2>3, <3>1, Zenon
    <3>4. Handled(c, d) /\ Talking(d, kind) /\ d.recvSeq = seq
      BY <3>2, <3>3, Finished12Handled, ZenonT(40)
    <3> QED BY <3>1, <3>4, Zenon
  <2>5. Along(d, a, n + 1, seq)
    BY <1>4, <2>1, <2>4, AlongIs, Zenon
  <2>6. a.seg # "plain"
    BY <1>4
  <2> QED BY <2>4, <2>5, <2>6, Zenon DEF Going
<1> QED BY <1>1, <1>2, <1>3, <1>4 DEF InFlight

LEMMA HandledOn ==
  ASSUME NEW c, NEW x, NEW d, Handled(c, x), Handled(x, d)
  PROVE  Handled(c, d)
BY Zenon DEF Handled

(* The messages that one record completes.                                   *)
LEMMA AlongLoop ==
  ASSUME Setting, NEW a \in Stages(Kind(server)), a.seg \in InFlight, NEW seq,
         NEW m \in Nat, NEW k \in Nat, m + k <= Len(Messages(a)),
         a.seg = "plain" /\ m = 0 /\ k >= 2 => server.halves > 3,
         NEW c, IsClient(c), OnItsWay(c, up \o c.out, server), Along(c, a, m, seq),
         c.tls12 <=> Asks12(a, m),
         NEW msgs, msgs = [i \in 1..k |-> Messages(a)[m + i]],
         NEW d, d = HandleMessages(c, msgs)
  PROVE  Handled(c, d) /\ Going(d, a, m, m + k, seq)
<1>1. Len(msgs) = k /\ \A i \in 1..k : msgs[i] = Messages(a)[m + i]
  OBVIOUS
<1>2. PICK after :
        /\ after[0] = c
        /\ \A i \in 1..k : after[i] = HandleMessage(c.tls12, after[i - 1], msgs[i])
        /\ d = after[k]
  <2>1. Len(msgs) \in Nat /\ Len(msgs) = k
    BY <1>1
  <2>2. MessagesRun(c, msgs)
    BY <2>1, MessagesLoop, Zenon
  <2> QED BY <2>1, <2>2, Zenon DEF MessagesRun
<1> DEFINE Good(i) == Handled(c, after[i]) /\ Going(after[i], a, m, m + i, seq)
           S == {i \in Nat : i <= k => Good(i)}
<1>3. c.tls12 \in BOOLEAN
  BY DEF IsClient
<1>4. 0 \in S
  <2>1. Handled(c, c)
    BY NothingHandled, Zenon
  <2>2. a.seg = "plain" /\ m = 0 => m < 2
    OBVIOUS
  <2>3. Going(c, a, m, m, seq)
    BY <2>2, Zenon DEF Going
  <2>4. after[0] = c /\ m + 0 = m /\ 0 \in Nat
    BY <1>2
  <2> QED BY <2>1, <2>3, <2>4, Zenon
<1>5. ASSUME NEW i \in Nat, i \in S PROVE i + 1 \in S
  <2> SUFFICES ASSUME i + 1 <= k PROVE Good(i + 1)
    OBVIOUS
  <2>1. i <= k /\ i + 1 \in 1..k /\ (i + 1) - 1 = i
    OBVIOUS
  <2>2. Good(i)
    BY <1>5, <2>1
  <2> DEFINE x == after[i]
             y == after[i + 1]
             n == m + i
  <2>3. y = HandleMessage(c.tls12, x, Messages(a)[m + (i + 1)])
    BY <1>1, <1>2, <2>1
  <2>4. n \in Nat /\ m <= n /\ n < Len(Messages(a)) /\ m + (i + 1) = n + 1 /\ (m = 0 /\ n = 1 => k >= 2)
    <3>1. Len(Messages(a)) \in Nat
      BY MessagesAre, IsSeqFacts
    <3> QED BY <2>1, <3>1
  <2> HIDE DEF x, y, n
  <2>5. y = HandleMessage(c.tls12, x, Messages(a)[n + 1])
    BY <2>3, <2>4, Zenon
  <2>6. Handled(c, x) /\ Going(x, a, m, n, seq)
    BY <2>2, Zenon DEF x, n
  <2>7. IsClient(x) /\ OnItsWay(x, up \o x.out, server)
    BY <2>6, Zenon DEF Handled
  <2>8. Handled(x, y) /\ Going(y, a, m, n + 1, seq)
    <3>1. CASE Broken(x)
      <4>1. y = x
        BY <2>5, <3>1, BrokenStays, Zenon
      <4>2. Handled(x, y)
        BY <2>7, <4>1, NothingHandled, Zenon
      <4> QED BY <3>1, <4>1, <4>2, Zenon DEF Going
    <3>2. CASE ~Broken(x)
      <4>1. Along(x, a, n, seq) /\ (a.seg = "plain" /\ m = 0 => n < 2)
        BY <2>6, <3>2, Zenon DEF Going
      <4>2. a.seg = "plain" /\ m = 0 /\ n = 1 => server.halves > 3
        BY <2>4, Zenon
      <4> QED BY <1>3, <2>4, <2>5, <2>7, <4>1, <4>2, AlongStep, Zenon
    <3> QED BY <3>1, <3>2, Zenon
  <2>9. Handled(c, y)
    BY <2>6, <2>8, HandledOn, Zenon
  <2> QED BY <2>4, <2>8, <2>9, Zenon DEF y
<1>6. k \in S
  <2> HIDE DEF S
  <2> QED BY <1>4, <1>5, NatSet
<1> QED BY <1>2, <1>6

-----------------------------------------------------------------------------
(* The records.                                                              *)

(* The client x is c but for the record layer and the half message it holds. *)
Opened(c, x, s, h) ==
    /\ IsClient(x)
    /\ x.state = c.state /\ x.fail = c.fail /\ x.transcript = c.transcript /\ x.half = c.half
    /\ x.sendKey = c.sendKey /\ x.recvKey = c.recvKey /\ x.sendSeq = c.sendSeq
    /\ x.appData = c.appData /\ x.sent = c.sent /\ x.out = c.out
    /\ x.recvSeq = s /\ x.hs = h
    /\ x.tls12 = c.tls12 /\ x.sendOn = c.sendOn /\ x.recvOn = c.recvOn
    /\ x.appKeys = c.appKeys /\ x.ems = c.ems

Open(c, s, h) == [c EXCEPT !.recvSeq = s, !.hs = h]

LEMMA OpenIs ==
  ASSUME NEW c, IsClient(c), NEW s, NEW h, NEW x, x = Open(c, s, h)
  PROVE  Opened(c, x, s, h)
<1>1. IsClient(x)
  BY DEF IsClient, Open
<1>2. /\ x.state = c.state /\ x.fail = c.fail /\ x.transcript = c.transcript /\ x.half = c.half
      /\ x.sendKey = c.sendKey /\ x.recvKey = c.recvKey /\ x.sendSeq = c.sendSeq
      /\ x.appData = c.appData /\ x.sent = c.sent /\ x.out = c.out
      /\ x.recvSeq = s /\ x.hs = h
  BY DEF IsClient, Open
<1>3. /\ x.tls12 = c.tls12 /\ x.sendOn = c.sendOn /\ x.recvOn = c.recvOn
      /\ x.appKeys = c.appKeys /\ x.ems = c.ems
  BY DEF IsClient, Open
<1> QED BY <1>1, <1>2, <1>3, Zenon DEF Opened

(* A handshake record that the client can open.                              *)
CanOpen(c, r, s) ==
    \/ c.recvOn /\ r.key = c.recvKey /\ r.seq = c.recvSeq /\ s = c.recvSeq + 1
    \/ ~c.recvOn /\ r.key = Plain /\ s = c.recvSeq

LEMMA HandshakeOpened ==
  ASSUME NEW c, IsClient(c), c.state # "Failed", NEW r, r.type = "hs", NEW s, CanOpen(c, r, s)
  PROVE  FeedRecord(c, r) = HandleMessages(Open(c, s, Rest(c.hs \o r.body)), Complete(c.hs \o r.body))
<1> DEFINE msgs == Complete(c.hs \o r.body)
           h == Rest(c.hs \o r.body)
<1> USE DEF CanOpen
<1> DEFINE o == [c EXCEPT !.recvSeq = s]
<1>1. o.hs = c.hs
  BY DEF IsClient
<1>2. FeedRecord(c, r) = HandleRecord(o, r)
  <2>1. CASE c.recvOn
    BY <2>1 DEF FeedRecord
  <2>2. CASE ~c.recvOn
    <3>1. o = c
      BY <2>2 DEF IsClient
    <3>2. FeedRecord(c, r) = HandleRecord(c, r)
      BY <2>2 DEF FeedRecord
    <3> QED BY <3>1, <3>2
  <2> QED BY <2>1, <2>2
<1> HIDE DEF o
<1>3. HandleRecord(o, r) = HandleMessages(Reassemble(o, r.body), msgs)
  BY <1>1 DEF HandleRecord
<1>4. Reassemble(o, r.body) = [o EXCEPT !.hs = h]
  BY <1>1 DEF Reassemble
<1>5. [o EXCEPT !.hs = h] = Open(c, s, h)
  BY DEF o, Open, IsClient
<1> QED BY <1>2, <1>3, <1>4, <1>5, Zenon

LEMMA GreetingKept ==
  ASSUME NEW c, NEW x, NEW s, NEW h, Opened(c, x, s, h), Greeting(c)
  PROVE  Greeting(x)
BY Zenon DEF Opened, Greeting, Waiting

LEMMA In13Kept ==
  ASSUME NEW c, NEW x, NEW s, NEW h, Opened(c, x, s, h), NEW n \in 2..5, NEW q, In13(c, n, q)
  PROVE  In13(x, n, s)
<1>1. /\ Waiting(c) /\ ~c.tls12 /\ c.recvOn /\ c.sendOn
      /\ c.state = Expecting13[n] /\ c.transcript = UpTo(Seen13, n)
      /\ c.sendKey = ClientFlightKey /\ c.recvKey = ServerFlightKey
      /\ c.sendSeq = 0
  BY In13Means, Zenon
<1>2. /\ Waiting(x) /\ ~x.tls12 /\ x.recvOn /\ x.sendOn
      /\ x.state = Expecting13[n] /\ x.transcript = UpTo(Seen13, n)
      /\ x.sendKey = ClientFlightKey /\ x.recvKey = ServerFlightKey
      /\ x.sendSeq = 0 /\ x.recvSeq = s
  BY <1>1, Zenon DEF Opened, Waiting
<1> QED BY <1>2, In13Is, Zenon

LEMMA In12Kept ==
  ASSUME NEW c, NEW x, NEW s, NEW h, Opened(c, x, s, h), NEW kind, NEW n, In12(c, kind, n)
  PROVE  In12(x, kind, n)
BY GreetingKept, Zenon DEF Opened, In12, Waiting

LEMMA Finishing12Kept ==
  ASSUME NEW c, NEW x, NEW s, NEW h, Opened(c, x, s, h), NEW kind, NEW q, Finishing12(c, kind, q)
  PROVE  Finishing12(x, kind, s)
BY Zenon DEF Opened, Finishing12, Waiting

(* Before a record of the flight.                                            *)
Before(c, a) ==
    /\ c.state # "Failed" /\ ~c.appKeys
    /\ c.recvOn <=> Sealed(a) = 1
    /\ c.tls12 <=> Asks12(a, a.pos \div 2)
    /\ Sealed(a) = 1 => c.recvKey = SegKey(a) /\ c.recvSeq = a.seq
    /\ Sealed(a) = 0 => SegKey(a) = Plain

LEMMA BeforeIs ==
  ASSUME Setting, NEW a \in Stages(Kind(server)), a.seg \in InFlight,
         a.pos < 2 * Len(Messages(a)), NEW c, IsClient(c), Stands(c, a)
  PROVE  Before(c, a)
<1>0. a.pos \in Nat
  <2>1. a.pos \in 0..8
    BY StageFacts, Zenon
  <2> QED BY <2>1
<1>a. a.pos < 2 * Len(Messages(a))
  OBVIOUS
<1>b. 0 # 1
  OBVIOUS
<1>1. CASE a.seg = "hello"
  <2>1. a.pos < 2
    <3>1. Len(Messages(a)) = 1
      BY <1>1, MessagesAre, Zenon
    <3> QED BY <1>0, <1>a, <3>1
  <2>2. Greeting(c)
    BY <1>1, <2>1 DEF Stands
  <2>3. c.state # "Failed" /\ ~c.appKeys /\ ~c.recvOn /\ ~c.tls12
    BY <2>2 DEF Greeting, Waiting
  <2>4. Sealed(a) = 0 /\ SegKey(a) = Plain /\ ~Asks12(a, a.pos \div 2)
    BY <1>1 DEF Sealed, SegKey, Asks12
  <2> QED BY <1>b, <2>3, <2>4, Zenon DEF Before
<1>2. CASE a.seg = "flight"
  <2>1. a.pos < 8
    <3>1. Len(Messages(a)) = 4
      BY <1>2, MessagesAre, Zenon
    <3> QED BY <1>0, <1>a, <3>1
  <2>2. In13(c, 2 + (a.pos \div 2), a.seq)
    BY <1>2 DEF Stands
  <2>a. 2 + (a.pos \div 2) \in 2..5
    BY <1>0, <2>1
  <2>3. Waiting(c) /\ ~c.tls12 /\ c.recvOn /\ c.state = Expecting13[2 + (a.pos \div 2)]
        /\ c.recvKey = ServerFlightKey /\ c.recvSeq = a.seq
    <3> DEFINE n == 2 + (a.pos \div 2)
               q == a.seq
    <3>1. n \in 2..5 /\ In13(c, n, q)
      BY <2>2, <2>a
    <3> HIDE DEF n, q
    <3>2. /\ Waiting(c) /\ ~c.tls12 /\ c.recvOn /\ c.sendOn
          /\ c.state = Expecting13[n] /\ c.transcript = UpTo(Seen13, n)
          /\ c.sendKey = ClientFlightKey /\ c.recvKey = ServerFlightKey
          /\ c.sendSeq = 0 /\ c.recvSeq = q
      BY <3>1, In13Means, Zenon
    <3> QED BY <3>2, Zenon DEF n, q
  <2>b. c.state # "Failed" /\ ~c.appKeys
    BY <2>a, <2>3, NotFailed, Zenon DEF Waiting
  <2>4. Sealed(a) = 1 /\ SegKey(a) = ServerFlightKey /\ ~Asks12(a, a.pos \div 2)
    BY <1>2 DEF Sealed, SegKey, Asks12
  <2> QED BY <1>b, <2>3, <2>b, <2>4, Zenon DEF Before
<1>3. CASE a.seg = "plain"
  <2>2. In12(c, a.kind, 1 + (a.pos \div 2))
    BY <1>3 DEF Stands
  <2>4. Sealed(a) = 0 /\ SegKey(a) = Plain /\ (Asks12(a, a.pos \div 2) <=> a.pos \div 2 > 0)
    BY <1>3 DEF Sealed, SegKey, Asks12
  <2>5. CASE a.pos \div 2 = 0
    <3>1. Greeting(c)
      BY <2>2, <2>5 DEF In12
    <3>2. c.state # "Failed" /\ ~c.appKeys /\ ~c.recvOn /\ ~c.tls12
      BY <3>1 DEF Greeting, Waiting
    <3>3. ~(a.pos \div 2 > 0)
      BY <2>5
    <3> QED BY <1>b, <2>4, <3>2, <3>3, Zenon DEF Before
  <2>6. CASE a.pos \div 2 # 0
    <3>0. a.pos \div 2 > 0 /\ 1 + (a.pos \div 2) # 1
      BY <1>0, <2>6
    <3>1. Waiting(c) /\ c.tls12 /\ ~c.recvOn /\ c.state \in {"WaitCertificate", "WaitFinished"}
      BY <2>2, <3>0 DEF In12
    <3>2. c.state # "Failed" /\ ~c.appKeys
      BY <3>1 DEF Waiting
    <3> QED BY <1>b, <2>4, <3>0, <3>1, <3>2, Zenon DEF Before
  <2> QED BY <2>5, <2>6
<1>4. CASE a.seg = "fin"
  <2>2. Finishing12(c, a.kind, a.seq)
    BY <1>4 DEF Stands
  <2>3. c.state # "Failed" /\ ~c.appKeys /\ c.recvOn /\ c.tls12 /\ c.recvKey = ServerKey(a.kind)
        /\ c.recvSeq = a.seq
    BY <2>2 DEF Finishing12, Waiting
  <2>4. Sealed(a) = 1 /\ SegKey(a) = ServerKey(a.kind) /\ Asks12(a, a.pos \div 2)
    BY <1>4 DEF Sealed, SegKey, Asks12
  <2> QED BY <1>b, <2>3, <2>4, Zenon DEF Before
<1> QED BY <1>1, <1>2, <1>3, <1>4 DEF InFlight

LEMMA AlongAtFirst ==
  ASSUME Setting, NEW a \in Stages(Kind(server)), a.seg \in InFlight,
         a.pos < 2 * Len(Messages(a)), NEW c, Stands(c, a),
         NEW x, NEW s, NEW h, Opened(c, x, s, h), Sealed(a) = 1 => s = a.seq + Sealed(a)
  PROVE  Along(x, a, a.pos \div 2, a.seq + Sealed(a))
<1>0. a.pos \in Nat
  <2>1. a.pos \in 0..8
    BY StageFacts, Zenon
  <2> QED BY <2>1
<1>a. a.pos < 2 * Len(Messages(a))
  OBVIOUS
<1>b. 0 # 1
  OBVIOUS
<1>1. CASE a.seg = "hello"
  <2>1. a.pos < 2 /\ a.pos \div 2 = 0
    <3>1. Len(Messages(a)) = 1
      BY <1>1, MessagesAre, Zenon
    <3> QED BY <1>0, <1>a, <3>1
  <2>2. Greeting(c)
    BY <1>1, <2>1 DEF Stands
  <2>3. Greeting(x)
    BY <2>2, GreetingKept, Zenon
  <2> QED BY <1>1, <2>1, <2>3, AlongIs, Zenon
<1>2. CASE a.seg = "flight"
  <2>0. Sealed(a) = 1
    BY <1>2 DEF Sealed
  <2>1. a.pos < 8
    <3>1. Len(Messages(a)) = 4
      BY <1>2, MessagesAre, Zenon
    <3> QED BY <1>0, <1>a, <3>1
  <2>2. In13(c, 2 + (a.pos \div 2), a.seq)
    BY <1>2 DEF Stands
  <2>a. 2 + (a.pos \div 2) \in 2..5
    BY <1>0, <2>1
  <2>3. In13(x, 2 + (a.pos \div 2), s)
    BY <2>2, <2>a, In13Kept, Zenon
  <2> QED BY <1>2, <2>0, <2>3, AlongIs, Zenon
<1>3. CASE a.seg = "plain"
  <2>2. In12(c, a.kind, 1 + (a.pos \div 2))
    BY <1>3 DEF Stands
  <2>3. In12(x, a.kind, 1 + (a.pos \div 2))
    BY <2>2, In12Kept, Zenon
  <2> QED BY <1>3, <2>3, AlongIs, Zenon
<1>4. CASE a.seg = "fin"
  <2>0. Sealed(a) = 1
    BY <1>4 DEF Sealed
  <2>1. a.pos < 2
    <3>1. Len(Messages(a)) = 1
      BY <1>4, MessagesAre, Zenon
    <3> QED BY <1>0, <1>a, <3>1
  <2>a. a.pos \div 2 = 0
    BY <1>0, <2>1
  <2>2. Finishing12(c, a.kind, a.seq)
    BY <1>4 DEF Stands
  <2>3. Finishing12(x, a.kind, s)
    BY <2>2, Finishing12Kept, Zenon
  <2> QED BY <1>4, <2>0, <2>a, <2>3, AlongIs, Zenon
<1> QED BY <1>1, <1>2, <1>3, <1>4 DEF InFlight

LEMMA NotPast ==
  ASSUME NEW c, NEW p \in Nat
  PROVE  /\ In13(c, 2 + (p \div 2), 0) /\ p = 8 => Talking(c, "1.3") /\ c.recvSeq = 0
         /\ \A q : In13(c, 2 + (p \div 2), q) /\ p < 8 => ~c.appKeys
<1>1. ASSUME p = 8, NEW q, In13(c, 2 + (p \div 2), q)
      PROVE  Talking(c, "1.3") /\ c.recvSeq = 0
  <2>1. ~(2 + (p \div 2) < 6)
    BY <1>1
  <2> QED BY <1>1, <2>1, Zenon DEF In13
<1>2. ASSUME p < 8, NEW q, In13(c, 2 + (p \div 2), q)
      PROVE  ~c.appKeys
  <2>1. 2 + (p \div 2) < 6
    BY <1>2
  <2> QED BY <1>2, <2>1, Zenon DEF In13, Waiting
<1> QED BY <1>1, <1>2

LEMMA FlightEnds ==
  ASSUME NEW c, NEW q, In13(c, 2 + (8 \div 2), q)
  PROVE  Talking(c, "1.3") /\ c.recvSeq = 0
<1>1. ~(2 + (8 \div 2) < 6)
  OBVIOUS
<1> QED BY <1>1, Zenon DEF In13

(* After a record of the flight: b is where it ends.                         *)
After(d, a, p, b) ==
    /\ Stands(d, b) /\ HeldHalf(b) = Held(Messages(a), p) /\ b.data = 0
    /\ b.seg \in {"hello", "flight", "plain", "fin", "post"}
    /\ d.appKeys => b.seg = "post"

LEMMA HeldAtEnd ==
  ASSUME NEW msgs, NEW p \in {2, 8}
  PROVE  Held(msgs, p) = <<>>
BY DEF Held

Middle(a, p, q, b) ==
    /\ b.seg = a.seg /\ b.kind = a.kind /\ b.pos = p /\ b.seq = q /\ b.data = 0
    /\ HeldHalf(b) = Held(Messages(a), p)

LEMMA AlongHello ==
  ASSUME NEW c, NEW a, NEW n, NEW seq, a.seg = "hello", Along(c, a, n, seq), ~(n = 0)
  PROVE  In13(c, 2, 0)
BY DEF Along

LEMMA AfterMiddle ==
  ASSUME NEW a, NEW p, NEW q, a.seg \in InFlight, NEW b, b = Stage(a.seg, a.kind, p, q, 0)
  PROVE  Middle(a, p, q, b)
<1>1. b.seg = a.seg /\ b.kind = a.kind /\ b.pos = p /\ b.seq = q /\ b.data = 0
  BY DEF Stage
<1>2. Messages(b) = Messages(a)
  BY <1>1 DEF Messages
<1> QED BY <1>1, <1>2 DEF HeldHalf, Held, Middle

LEMMA AfterEnd ==
  ASSUME NEW a, NEW p \in {2, 8}, NEW q, NEW b, b = Stage("post", a.kind, 0, q, 0)
  PROVE  /\ b.seg = "post" /\ b.kind = a.kind /\ b.pos = 0 /\ b.seq = q /\ b.data = 0
         /\ HeldHalf(b) = Held(Messages(a), p)
<1>1. b.seg = "post" /\ b.kind = a.kind /\ b.pos = 0 /\ b.seq = q /\ b.data = 0
  BY DEF Stage
<1>2. HeldHalf(b) = <<>>
  BY <1>1 DEF HeldHalf
<1>3. Held(Messages(a), p) = <<>>
  BY HeldAtEnd
<1> QED BY <1>1, <1>2, <1>3

LEMMA StandsAfter ==
  ASSUME Setting, NEW a \in Stages(Kind(server)), a.seg \in InFlight,
         NEW p \in 1..(2 * Len(Messages(a))),
         NEW d, Along(d, a, p \div 2, a.seq + Sealed(a)), NEW b, b = Reached(a, p)
  PROVE  After(d, a, p, b)
<1>1. CASE a.seg = "hello"
  <2>0. Len(Messages(a)) = 1
    BY <1>1, MessagesAre, Zenon
  <2>1. p \in 1..2
    BY <2>0
  <2> DEFINE q == a.seq + Sealed(a)
  <2>2. b = Stage(a.seg, a.kind, p, q, 0)
    BY <1>1 DEF Reached
  <2> HIDE DEF q
  <2>a. Middle(a, p, q, b)
    BY <2>2, AfterMiddle, Zenon
  <2>3. b.seg = "hello" /\ b.pos = p /\ b.data = 0 /\ HeldHalf(b) = Held(Messages(a), p)
    BY <1>1, <2>a, Zenon DEF Middle
  <2>4. CASE p = 1
    <3>1. p \div 2 = 0 /\ b.pos < 2
      BY <2>3, <2>4
    <3>2. Greeting(d)
      BY <1>1, <3>1, AlongIs, Zenon
    <3>3. Stands(d, b) /\ ~d.appKeys
      BY <2>3, <3>1, <3>2 DEF Stands, Greeting, Waiting
    <3> QED BY <2>3, <3>3 DEF After
  <2>5. CASE p = 2
    <3>1. ~(p \div 2 = 0) /\ ~(b.pos < 2)
      BY <2>3, <2>5
    <3>2. In13(d, 2, 0)
      BY <1>1, <3>1, AlongHello, Zenon
    <3>3. Stands(d, b)
      BY <2>3, <3>1, <3>2 DEF Stands
    <3>4. ~d.appKeys
      <4>1. 2 \in 2..5
        OBVIOUS
      <4> QED BY <3>2, <4>1, In13Means, Zenon DEF Waiting
    <3> QED BY <2>3, <3>3, <3>4 DEF After
  <2> QED BY <2>1, <2>4, <2>5
<1>2. CASE a.seg = "flight"
  <2>0. Len(Messages(a)) = 4
    BY <1>2, MessagesAre, Zenon
  <2>1. p \in 1..8
    BY <2>0
  <2>k. a.kind = "1.3"
    BY <1>2, StageFacts, Zenon
  <2> DEFINE q == a.seq + Sealed(a)
  <2>2. In13(d, 2 + (p \div 2), q)
    BY <1>2, AlongIs, Zenon
  <2>4. CASE p = 8
    <3>1. b = Stage("post", a.kind, 0, 0, 0)
      BY <1>2, <2>4 DEF Reached
    <3>2. b.seg = "post" /\ b.kind = "1.3" /\ b.seq = 0 /\ b.data = 0
          /\ HeldHalf(b) = Held(Messages(a), p)
      BY <2>4, <2>k, <3>1, AfterEnd
    <3>3. Talking(d, "1.3") /\ d.recvSeq = 0
      BY <2>2, <2>4, FlightEnds, Zenon
    <3>4. Stands(d, b)
      BY <3>2, <3>3 DEF Stands
    <3> QED BY <3>2, <3>4 DEF After
  <2>5. CASE p # 8
    <3>0. p < 8 /\ p \in Nat
      BY <2>1, <2>5
    <3>1. b = Stage(a.seg, a.kind, p, q, 0)
      BY <1>2, <2>5 DEF Reached
    <3> HIDE DEF q
    <3>a. Middle(a, p, q, b)
      BY <3>1, AfterMiddle, Zenon
    <3>2. b.seg = "flight" /\ b.pos = p /\ b.seq = q /\ b.data = 0 /\ HeldHalf(b) = Held(Messages(a), p)
      BY <1>2, <3>a, Zenon DEF Middle
    <3>3. Stands(d, b)
      BY <2>2, <3>2 DEF Stands
    <3>4. ~d.appKeys
      BY <2>2, <3>0, NotPast, Zenon
    <3> QED BY <3>2, <3>3, <3>4 DEF After
  <2> QED BY <2>4, <2>5
<1>3. CASE a.seg = "plain"
  <2> DEFINE q == a.seq + Sealed(a)
  <2>2. In12(d, a.kind, 1 + (p \div 2))
    BY <1>3, AlongIs, Zenon
  <2>3. b = Stage(a.seg, a.kind, p, q, 0)
    BY <1>3 DEF Reached
  <2> HIDE DEF q
  <2>4. b.seg = "plain" /\ b.kind = a.kind /\ b.pos = p /\ b.data = 0
        /\ HeldHalf(b) = Held(Messages(a), p)
    <3>a. Middle(a, p, q, b)
      BY <2>3, AfterMiddle, Zenon
    <3> QED BY <1>3, <3>a, Zenon DEF Middle
  <2>5. Stands(d, b)
    BY <2>2, <2>4 DEF Stands
  <2>6. ~d.appKeys
    BY <2>2, Zenon DEF In12, Greeting, Waiting
  <2> QED BY <2>4, <2>5, <2>6 DEF After
<1>4. CASE a.seg = "fin"
  <2>0. Len(Messages(a)) = 1
    BY <1>4, MessagesAre, Zenon
  <2>1. p \in 1..2
    BY <2>0
  <2>s. Sealed(a) = 1
    BY <1>4 DEF Sealed
  <2> DEFINE q == a.seq + Sealed(a)
  <2>4. CASE p = 1
    <3>1. p \div 2 = 0
      BY <2>4
    <3>2. b = Stage(a.seg, a.kind, p, q, 0)
      BY <1>4, <2>4 DEF Reached
    <3>3. Finishing12(d, a.kind, q)
      BY <1>4, <3>1, AlongIs, Zenon
    <3> HIDE DEF q
    <3>4. b.seg = "fin" /\ b.kind = a.kind /\ b.seq = q /\ b.data = 0
          /\ HeldHalf(b) = Held(Messages(a), p)
      <4>a. Middle(a, p, q, b)
        BY <3>2, AfterMiddle, Zenon
      <4> QED BY <1>4, <4>a, Zenon DEF Middle
    <3>5. Stands(d, b) /\ ~d.appKeys
      BY <3>3, <3>4 DEF Stands, Finishing12, Waiting
    <3> QED BY <3>4, <3>5 DEF After
  <2>5. CASE p = 2
    <3>1. p \div 2 # 0
      BY <2>5
    <3>2. b = Stage("post", a.kind, 0, q, 0)
      BY <1>4, <2>5, <2>s DEF Reached
    <3>3. Talking(d, a.kind) /\ d.recvSeq = q
      BY <1>4, <3>1, AlongIs, Zenon
    <3> HIDE DEF q
    <3>4. b.seg = "post" /\ b.kind = a.kind /\ b.seq = q /\ b.data = 0
          /\ HeldHalf(b) = Held(Messages(a), p)
      BY <2>5, <3>2, AfterEnd
    <3>5. Stands(d, b)
      BY <3>3, <3>4 DEF Stands
    <3> QED BY <3>4, <3>5 DEF After
  <2> QED BY <2>1, <2>4, <2>5
<1> QED BY <1>1, <1>2, <1>3, <1>4 DEF InFlight

(* What feeding a record to c leaves, from the stage a to the stage b.       *)
DataAdded(c, d, a, b) ==
    \A z \in Seq(Nat) : z \o c.appData = Numbers(a.data) => z \o d.appData = Numbers(b.data)

Kept(c, d) ==
    /\ IsClient(d) /\ d.half = c.half /\ d.sent = c.sent /\ (Synced(c) => Synced(d))
    /\ OnItsWay(d, up \o d.out, server)
    /\ c.appKeys => d.appKeys /\ d.out = c.out

Fed(c, d, a, b) ==
    /\ Kept(c, d)
    /\ \/ Broken(d)
       \/ /\ ClientAt(d, b) /\ DataAdded(c, d, a, b) /\ d.state # "Fresh"
          /\ d.appKeys => b.seg \in {"post", "alerted"}

LEMMA StandsStarted ==
  ASSUME Setting, NEW b, b.seg \in {"hello", "flight", "plain", "fin", "post", "alerted"},
         b.pos \in 0..8, NEW c, Stands(c, b)
  PROVE  c.state # "Fresh"
<1>1. CASE b.seg = "hello"
  <2>1. Greeting(c) \/ In13(c, 2, 0)
    BY <1>1 DEF Stands
  <2>2. 2 \in 2..5 /\ Expecting13[2] # "Fresh"
    BY DEF Expecting13
  <2>3. In13(c, 2, 0) => c.state = Expecting13[2]
    BY <2>2, In13Means, Zenon
  <2>4. Greeting(c) => c.state # "Fresh"
    BY DEF Greeting
  <2> QED BY <2>1, <2>2, <2>3, <2>4, Zenon
<1>2. CASE b.seg = "flight"
  <2> DEFINE n == 2 + (b.pos \div 2)
             q == b.seq
  <2>1. In13(c, n, q) /\ n \in 2..6
    BY <1>2 DEF Stands
  <2> HIDE DEF n, q
  <2>2. CASE n = 6
    <3>1. ~(n < 6)
      BY <2>2
    <3>2. Talking(c, "1.3")
      BY <2>1, <3>1, Zenon DEF In13
    <3> QED BY <3>2 DEF Talking
  <2>3. CASE n # 6
    <3>1. n \in 2..5
      BY <2>1, <2>3
    <3>2. c.state = Expecting13[n]
      BY <2>1, <3>1, In13Means, Zenon
    <3>3. Expecting13[n] # "Fresh"
      BY <3>1 DEF Expecting13
    <3> QED BY <3>2, <3>3
  <2> QED BY <2>2, <2>3
<1>3. CASE b.seg = "plain"
  <2> DEFINE n == 1 + (b.pos \div 2)
             k == b.kind
  <2>1. In12(c, k, n)
    BY <1>3 DEF Stands
  <2> HIDE DEF n, k
  <2> QED BY <2>1 DEF In12, Greeting
<1>4. CASE b.seg = "fin"
  BY <1>4 DEF Stands, Finishing12
<1>5. CASE b.seg = "post"
  BY <1>5 DEF Stands, Talking
<1>6. CASE b.seg = "alerted"
  BY <1>6 DEF Stands
<1> QED BY <1>1, <1>2, <1>3, <1>4, <1>5, <1>6

ChunkIs(msgs, p, q, all) ==
    /\ Complete(all) = [i \in 1..(q \div 2 - p \div 2) |-> msgs[p \div 2 + i]]
    /\ Rest(all) = Held(msgs, q)

LEMMA ChunkOf ==
  ASSUME NEW msgs, IsSeq(msgs), NEW l, l = Len(msgs), NEW p \in Nat, NEW q \in Nat, p < q, q <= 2 * l,
         NEW all, all = Held(msgs, p) \o SubSeq(MessageHalves(msgs), p + 1, q)
  PROVE  ChunkIs(msgs, p, q, all)
<1>1. l \in Nat
  BY IsSeqFacts
<1>2. p \in 0..(2 * Len(msgs)) /\ q \in p..(2 * Len(msgs))
  BY <1>1
<1> QED BY <1>2, Chunk DEF ChunkIs

(* A record of a flight.                                                     *)
LEMMA PieceFed ==
  ASSUME Setting, NEW a \in Stages(Kind(server)), NEW r, NEW b, b \in Stages(Kind(server)),
         Piece(r, a, b, server.halves),
         NEW c, IsClient(c), OnItsWay(c, up \o c.out, server), ClientAt(c, a),
         NEW d, d = FeedRecord(c, r)
  PROVE  Fed(c, d, a, b)
<1>0. a.seg \in InFlight
  BY DEF Piece, InFlight
<1>1. PICK p \in (a.pos + 1)..(2 * Len(Messages(a))) :
        /\ r = Rec("hs", SegKey(a), a.seq, SubSeq(MessageHalves(Messages(a)), a.pos + 1, p))
        /\ a.seg = "plain" /\ a.pos < 2 /\ p > 3 => server.halves > 3
        /\ b = Reached(a, p)
  BY Zenon DEF Piece
<1> DEFINE all == Messages(a)
           l == Len(all)
           m == a.pos \div 2
           n == p \div 2
           msgs == [i \in 1..(n - m) |-> all[m + i]]
           h == Held(all, p)
           s == IF Sealed(a) = 1 THEN a.seq + 1 ELSE c.recvSeq
           x == Open(c, s, h)
<1>2. l \in Nat /\ IsSeq(all)
  <2>1. IsSeq(all)
    BY MessagesAre, Zenon
  <2> QED BY <2>1, IsSeqFacts
<1>3. a.pos \in 0..8 /\ a.seq \in Nat
  BY StageFacts, Zenon
<1>4. a.pos \in Nat /\ p \in Nat /\ a.pos < p /\ p <= 2 * l /\ p \in 1..(2 * l) /\ a.pos < 2 * l
  <2>1. p \in (a.pos + 1)..(2 * l)
    OBVIOUS
  <2> HIDE DEF l
  <2> QED BY <1>2, <1>3, <2>1
<1>5. Before(c, a)
  BY <1>0, <1>4, BeforeIs, Zenon DEF ClientAt
<1>6. c.hs = Held(all, a.pos)
  BY <1>0 DEF ClientAt, HeldHalf, InFlight, Held
<1>7. r.type = "hs" /\ r.key = SegKey(a) /\ r.seq = a.seq
      /\ r.body = SubSeq(MessageHalves(all), a.pos + 1, p)
  BY <1>1 DEF Rec
<1>8. Complete(c.hs \o r.body) = msgs /\ Rest(c.hs \o r.body) = h
  <2>1. c.hs \o r.body = Held(all, a.pos) \o SubSeq(MessageHalves(all), a.pos + 1, p)
    BY <1>6, <1>7
  <2> DEFINE y == c.hs \o r.body
             u == a.pos
  <2>2. y = Held(all, u) \o SubSeq(MessageHalves(all), u + 1, p) /\ l = Len(all)
    BY <2>1
  <2>3. u \in Nat /\ p \in Nat /\ u < p /\ p <= 2 * l
    BY <1>4
  <2> HIDE DEF all, y, l, u
  <2>4. ChunkIs(all, u, p, y)
    BY <1>2, <2>2, <2>3, ChunkOf
  <2> QED BY <2>4, Zenon DEF y, u, ChunkIs, all
<1>9. d = HandleMessages(x, msgs)
  <2>1. c.state # "Failed"
    BY <1>5, Zenon DEF Before
  <2>2. CanOpen(c, r, s)
    <3>1. CASE Sealed(a) = 1
      <4>1. c.recvOn /\ r.key = c.recvKey /\ r.seq = c.recvSeq
        BY <1>5, <1>7, <3>1, Zenon DEF Before
      <4>2. s = c.recvSeq + 1
        BY <1>7, <3>1, <4>1
      <4> QED BY <4>1, <4>2 DEF CanOpen
    <3>2. CASE Sealed(a) # 1
      <4>1. Sealed(a) = 0
        BY <3>2 DEF Sealed
      <4>2. ~c.recvOn /\ r.key = Plain
        BY <1>5, <1>7, <3>2, <4>1, Zenon DEF Before
      <4> QED BY <3>2, <4>2 DEF CanOpen
    <3> QED BY <3>1, <3>2
  <2> HIDE DEF s, h, msgs
  <2>3. d = HandleMessages(Open(c, s, Rest(c.hs \o r.body)), Complete(c.hs \o r.body))
    BY <1>7, <2>1, <2>2, HandshakeOpened, Zenon
  <2> QED BY <1>8, <2>3, Zenon
<1>10. Opened(c, x, s, h)
  <2> HIDE DEF s, h
  <2> QED BY OpenIs, Zenon
<1>11. Along(x, a, m, a.seq + Sealed(a))
  <2>1. Sealed(a) = 1 => s = a.seq + Sealed(a)
    OBVIOUS
  <2>2. Stands(c, a)
    BY DEF ClientAt
  <2> HIDE DEF s, h, x
  <2> QED BY <1>0, <1>4, <1>10, <2>1, <2>2, AlongAtFirst, Zenon
<1>12. m \in Nat /\ n - m \in Nat /\ m + (n - m) = n /\ n <= l
  <2> HIDE DEF l
  <2> QED BY <1>2, <1>4
<1>13. a.seg = "plain" /\ m = 0 /\ n - m >= 2 => server.halves > 3
  <2>1. m = 0 /\ n - m >= 2 => a.pos < 2 /\ p > 3
    BY <1>4
  <2> QED BY <1>1, <2>1, Zenon
<1> HIDE DEF s, h, x, l, m, n
<1>14. IsClient(x) /\ OnItsWay(x, up \o x.out, server) /\ (x.tls12 <=> Asks12(a, m))
  <2>1. x.out = c.out /\ x.appKeys = c.appKeys /\ x.sendOn = c.sendOn /\ x.sendSeq = c.sendSeq
        /\ x.tls12 = c.tls12 /\ IsClient(x)
    BY <1>10, Zenon DEF Opened
  <2>2. OnItsWay(x, up \o x.out, server)
    BY <2>1, NothingSent, Zenon
  <2> QED BY <1>5, <2>1, <2>2, Zenon DEF Before, m
<1>15. Handled(x, d) /\ Going(d, a, m, n, a.seq + Sealed(a))
  <2> DEFINE k == n - m
             seq == a.seq + Sealed(a)
  <2>1. msgs = [i \in 1..k |-> Messages(a)[m + i]] /\ m + k <= Len(Messages(a)) /\ m + k = n
    BY <1>12 DEF l
  <2>2. k \in Nat /\ (a.seg = "plain" /\ m = 0 /\ k >= 2 => server.halves > 3)
    BY <1>12, <1>13
  <2>3. Along(x, a, m, seq)
    BY <1>11
  <2> HIDE DEF k, seq, msgs
  <2>4. Handled(x, d) /\ Going(d, a, m, m + k, seq)
    BY <1>0, <1>9, <1>12, <1>14, <2>1, <2>2, <2>3, AlongLoop, Zenon
  <2> QED BY <2>1, <2>4, Zenon DEF seq
<1>16. Kept(c, d)
  <2>1. IsClient(d) /\ d.half = c.half /\ d.sent = c.sent /\ OnItsWay(d, up \o d.out, server)
    BY <1>10, <1>15, Zenon DEF Handled, Opened
  <2>2. Synced(c) => Synced(x)
    BY <1>10, Zenon DEF Opened, Synced
  <2>3. Synced(x) => Synced(d)
    BY <1>15, Zenon DEF Handled
  <2> QED BY <1>5, <2>1, <2>2, <2>3, Zenon DEF Kept, Before
<1>17. CASE ~Broken(d)
  <2>1. Along(d, a, n, a.seq + Sealed(a))
    BY <1>15, <1>17, Zenon DEF Going
  <2>2. After(d, a, p, b)
    BY <1>0, <1>1, <1>4, <2>1, StandsAfter, Zenon DEF n, l
  <2>3. d.hs = h /\ d.appData = c.appData
    BY <1>10, <1>15, Zenon DEF Handled, Opened
  <2>4. Stands(d, b) /\ d.hs = HeldHalf(b) /\ b.data = 0 /\ (d.appKeys => b.seg = "post")
        /\ b.seg \in {"hello", "flight", "plain", "fin", "post"}
    BY <2>2, <2>3, Zenon DEF After, h
  <2>5. ClientAt(d, b)
    BY <2>4, Zenon DEF ClientAt
  <2>6. a.data = 0
    BY <1>0, StageFacts DEF InFlight
  <2>7. DataAdded(c, d, a, b)
    BY <2>3, <2>4, <2>6, Zenon DEF DataAdded
  <2>8. d.state # "Fresh"
    <3>1. b.pos \in 0..8
      BY StageFacts, Zenon
    <3>2. b.seg \in {"hello", "flight", "plain", "fin", "post", "alerted"}
      BY <2>4
    <3>3. Stands(d, b)
      BY <2>4, Zenon
    <3> QED BY <3>1, <3>2, <3>3, StandsStarted
  <2>9. d.appKeys => b.seg \in {"post", "alerted"}
    BY <2>4
  <2> QED BY <1>16, <2>5, <2>7, <2>8, <2>9, Zenon DEF Fed
<1> QED BY <1>16, <1>17, Zenon DEF Fed

LEMMA KeptIs ==
  ASSUME NEW c, NEW d, OnItsWay(c, up \o c.out, server), IsClient(d),
         d.half = c.half, d.sent = c.sent, d.out = c.out,
         d.appKeys = c.appKeys, d.sendOn = c.sendOn, d.sendSeq = c.sendSeq
  PROVE  Kept(c, d)
<1>1. OnItsWay(d, up \o d.out, server)
  BY NothingSent, Zenon
<1>2. Synced(c) => Synced(d)
  BY Zenon DEF Synced
<1> QED BY <1>1, <1>2, Zenon DEF Kept

LEMMA EmptyHeld ==
  ASSUME NEW a, a.pos \in {0, 2, 8}
  PROVE  HeldHalf(a) = <<>>
BY DEF HeldHalf

LEMMA NoDataAdded ==
  ASSUME NEW c, NEW d, NEW a, NEW b, d.appData = c.appData, a.data = b.data
  PROVE  DataAdded(c, d, a, b)
BY Zenon DEF DataAdded

(* ChangeCipherSpec between the flights of the server.                       *)
LEMMA ChangeFed13 ==
  ASSUME NEW a, NEW b, a = Stage("hello", "1.3", 2, 0, 0), b = Stage("flight", "1.3", 0, 0, 0),
         NEW c, IsClient(c), OnItsWay(c, up \o c.out, server), ClientAt(c, a),
         NEW d, d = FeedRecord(c, Ccs)
  PROVE  Fed(c, d, a, b)
<1>1. /\ a.seg = "hello" /\ a.pos = 2 /\ a.data = 0 /\ b.seg = "flight" /\ b.pos = 0 /\ b.seq = 0
      /\ b.data = 0
  BY DEF Stage
<1>2. In13(c, 2, 0) /\ c.hs = <<>>
  <2>1. ~(a.pos < 2) /\ HeldHalf(a) = <<>>
    BY <1>1, EmptyHeld
  <2> QED BY <1>1, <2>1 DEF ClientAt, Stands
<1>3. Waiting(c) /\ ~c.tls12 /\ c.state = "WaitEncryptedExtensions"
  <2>1. 2 \in 2..5 /\ Expecting13[2] = "WaitEncryptedExtensions"
    BY DEF Expecting13
  <2>2. Waiting(c) /\ ~c.tls12 /\ c.state = Expecting13[2]
    BY <1>2, <2>1, In13Means, Zenon
  <2> QED BY <2>1, <2>2
<1>4. d = c
  BY <1>3 DEF FeedRecord, Ccs, Rec
<1>5. Kept(c, d)
  BY <1>4, KeptIs, Zenon
<1>6. ClientAt(d, b)
  <2>1. 2 + (b.pos \div 2) = 2 /\ HeldHalf(b) = <<>>
    BY <1>1, EmptyHeld
  <2>2. Stands(d, b)
    BY <1>1, <1>2, <1>4, <2>1 DEF Stands
  <2> QED BY <1>2, <1>4, <2>1, <2>2, Zenon DEF ClientAt
<1>7. DataAdded(c, d, a, b)
  BY <1>1, <1>4, NoDataAdded, Zenon
<1>8. ~d.appKeys /\ d.state # "Fresh"
  BY <1>3, <1>4 DEF Waiting
<1> QED BY <1>5, <1>6, <1>7, <1>8, Zenon DEF Fed

LEMMA ChangeFed12 ==
  ASSUME NEW a, NEW b, NEW kind \in Kinds12,
         a = Stage("plain", kind, 8, 0, 0), b = Stage("fin", kind, 0, 0, 0),
         NEW c, IsClient(c), OnItsWay(c, up \o c.out, server), ClientAt(c, a),
         NEW d, d = FeedRecord(c, Ccs)
  PROVE  Fed(c, d, a, b)
<1>1. /\ a.seg = "plain" /\ a.pos = 8 /\ a.data = 0 /\ a.kind = kind /\ b.seg = "fin" /\ b.pos = 0
      /\ b.seq = 0 /\ b.data = 0 /\ b.kind = kind
  BY DEF Stage
<1>2. In12(c, kind, 5) /\ c.hs = <<>>
  <2>1. 1 + (a.pos \div 2) = 5 /\ HeldHalf(a) = <<>>
    BY <1>1, EmptyHeld
  <2>2. Stands(c, a) /\ c.hs = HeldHalf(a)
    BY <1>1 DEF ClientAt
  <2>3. In12(c, a.kind, 1 + (a.pos \div 2))
    BY <1>1, <2>2 DEF Stands
  <2> QED BY <1>1, <2>1, <2>2, <2>3, Zenon
<1>3. /\ Waiting(c) /\ c.tls12 /\ c.state = "WaitFinished" /\ c.sendOn /\ c.sendSeq = 1
      /\ c.transcript = UpTo(Seen12(kind), 7)
      /\ c.sendKey = ClientKey(kind) /\ c.recvKey = ServerKey(kind)
  <2>1. ~(5 = 1) /\ ~(5 < 5)
    OBVIOUS
  <2> QED BY <1>2, <2>1, Zenon DEF In12
<1>4. d = [c EXCEPT !.recvSeq = 0, !.recvOn = TRUE]
  <2>1. c.state # "Failed" /\ c.tls12
    BY <1>3
  <2> QED BY <2>1 DEF FeedRecord, Ccs, Rec, OnCcs12
<1>5. IsClient(d)
  BY <1>4 DEF IsClient
<1>6. /\ d.half = c.half /\ d.hs = c.hs /\ d.sent = c.sent /\ d.out = c.out /\ d.sendSeq = c.sendSeq
      /\ d.appData = c.appData /\ d.fail = c.fail /\ d.state = c.state
      /\ d.transcript = c.transcript /\ d.sendKey = c.sendKey /\ d.recvKey = c.recvKey
      /\ d.recvSeq = 0
  BY <1>4 DEF IsClient
<1>7. d.appKeys = c.appKeys /\ d.sendOn = c.sendOn /\ d.tls12 = c.tls12
  BY <1>4 DEF IsClient
<1>8. d.recvOn
  BY <1>4 DEF IsClient
<1>9. Kept(c, d)
  BY <1>5, <1>6, <1>7, KeptIs, Zenon
<1>10. Finishing12(d, kind, 0)
  BY <1>3, <1>6, <1>7, <1>8, Zenon DEF Finishing12, Waiting
<1>11. ClientAt(d, b)
  <2>1. HeldHalf(b) = <<>>
    BY <1>1, EmptyHeld
  <2>2. Stands(d, b)
    BY <1>1, <1>10 DEF Stands
  <2> QED BY <1>2, <1>6, <2>1, <2>2, Zenon DEF ClientAt
<1>12. DataAdded(c, d, a, b)
  BY <1>1, <1>6, NoDataAdded, ZenonT(40)
<1>13. ~d.appKeys /\ d.state # "Fresh"
  BY <1>10 DEF Finishing12, Waiting
<1> QED BY <1>9, <1>11, <1>12, <1>13, Zenon DEF Fed

LEMMA NumbersMore ==
  ASSUME NEW n \in Nat
  PROVE  Numbers(n) \o <<n + 1, n + 2>> = Numbers(n + 2)
<1> DEFINE u == Numbers(n)
           v == <<n + 1, n + 2>>
           s == u \o v
           t == Numbers(n + 2)
<1>1. /\ u \in Seq(Nat) /\ Len(u) = n /\ \A i \in 1..n : u[i] = i
      /\ t \in Seq(Nat) /\ Len(t) = n + 2 /\ \A i \in 1..(n + 2) : t[i] = i
  BY DEF Numbers
<1>2. v \in Seq(Nat) /\ Len(v) = 2 /\ v[1] = n + 1 /\ v[2] = n + 2
  OBVIOUS
<1> HIDE DEF u, v, t
<1>a. IsSeq(u) /\ IsSeq(v) /\ IsSeq(t)
  BY <1>1, <1>2, SeqIs
<1>b. /\ IsSeq(s) /\ Len(s) = Len(u) + Len(v) /\ (\A i \in 1..Len(u) : s[i] = u[i])
      /\ (\A i \in 1..Len(v) : s[Len(u) + i] = v[i])
  BY <1>a, Joined
<1> HIDE DEF s
<1>3. /\ IsSeq(s) /\ Len(s) = n + 2 /\ (\A i \in 1..n : s[i] = u[i])
      /\ (\A i \in 1..2 : s[n + i] = v[i])
  BY <1>1, <1>2, <1>b
<1>4. ASSUME NEW i \in 1..(n + 2) PROVE s[i] = t[i]
  <2>1. CASE i \in 1..n
    BY <1>1, <1>3, <2>1
  <2>2. CASE i = n + 1
    <3>1. s[n + 1] = v[1]
      BY <1>3
    <3> QED BY <1>1, <1>2, <2>2, <3>1
  <2>3. CASE i = n + 2
    <3>1. s[n + 2] = v[2]
      BY <1>3
    <3> QED BY <1>1, <1>2, <2>3, <3>1
  <2> QED BY <2>1, <2>2, <2>3
<1>5. s = t
  BY <1>1, <1>3, <1>4, <1>a, SameSeq
<1> QED BY <1>5 DEF s, u, v, t

MoreOf(z, w, v, y) == z \o (w \o v) = y \o v

LEMMA Rejoined ==
  ASSUME NEW z, NEW w, NEW v, IsSeq(z), IsSeq(w), IsSeq(v)
  PROVE  \A y : z \o w = y => MoreOf(z, w, v, y)
<1>1. (z \o w) \o v = z \o (w \o v)
  BY JoinedThree
<1> QED BY <1>1, Zenon DEF MoreOf

LEMMA TwoAdded ==
  ASSUME NEW c, c.appData \in Seq(Nat), NEW n \in Nat,
         NEW d, d.appData = c.appData \o <<n + 1, n + 2>>, NEW a, a.data = n, NEW b, b.data = n + 2
  PROVE  DataAdded(c, d, a, b)
<1> DEFINE v == <<n + 1, n + 2>>
           w == c.appData
<1>1. IsSeq(v) /\ IsSeq(w)
  <2>1. v \in Seq(Nat)
    OBVIOUS
  <2> HIDE DEF v
  <2> QED BY <2>1, SeqIs
<1>2. d.appData = w \o v
  OBVIOUS
<1>3. Numbers(n) \o v = Numbers(n + 2)
  BY NumbersMore
<1> HIDE DEF v, w
<1>4. ASSUME NEW z \in Seq(Nat), z \o w = Numbers(n) PROVE z \o (w \o v) = Numbers(n + 2)
  <2>1. IsSeq(z)
    BY SeqIs
  <2> DEFINE y == Numbers(n)
  <2>2. z \o w = y
    BY <1>4
  <2> HIDE DEF y
  <2>3. MoreOf(z, w, v, y)
    BY <1>1, <2>1, <2>2, Rejoined, Zenon
  <2> QED BY <1>3, <2>3 DEF y, MoreOf
<1> QED BY <1>2, <1>4 DEF DataAdded, w

(* Records after the handshake, and alerts.                                  *)
LEMMA Unsealed ==
  ASSUME NEW c, IsClient(c), c.state # "Failed", c.recvOn, NEW r, r.type # "ccs",
         r.key = c.recvKey, r.seq = c.recvSeq
  PROVE  FeedRecord(c, r) = HandleRecord(Open(c, c.recvSeq + 1, c.hs), r)
<1>1. [c EXCEPT !.recvSeq = @ + 1] = Open(c, c.recvSeq + 1, c.hs)
  BY DEF IsClient, Open
<1>2. FeedRecord(c, r) = HandleRecord([c EXCEPT !.recvSeq = @ + 1], r)
  BY DEF FeedRecord
<1> QED BY <1>1, <1>2, Zenon

Rested(c, d, y, f, g) ==
    /\ IsClient(d)
    /\ d.state = g /\ d.fail = f /\ d.appData = y
    /\ d.transcript = c.transcript /\ d.half = c.half /\ d.hs = c.hs
    /\ d.sendKey = c.sendKey /\ d.recvKey = c.recvKey /\ d.sendSeq = c.sendSeq
    /\ d.sent = c.sent /\ d.out = c.out /\ d.recvSeq = c.recvSeq
    /\ d.tls12 = c.tls12 /\ d.sendOn = c.sendOn /\ d.recvOn = c.recvOn
    /\ d.appKeys = c.appKeys

LEMMA RestedIs ==
  ASSUME NEW c, IsClient(c), NEW y \in Seq(Nat), NEW z, NEW f, NEW g,
         NEW d, d = [c EXCEPT !.appData = y, !.peerClosed = z, !.fail = f, !.state = g]
  PROVE  Rested(c, d, y, f, g)
<1>1. IsClient(d)
  BY DEF IsClient
<1>2. /\ d.state = g /\ d.fail = f /\ d.appData = y
      /\ d.transcript = c.transcript /\ d.half = c.half /\ d.hs = c.hs
      /\ d.sendKey = c.sendKey /\ d.recvKey = c.recvKey /\ d.sendSeq = c.sendSeq
      /\ d.sent = c.sent /\ d.out = c.out /\ d.recvSeq = c.recvSeq
  BY DEF IsClient
<1>3. /\ d.tls12 = c.tls12 /\ d.sendOn = c.sendOn /\ d.recvOn = c.recvOn
      /\ d.appKeys = c.appKeys
  BY DEF IsClient
<1> QED BY <1>1, <1>2, <1>3, Zenon DEF Rested

(* What Talking needs of two clients.                                        *)
LEMMA TalkingOn ==
  ASSUME NEW c, NEW x, NEW d, NEW s, NEW h, NEW y, NEW kind,
         Talking(c, kind), Opened(c, x, s, h), Rested(x, d, y, "None", "Connected")
  PROVE  Talking(d, kind) /\ d.recvSeq = s /\ d.hs = h /\ d.appData = y
BY Zenon DEF Talking, Opened, Rested

LEMMA KeptOn ==
  ASSUME NEW c, NEW x, NEW d, NEW s, NEW h, NEW y, NEW f, NEW g,
         OnItsWay(c, up \o c.out, server), Opened(c, x, s, h), Rested(x, d, y, f, g)
  PROVE  Kept(c, d)
<1>1. /\ IsClient(d) /\ d.half = c.half /\ d.sent = c.sent /\ d.out = c.out
      /\ d.appKeys = c.appKeys /\ d.sendOn = c.sendOn /\ d.sendSeq = c.sendSeq
  BY Zenon DEF Opened, Rested
<1> QED BY <1>1, KeptIs, Zenon

(* Where a record ends that leaves the client connected.                     *)
LEMMA FedOn ==
  ASSUME NEW a, NEW kind, NEW q, NEW n, NEW b, b = Stage("post", kind, 0, q, n),
         NEW c, NEW d, Kept(c, d), DataAdded(c, d, a, b),
         Talking(d, kind), d.recvSeq = q, d.hs = <<>>
  PROVE  Fed(c, d, a, b)
<1>1. b.seg = "post" /\ b.kind = kind /\ b.pos = 0 /\ b.seq = q
  BY DEF Stage
<1>2. HeldHalf(b) = <<>>
  BY <1>1, EmptyHeld
<1>3. Stands(d, b)
  BY <1>1 DEF Stands
<1>4. ClientAt(d, b)
  BY <1>2, <1>3, Zenon DEF ClientAt
<1>5. d.state # "Fresh"
  BY DEF Talking
<1>6. b.seg \in {"post", "alerted"}
  BY <1>1
<1> QED BY <1>4, <1>5, <1>6, Zenon DEF Fed

LEMMA AppFed ==
  ASSUME NEW a, NEW kind, NEW q, NEW n \in Nat, a.data = n,
         NEW b, b = Stage("post", kind, 0, q + 1, n + 2),
         NEW c, IsClient(c), OnItsWay(c, up \o c.out, server), Talking(c, kind), c.recvSeq = q,
         c.hs = <<>>, NEW r, r = Rec("app", ServerKey(kind), q, <<n + 1, n + 2>>),
         NEW d, d = FeedRecord(c, r)
  PROVE  Fed(c, d, a, b)
<1> DEFINE s == q + 1
           x == Open(c, s, c.hs)
           y == c.appData \o <<n + 1, n + 2>>
<1>1. r.type = "app" /\ r.key = ServerKey(kind) /\ r.seq = q /\ r.body = <<n + 1, n + 2>>
  BY DEF Rec
<1>2. c.state = "Connected" /\ c.recvOn /\ c.recvKey = ServerKey(kind) /\ c.fail = "None"
  BY DEF Talking
<1>3. d = HandleRecord(x, r)
  <2>1. c.state # "Failed" /\ r.type # "ccs"
    BY <1>1, <1>2
  <2>2. r.key = c.recvKey /\ r.seq = c.recvSeq
    BY <1>1, <1>2
  <2>3. FeedRecord(c, r) = HandleRecord(Open(c, c.recvSeq + 1, c.hs), r)
    BY <1>2, <2>1, <2>2, Unsealed, Zenon
  <2> QED BY <2>3, Zenon DEF s
<1>4. Opened(c, x, s, c.hs)
  BY OpenIs, Zenon
<1> HIDE DEF s, x
<1>5. x.appData = c.appData /\ x.fail = "None" /\ x.state = "Connected" /\ IsClient(x)
  BY <1>2, <1>4, Zenon DEF Opened
<1>6. d = [x EXCEPT !.appData = y]
  BY <1>1, <1>3, <1>5 DEF HandleRecord
<1>7. y \in Seq(Nat)
  <2>1. c.appData \in Seq(Nat)
    BY DEF IsClient
  <2> QED BY <2>1
<1>8. Rested(x, d, y, "None", "Connected")
  <2> HIDE DEF y
  <2>1. d = [x EXCEPT !.appData = y, !.peerClosed = x.peerClosed, !.fail = "None", !.state = "Connected"]
    <3>1. ASSUME NEW e, e = [x EXCEPT !.appData = y]
          PROVE  e = [x EXCEPT !.appData = y, !.peerClosed = x.peerClosed, !.fail = "None",
                               !.state = "Connected"]
      BY <1>5, <3>1 DEF IsClient
    <3> QED BY <1>6, <3>1, Zenon
  <2> QED BY <1>5, <1>7, <2>1, RestedIs
<1>9. Kept(c, d)
  BY <1>4, <1>8, KeptOn, Zenon
<1>10. Talking(d, kind) /\ d.recvSeq = s /\ d.hs = c.hs /\ d.appData = y
  <2> HIDE DEF y
  <2> QED BY <1>4, <1>8, TalkingOn, ZenonT(40)
<1>11. DataAdded(c, d, a, b)
  <2>1. b.data = n + 2
    BY DEF Stage
  <2>2. c.appData \in Seq(Nat)
    BY DEF IsClient
  <2>3. d.appData = c.appData \o <<n + 1, n + 2>>
    BY <1>10
  <2> QED BY <2>1, <2>2, <2>3, TwoAdded
<1> QED BY <1>9, <1>10, <1>11, FedOn, Zenon DEF s

LEMMA CloseFed ==
  ASSUME NEW a, NEW kind, NEW q, a.data \in Nat,
         NEW b, b = Stage("post", kind, 0, q + 1, a.data),
         NEW c, IsClient(c), OnItsWay(c, up \o c.out, server), Talking(c, kind), c.recvSeq = q,
         c.hs = <<>>, NEW r, r = Rec("alert", ServerKey(kind), q, "close_notify"),
         NEW d, d = FeedRecord(c, r)
  PROVE  Fed(c, d, a, b)
<1> DEFINE s == q + 1
           x == Open(c, s, c.hs)
           y == c.appData
<1>1. r.type = "alert" /\ r.key = ServerKey(kind) /\ r.seq = q /\ r.body = "close_notify"
  BY DEF Rec
<1>2. c.state = "Connected" /\ c.recvOn /\ c.recvKey = ServerKey(kind) /\ c.fail = "None"
  BY DEF Talking
<1>3. d = HandleRecord(x, r)
  <2>1. c.state # "Failed" /\ r.type # "ccs"
    BY <1>1, <1>2
  <2>2. r.key = c.recvKey /\ r.seq = c.recvSeq
    BY <1>1, <1>2
  <2>3. FeedRecord(c, r) = HandleRecord(Open(c, c.recvSeq + 1, c.hs), r)
    BY <1>2, <2>1, <2>2, Unsealed, Zenon
  <2> QED BY <2>3, Zenon DEF s
<1>4. Opened(c, x, s, c.hs)
  BY OpenIs, Zenon
<1> HIDE DEF s, x
<1>5. x.appData = c.appData /\ x.fail = "None" /\ x.state = "Connected" /\ IsClient(x)
  BY <1>2, <1>4, Zenon DEF Opened
<1>6. d = [x EXCEPT !.peerClosed = TRUE]
  BY <1>1, <1>3 DEF HandleRecord, OnAlert
<1>7. y \in Seq(Nat)
  BY DEF IsClient
<1>8. Rested(x, d, y, "None", "Connected")
  <2>1. x.appData = y
    BY <1>5
  <2> HIDE DEF y
  <2>2. d = [x EXCEPT !.appData = y, !.peerClosed = TRUE, !.fail = "None", !.state = "Connected"]
    <3>1. ASSUME NEW e, e = [x EXCEPT !.peerClosed = TRUE]
          PROVE  e = [x EXCEPT !.appData = y, !.peerClosed = TRUE, !.fail = "None",
                               !.state = "Connected"]
      BY <1>5, <2>1, <3>1 DEF IsClient
    <3> QED BY <1>6, <3>1, Zenon
  <2> QED BY <1>5, <1>7, <2>2, RestedIs
<1>9. Kept(c, d)
  BY <1>4, <1>8, KeptOn, Zenon
<1>10. Talking(d, kind) /\ d.recvSeq = s /\ d.hs = c.hs /\ d.appData = c.appData
  BY <1>4, <1>8, TalkingOn, Zenon
<1>11. DataAdded(c, d, a, b)
  <2>1. b.data = a.data
    BY DEF Stage
  <2> QED BY <1>10, <2>1, NoDataAdded, Zenon
<1> QED BY <1>9, <1>10, <1>11, FedOn, Zenon DEF s

LEMMA FatalFed ==
  ASSUME NEW a, NEW kind, NEW q, a.data \in Nat,
         NEW b, b = Stage("alerted", kind, 0, 0, a.data),
         NEW c, IsClient(c), OnItsWay(c, up \o c.out, server), Talking(c, kind), c.recvSeq = q,
         NEW r, r = Rec("alert", ServerKey(kind), q, "fatal"),
         NEW d, d = FeedRecord(c, r)
  PROVE  Fed(c, d, a, b)
<1> DEFINE s == q + 1
           x == Open(c, s, c.hs)
           y == c.appData
<1>1. r.type = "alert" /\ r.key = ServerKey(kind) /\ r.seq = q /\ r.body = "fatal"
  BY DEF Rec
<1>2. c.state = "Connected" /\ c.recvOn /\ c.recvKey = ServerKey(kind) /\ c.fail = "None"
  BY DEF Talking
<1>3. d = HandleRecord(x, r)
  <2>1. c.state # "Failed" /\ r.type # "ccs"
    BY <1>1, <1>2
  <2>2. r.key = c.recvKey /\ r.seq = c.recvSeq
    BY <1>1, <1>2
  <2>3. FeedRecord(c, r) = HandleRecord(Open(c, c.recvSeq + 1, c.hs), r)
    BY <1>2, <2>1, <2>2, Unsealed, Zenon
  <2> QED BY <2>3, Zenon DEF s
<1>4. Opened(c, x, s, c.hs)
  BY OpenIs, Zenon
<1> HIDE DEF s, x
<1>5. x.appData = c.appData /\ x.fail = "None" /\ IsClient(x)
  BY <1>2, <1>4, Zenon DEF Opened
<1>6. d = [x EXCEPT !.fail = "AlertReceived", !.state = "Failed"]
  BY <1>1, <1>3, <1>5 DEF HandleRecord, OnAlert, Fail
<1>7. y \in Seq(Nat)
  BY DEF IsClient
<1>8. Rested(x, d, y, "AlertReceived", "Failed")
  <2>1. x.appData = y
    BY <1>5
  <2> HIDE DEF y
  <2>2. d = [x EXCEPT !.appData = y, !.peerClosed = x.peerClosed, !.fail = "AlertReceived", !.state = "Failed"]
    BY <1>5, <1>6, <2>1 DEF IsClient
  <2> QED BY <1>5, <1>7, <2>2, RestedIs
<1>9. Kept(c, d)
  BY <1>4, <1>8, KeptOn, Zenon
<1>10. d.fail = "AlertReceived" /\ d.state = "Failed" /\ d.appData = c.appData
  BY <1>8, Zenon DEF Rested
<1>11. b.seg = "alerted" /\ b.data = a.data
  BY DEF Stage
<1>12. DataAdded(c, d, a, b)
  BY <1>10, <1>11, NoDataAdded, Zenon
<1>13. ClientAt(d, b) /\ d.state # "Fresh" /\ b.seg \in {"post", "alerted"}
  BY <1>10, <1>11 DEF ClientAt, Stands
<1> QED BY <1>9, <1>12, <1>13, Zenon DEF Fed

LEMMA RefusalFed ==
  ASSUME NEW a, NEW r, NEW b, Refusal(r, a, b), NEW c, IsClient(c), OnItsWay(c, up \o c.out, server),
         Greeting(c), NEW d, d = FeedRecord(c, r)
  PROVE  Fed(c, d, a, b)
<1> DEFINE y == c.appData
<1>1. r.type = "alert" /\ r.key = Plain /\ r.body = "fatal" /\ b.seg = "alerted"
      /\ a.data = 0 /\ b.data = 0
  BY DEF Refusal, Rec, Stage
<1>2. ~c.recvOn /\ c.fail = "None" /\ c.state # "Failed" /\ ~c.appKeys
  BY DEF Greeting, Waiting
<1>3. d = HandleRecord(c, r)
  BY <1>1, <1>2 DEF FeedRecord
<1>6. d = [c EXCEPT !.fail = "AlertReceived", !.state = "Failed"]
  BY <1>1, <1>2, <1>3 DEF HandleRecord, OnAlert, Fail
<1>7. y \in Seq(Nat)
  BY DEF IsClient
<1>8. Rested(c, d, y, "AlertReceived", "Failed")
  <2>1. c.appData = y
    OBVIOUS
  <2> HIDE DEF y
  <2>2. d = [c EXCEPT !.appData = y, !.peerClosed = c.peerClosed, !.fail = "AlertReceived", !.state = "Failed"]
    BY <1>6, <2>1 DEF IsClient
  <2> QED BY <1>7, <2>2, RestedIs
<1>9. Kept(c, d)
  <2>1. /\ IsClient(d) /\ d.half = c.half /\ d.sent = c.sent /\ d.out = c.out
        /\ d.appKeys = c.appKeys /\ d.sendOn = c.sendOn /\ d.sendSeq = c.sendSeq
    BY <1>8, Zenon DEF Rested
  <2> QED BY <2>1, KeptIs, Zenon
<1>10. d.fail = "AlertReceived" /\ d.state = "Failed" /\ d.appData = c.appData
  BY <1>8, Zenon DEF Rested
<1>12. DataAdded(c, d, a, b)
  BY <1>1, <1>10, NoDataAdded, Zenon
<1>13. ClientAt(d, b) /\ d.state # "Fresh" /\ b.seg \in {"post", "alerted"}
  BY <1>1, <1>10 DEF ClientAt, Stands
<1> QED BY <1>9, <1>12, <1>13, Zenon DEF Fed

LEMMA TwoHalves ==
  ASSUME NEW t, NEW h, h = <<>>
  PROVE  Complete(h \o <<t, t>>) = <<t>> /\ Rest(h \o <<t, t>>) = <<>>
<1> DEFINE v == <<t, t>>
<1>1. h \o v = v
  <2>1. v \in Seq({t})
    OBVIOUS
  <2>2. IsSeq(v)
    BY <2>1, SeqIs
  <2> HIDE DEF v
  <2> QED BY <2>2, JoinedEmpty
<1>2. Len(v) = 2 /\ v[2] = t
  OBVIOUS
<1>3. Ready(v) = 1
  BY <1>2 DEF Ready
<1>4. Complete(v) = [i \in 1..1 |-> v[2 * i]]
  BY <1>3 DEF Complete
<1>5. [i \in 1..1 |-> v[2 * i]] = <<t>>
  <2> DEFINE w == [i \in 1..1 |-> v[2 * i]]
  <2>1. w = [i \in 1..1 |-> t]
    BY <1>2
  <2> QED BY <2>1
<1>6. Rest(v) = <<>>
  <2>1. Rest(v) = SubSeq(v, 3, 2)
    BY <1>2, <1>3 DEF Rest
  <2> HIDE DEF v
  <2> QED BY <2>1, SubSeqEmpty
<1> QED BY <1>1, <1>4, <1>5, <1>6

LEMMA OneHandled ==
  ASSUME NEW c, NEW t
  PROVE  HandleMessages(c, <<t>>) = HandleMessage(c.tls12, c, t)
<1> DEFINE v == <<t>>
<1>1. Len(v) = 1 /\ v[1] = t
  OBVIOUS
<1> HIDE DEF v
<1>2. MessagesRun(c, v)
  <2>1. Len(v) \in Nat
    BY <1>1
  <2> QED BY <2>1, MessagesLoop, Zenon
<1>3. PICK after : /\ after[0] = c
                   /\ \A i \in 1..Len(v) : after[i] = HandleMessage(c.tls12, after[i - 1], v[i])
                   /\ HandleMessages(c, v) = after[Len(v)]
  BY <1>2, Zenon DEF MessagesRun
<1>4. after[1] = HandleMessage(c.tls12, after[1 - 1], v[1])
  BY <1>1, <1>3
<1>5. 1 - 1 = 0
  OBVIOUS
<1> QED BY <1>1, <1>3, <1>4, <1>5, Zenon DEF v

LEMMA TicketFed ==
  ASSUME NEW a, NEW q, a.data \in Nat, NEW b, b = Stage("post", "1.3", 0, q + 1, a.data),
         NEW c, IsClient(c), OnItsWay(c, up \o c.out, server), Talking(c, "1.3"), c.recvSeq = q,
         c.hs = <<>>, NEW r, r = Rec("hs", ServerKey("1.3"), q, <<Ticket, Ticket>>),
         NEW d, d = FeedRecord(c, r)
  PROVE  Fed(c, d, a, b)
<1> DEFINE s == q + 1
           h == <<>>
           x == Open(c, s, h)
<1>1. r.type = "hs" /\ r.key = ServerKey("1.3") /\ r.seq = q /\ r.body = <<Ticket, Ticket>>
  BY DEF Rec
<1>2. c.state = "Connected" /\ c.recvOn /\ c.recvKey = ServerKey("1.3") /\ ~c.tls12
  BY DEF Talking
<1>3. d = HandleMessages(x, <<Ticket>>)
  <2>1. c.state # "Failed" /\ CanOpen(c, r, s)
    BY <1>1, <1>2 DEF CanOpen
  <2>2. Complete(c.hs \o r.body) = <<Ticket>> /\ Rest(c.hs \o r.body) = h
    BY <1>1, TwoHalves
  <2> HIDE DEF s, h
  <2>3. FeedRecord(c, r) = HandleMessages(Open(c, s, Rest(c.hs \o r.body)), Complete(c.hs \o r.body))
    BY <1>1, <2>1, HandshakeOpened, Zenon
  <2> QED BY <2>2, <2>3, Zenon
<1> HIDE DEF s, h, x
<1>4. Opened(c, x, s, h)
  BY OpenIs, Zenon DEF x
<1>5. Talking(x, "1.3") /\ x.recvSeq = s /\ x.hs = h /\ x.appData = c.appData /\ x.tls12 = c.tls12
      /\ x.tls12 \in BOOLEAN
  BY <1>4, Zenon DEF Opened, Talking, IsClient
<1>6. d = x
  <2>1. d = HandleMessage(x.tls12, x, Ticket)
    BY <1>3, OneHandled, Zenon
  <2>2. x.tls12 = FALSE
    BY <1>2, <1>5
  <2>3. HandleMessage(FALSE, x, Ticket) = x
    BY <1>5, TicketHandled, Zenon
  <2> QED BY <2>1, <2>2, <2>3, Zenon
<1>7. Kept(c, d)
  <2>1. /\ IsClient(d) /\ d.half = c.half /\ d.sent = c.sent /\ d.out = c.out
        /\ d.appKeys = c.appKeys /\ d.sendOn = c.sendOn /\ d.sendSeq = c.sendSeq
    BY <1>4, <1>6, Zenon DEF Opened
  <2> QED BY <2>1, KeptIs, Zenon
<1>8. DataAdded(c, d, a, b)
  <2>1. b.data = a.data
    BY DEF Stage
  <2> QED BY <1>5, <1>6, <2>1, NoDataAdded, Zenon
<1> QED BY <1>5, <1>6, <1>7, <1>8, FedOn, Zenon DEF s, h

LEMMA LaterFed ==
  ASSUME Setting, NEW a \in Stages(Kind(server)), NEW r, NEW b, Later(r, a, b),
         NEW c, IsClient(c), OnItsWay(c, up \o c.out, server), ClientAt(c, a),
         NEW d, d = FeedRecord(c, r)
  PROVE  Fed(c, d, a, b)
<1> DEFINE kind == a.kind
           q == a.seq
           n == a.data
<1>1. a.seg = "post"
  BY DEF Later
<1>2. a.pos = 0 /\ n \in Nat
  BY <1>1, StageFacts
<1>3. Talking(c, kind) /\ c.recvSeq = q
  BY <1>1 DEF ClientAt, Stands
<1>4. c.hs = <<>>
  BY <1>1, <1>2, EmptyHeld DEF ClientAt
<1>6. d = FeedRecord(c, r)
  OBVIOUS
<1>5. \/ /\ r = Rec("app", ServerKey(kind), q, <<n + 1, n + 2>>)
         /\ b = Stage("post", kind, 0, q + 1, n + 2)
      \/ /\ r = Rec("hs", ServerKey(kind), q, <<Ticket, Ticket>>) /\ kind = "1.3"
         /\ b = Stage("post", kind, 0, q + 1, n)
      \/ /\ r = Rec("alert", ServerKey(kind), q, "close_notify")
         /\ b = Stage("post", kind, 0, q + 1, n)
      \/ /\ r = Rec("alert", ServerKey(kind), q, "fatal")
         /\ b = Stage("alerted", kind, 0, 0, n)
  BY Zenon DEF Later
<1>7. a.data = n
  OBVIOUS
<1> HIDE DEF kind, q, n
<1>8. CASE r = Rec("app", ServerKey(kind), q, <<n + 1, n + 2>>) /\ b = Stage("post", kind, 0, q + 1, n + 2)
  BY <1>2, <1>3, <1>4, <1>6, <1>7, <1>8, AppFed
<1>9. CASE r = Rec("hs", ServerKey(kind), q, <<Ticket, Ticket>>) /\ kind = "1.3"
           /\ b = Stage("post", kind, 0, q + 1, n)
  BY <1>2, <1>3, <1>4, <1>6, <1>7, <1>9, TicketFed
<1>10. CASE r = Rec("alert", ServerKey(kind), q, "close_notify") /\ b = Stage("post", kind, 0, q + 1, n)
  BY <1>2, <1>3, <1>4, <1>6, <1>7, <1>10, CloseFed
<1>11. CASE r = Rec("alert", ServerKey(kind), q, "fatal") /\ b = Stage("alerted", kind, 0, 0, n)
  BY <1>2, <1>3, <1>4, <1>6, <1>7, <1>11, FatalFed
<1> QED BY <1>5, <1>8, <1>9, <1>10, <1>11, Zenon

(* Every record of the server's takes a client that is at its stage to the   *)
(* next.                                                                     *)
LEMMA FedStep ==
  ASSUME Setting, NEW a \in Stages(Kind(server)), NEW b \in Stages(Kind(server)), NEW r,
         Takes(r, a, b, server.halves),
         NEW c, IsClient(c), OnItsWay(c, up \o c.out, server), ClientAt(c, a), c.state # "Fresh",
         NEW d, d = FeedRecord(c, r)
  PROVE  Fed(c, d, a, b)
<1>1. CASE Piece(r, a, b, server.halves)
  BY <1>1, PieceFed, Zenon
<1>2. CASE Change(r, a, b)
  <2>1. r = Ccs
    BY <1>2 DEF Change
  <2>2. CASE a = Stage("hello", "1.3", 2, 0, 0) /\ b = Stage("flight", "1.3", 0, 0, 0)
    BY <2>1, <2>2, ChangeFed13, Zenon
  <2>3. CASE a.kind \in Kinds12 /\ a = Stage("plain", a.kind, 8, 0, 0) /\ b = Stage("fin", a.kind, 0, 0, 0)
    <3> DEFINE kind == a.kind
    <3>1. kind \in Kinds12 /\ a = Stage("plain", kind, 8, 0, 0) /\ b = Stage("fin", kind, 0, 0, 0)
      BY <2>3
    <3> HIDE DEF kind
    <3> QED BY <2>1, <3>1, ChangeFed12, Zenon
  <2> QED BY <1>2, <2>2, <2>3, Zenon DEF Change
<1>3. CASE Later(r, a, b)
  BY <1>3, LaterFed, Zenon
<1>4. CASE Refusal(r, a, b)
  <2>1. a.seg = "start"
    BY <1>4 DEF Refusal, Stage
  <2>2. Greeting(c)
    BY <2>1 DEF ClientAt, Stands
  <2> QED BY <1>4, <2>2, RefusalFed, Zenon
<1> QED BY <1>1, <1>2, <1>3, <1>4, Zenon DEF Takes

LEMMA BrokenNotFed ==
  ASSUME NEW c, c.state = "Failed", NEW r
  PROVE  FeedRecord(c, r) = c
BY DEF FeedRecord

LEMMA FedAtOnce ==
  ASSUME NEW c, IsClient(c), OnItsWay(c, up \o c.out, server), NEW a, ClientAt(c, a),
         c.state # "Fresh", c.appKeys => a.seg \in {"post", "alerted"}
  PROVE  Fed(c, c, a, a)
<1>1. Kept(c, c)
  BY KeptIs, Zenon
<1>2. DataAdded(c, c, a, a)
  BY NoDataAdded, Zenon
<1> QED BY <1>1, <1>2, Zenon DEF Fed

LEMMA FedChain ==
  ASSUME NEW c, NEW x, NEW d, NEW a, NEW b, NEW e, Fed(c, x, a, b), ~Broken(x), Fed(x, d, b, e)
  PROVE  Fed(c, d, a, e)
<1>1. Kept(c, d)
  BY Zenon DEF Fed, Kept
<1>2. ~Broken(d) => DataAdded(c, d, a, e)
  BY Zenon DEF Fed, DataAdded
<1> QED BY <1>1, <1>2, Zenon DEF Fed

-----------------------------------------------------------------------------
(* What the wire holds, as it is read and written.                           *)

(* Feeding the first n records on the wire.                                  *)
LEMMA FeedFed ==
  ASSUME Setting, NEW at, Path(at, wire, server), Len(wire) \in Nat, NEW n \in 0..Len(wire),
         NEW c, IsClient(c), OnItsWay(c, up \o c.out, server), ClientAt(c, at[0]), c.state # "Fresh",
         c.appKeys => at[0].seg \in {"post", "alerted"},
         NEW d, d = FeedRecords(c, n)
  PROVE  Fed(c, d, at[0], at[n])
<1>1. \A i \in 0..Len(wire) : at[i] \in Stages(Kind(server))
  BY DEF Path
<1>2. \A i \in 1..Len(wire) : Takes(wire[i], at[i - 1], at[i], server.halves)
  BY DEF Path
<1>3. PICK after : /\ after[0] = c
                   /\ \A i \in 1..n : after[i] = FeedRecord(after[i - 1], wire[i])
                   /\ d = after[n]
  <2>1. RecordsRun(c, n)
    <3>1. n \in Nat
      OBVIOUS
    <3> QED BY <3>1, RecordsLoop, Zenon
  <2> QED BY <2>1, Zenon DEF RecordsRun
<1> DEFINE S == {i \in Nat : i <= n => Fed(c, after[i], at[0], at[i])}
<1>4. 0 \in S
  <2>1. Fed(c, c, at[0], at[0])
    BY FedAtOnce, Zenon
  <2> QED BY <1>3, <2>1
<1>5. ASSUME NEW i \in Nat, i \in S PROVE i + 1 \in S
  <2> SUFFICES ASSUME i + 1 <= n PROVE Fed(c, after[i + 1], at[0], at[i + 1])
    OBVIOUS
  <2> DEFINE x == after[i]
             y == after[i + 1]
             a == at[i]
             b == at[i + 1]
             r == wire[i + 1]
  <2>0. i <= n /\ i + 1 \in 1..n /\ i + 1 \in 1..Len(wire) /\ i + 1 \in 0..Len(wire)
        /\ i \in 0..Len(wire) /\ (i + 1) - 1 = i
    OBVIOUS
  <2>1. Fed(c, x, at[0], a)
    BY <1>5, <2>0
  <2>2. y = FeedRecord(x, r)
    BY <1>3, <2>0
  <2>3. a \in Stages(Kind(server)) /\ b \in Stages(Kind(server)) /\ Takes(r, a, b, server.halves)
    BY <1>1, <1>2, <2>0
  <2> HIDE DEF x, y, a, b, r
  <2>4. CASE Broken(x)
    <3>1. y = x
      <4>1. x.state = "Failed"
        BY <2>4, Zenon DEF Broken
      <4> QED BY <2>2, <4>1, BrokenNotFed, Zenon
    <3>2. Fed(c, y, at[0], b)
      BY <2>1, <2>4, <3>1, Zenon DEF Fed
    <3> QED BY <3>2, Zenon DEF y, b
  <2>5. CASE ~Broken(x)
    <3>1. IsClient(x) /\ OnItsWay(x, up \o x.out, server) /\ ClientAt(x, a) /\ x.state # "Fresh"
      BY <2>1, <2>5, Zenon DEF Fed, Kept
    <3>2. Fed(x, y, a, b)
      BY <2>2, <2>3, <3>1, FedStep, Zenon
    <3>3. Fed(c, y, at[0], b)
      BY <2>1, <2>5, <3>2, FedChain, Zenon
    <3> QED BY <3>3, Zenon DEF y, b
  <2> QED BY <2>4, <2>5, Zenon
<1>6. n \in S
  <2>1. n \in Nat
    OBVIOUS
  <2> HIDE DEF S
  <2> QED BY <1>4, <1>5, <2>1, NatSet
<1>7. Fed(c, after[n], at[0], at[n])
  BY <1>6
<1> QED BY <1>3, <1>7, Zenon

(* A stretch of a path.                                                      *)
Route(at, w, kind, k, most) ==
    /\ at \in [0..Len(w) -> Stages(kind)]
    /\ \A i \in 1..Len(w) : Takes(w[i], at[i - 1], at[i], k)
    /\ \A i \in 0..Len(w) : at[i].data <= most

LEMMA PathIsRoute ==
  ASSUME NEW at, NEW w, NEW s
  PROVE  Path(at, w, s) <=> Route(at, w, Kind(s), s.halves, s.sent) /\ at[Len(w)] = ServerStage(s)
BY DEF Path, Route

RouteFrom(w, kind, k, most, a, b) ==
    \E at : Route(at, w, kind, k, most) /\ at[0] = a /\ at[Len(w)] = b

LEMMA RouteOne ==
  ASSUME NEW kind, NEW k, NEW most, NEW r, NEW a \in Stages(kind), NEW b \in Stages(kind),
         Takes(r, a, b, k), a.data <= most, b.data <= most
  PROVE  RouteFrom(<<r>>, kind, k, most, a, b) /\ IsSeq(<<r>>)
<1> DEFINE w == <<r>>
           at == [i \in 0..1 |-> IF i = 0 THEN a ELSE b]
<1>1. Len(w) = 1 /\ w[1] = r /\ w \in Seq({r})
  OBVIOUS
<1>2. IsSeq(w)
  BY <1>1, SeqIs
<1>3. at[0] = a /\ at[1] = b /\ at \in [0..1 -> Stages(kind)]
  OBVIOUS
<1> HIDE DEF w, at
<1>4. \A i \in 1..1 : Takes(w[i], at[i - 1], at[i], k)
  <2> SUFFICES ASSUME NEW i \in 1..1 PROVE Takes(w[i], at[i - 1], at[i], k)
    OBVIOUS
  <2>1. i = 1 /\ i - 1 = 0
    OBVIOUS
  <2>2. Takes(w[1], at[0], at[1], k)
    BY <1>1, <1>3, Zenon
  <2> QED BY <2>1, <2>2, Zenon
<1>5. \A i \in 0..1 : at[i].data <= most
  <2> SUFFICES ASSUME NEW i \in 0..1 PROVE at[i].data <= most
    OBVIOUS
  <2>1. i = 0 \/ i = 1
    OBVIOUS
  <2> QED BY <1>3, <2>1, Zenon
<1>6. Route(at, w, kind, k, most)
  BY <1>1, <1>3, <1>4, <1>5, Zenon DEF Route
<1> QED BY <1>1, <1>2, <1>3, <1>6, Zenon DEF RouteFrom, w

LEMMA RouteJoins ==
  ASSUME NEW kind, NEW k, NEW most, NEW v, IsSeq(v), NEW w, IsSeq(w), NEW a, NEW b, NEW c,
         RouteFrom(v, kind, k, most, a, b), RouteFrom(w, kind, k, most, b, c)
  PROVE  RouteFrom(v \o w, kind, k, most, a, c)
<1>1. PICK x : Route(x, v, kind, k, most) /\ x[0] = a /\ x[Len(v)] = b
  BY DEF RouteFrom
<1>2. PICK y : Route(y, w, kind, k, most) /\ y[0] = b /\ y[Len(w)] = c
  BY DEF RouteFrom
<1> DEFINE m == Len(v)
           n == Len(w)
           u == v \o w
           z == [i \in 0..(m + n) |-> IF i <= m THEN x[i] ELSE y[i - m]]
<1>3. m \in Nat /\ n \in Nat
  BY IsSeqFacts
<1>4. /\ Len(u) = m + n
      /\ \A i \in 1..m : u[i] = v[i]
      /\ \A i \in 1..n : u[m + i] = w[i]
  BY Joined
<1>5. /\ x \in [0..m -> Stages(kind)] /\ (\A i \in 1..m : Takes(v[i], x[i - 1], x[i], k))
      /\ (\A i \in 0..m : x[i].data <= most)
  BY <1>1 DEF Route
<1>6. /\ y \in [0..n -> Stages(kind)] /\ (\A i \in 1..n : Takes(w[i], y[i - 1], y[i], k))
      /\ (\A i \in 0..n : y[i].data <= most)
  BY <1>2 DEF Route
<1>7. x[m] = y[0] /\ x[0] = a /\ y[n] = c
  BY <1>1, <1>2
<1> HIDE DEF m, n, u
<1>8. /\ \A i \in 0..m : z[i] = x[i]
      /\ \A i \in 0..n : z[m + i] = y[i]
  <2>1. \A i \in 0..m : z[i] = x[i]
    BY <1>3
  <2>2. ASSUME NEW i \in 0..n PROVE z[m + i] = y[i]
    <3>1. CASE i = 0
      BY <1>3, <1>7, <3>1
    <3>2. CASE i # 0
      <4>1. ~(m + i <= m) /\ (m + i) - m = i /\ m + i \in 0..(m + n)
        BY <1>3, <3>2
      <4> QED BY <4>1
    <3> QED BY <3>1, <3>2
  <2> QED BY <2>1, <2>2
<1>9. z \in [0..(m + n) -> Stages(kind)]
  <2> SUFFICES ASSUME NEW i \in 0..(m + n) PROVE z[i] \in Stages(kind)
    OBVIOUS
  <2>1. CASE i <= m
    <3>1. i \in 0..m
      BY <1>3, <2>1
    <3> QED BY <1>5, <1>8, <3>1
  <2>2. CASE ~(i <= m)
    <3>1. i - m \in 0..n /\ m + (i - m) = i
      BY <1>3, <2>2
    <3>2. z[i] = y[i - m]
      BY <1>3, <2>2
    <3> QED BY <1>6, <3>1, <3>2
  <2> QED BY <2>1, <2>2
<1> HIDE DEF z
<1>10. ASSUME NEW i \in 1..(m + n) PROVE Takes(u[i], z[i - 1], z[i], k)
  <2>1. CASE i <= m
    <3>1. i \in 1..m /\ i \in 0..m /\ i - 1 \in 0..m
      BY <1>3, <2>1
    <3>2. Takes(v[i], x[i - 1], x[i], k) /\ u[i] = v[i] /\ z[i] = x[i] /\ z[i - 1] = x[i - 1]
      BY <1>4, <1>5, <1>8, <3>1
    <3> QED BY <3>2, Zenon
  <2>2. CASE ~(i <= m)
    <3> DEFINE j == i - m
    <3>1. j \in 1..n /\ j \in 0..n /\ j - 1 \in 0..n /\ i = m + j /\ i - 1 = m + (j - 1)
      BY <1>3, <2>2
    <3> HIDE DEF j
    <3>2. Takes(w[j], y[j - 1], y[j], k) /\ u[m + j] = w[j] /\ z[m + j] = y[j] /\ z[m + (j - 1)] = y[j - 1]
      BY <1>4, <1>6, <1>8, <3>1
    <3> QED BY <3>1, <3>2, Zenon
  <2> QED BY <2>1, <2>2
<1>11. ASSUME NEW i \in 0..(m + n) PROVE z[i].data <= most
  <2>1. CASE i <= m
    <3>1. i \in 0..m
      BY <1>3, <2>1
    <3>2. x[i].data <= most /\ z[i] = x[i]
      BY <1>5, <1>8, <3>1
    <3> QED BY <3>2
  <2>2. CASE ~(i <= m)
    <3> DEFINE j == i - m
    <3>1. j \in 0..n /\ i = m + j
      BY <1>3, <2>2
    <3> HIDE DEF j
    <3>2. y[j].data <= most /\ z[m + j] = y[j]
      BY <1>6, <1>8, <3>1
    <3> QED BY <3>1, <3>2
  <2> QED BY <2>1, <2>2
<1>12. z[0] = a /\ z[Len(u)] = c
  <2>1. 0 \in 0..m /\ n \in 0..n
    BY <1>3
  <2> QED BY <1>4, <1>7, <1>8, <2>1
<1>13. Route(z, u, kind, k, most)
  BY <1>4, <1>9, <1>10, <1>11 DEF Route
<1> QED BY <1>12, <1>13, Zenon DEF RouteFrom, u

LEMMA RouteMore ==
  ASSUME NEW w, NEW kind, NEW k, NEW a, NEW b, NEW m \in Nat, NEW n \in Nat, m <= n,
         RouteFrom(w, kind, k, m, a, b)
  PROVE  RouteFrom(w, kind, k, n, a, b)
<1>1. PICK x : Route(x, w, kind, k, m) /\ x[0] = a /\ x[Len(w)] = b
  BY DEF RouteFrom
<1>2. ASSUME NEW i \in 0..Len(w) PROVE x[i].data <= n
  <2>1. x[i] \in Stages(kind) /\ x[i].data <= m
    BY <1>1 DEF Route
  <2>2. x[i].data \in Nat
    BY <2>1 DEF Stages
  <2> QED BY <2>1, <2>2
<1>3. Route(x, w, kind, k, n)
  BY <1>1, <1>2 DEF Route
<1> QED BY <1>1, <1>3, Zenon DEF RouteFrom

(* The server writes more.                                                   *)
LEMMA RouteWritten ==
  ASSUME NEW at, NEW w, IsSeq(w), NEW s, Path(at, w, s), s.sent \in Nat, NEW t, t.sent \in Nat,
         Kind(t) = Kind(s), t.halves = s.halves, s.sent <= t.sent, NEW v, IsSeq(v),
         RouteFrom(v, Kind(t), t.halves, t.sent, ServerStage(s), ServerStage(t))
  PROVE  \E x : Path(x, w \o v, t) /\ x[0] = at[0]
<1>1. RouteFrom(w, Kind(s), s.halves, s.sent, at[0], ServerStage(s))
  BY PathIsRoute, Zenon DEF RouteFrom
<1>2. RouteFrom(w, Kind(s), s.halves, t.sent, at[0], ServerStage(s))
  BY <1>1, RouteMore
<1>3. RouteFrom(w, Kind(t), t.halves, t.sent, at[0], ServerStage(s))
  BY <1>2, Zenon
<1>4. RouteFrom(w \o v, Kind(t), t.halves, t.sent, at[0], ServerStage(t))
  BY <1>3, RouteJoins, Zenon
<1> QED BY <1>4, PathIsRoute, Zenon DEF RouteFrom

(* The client reads m records.                                               *)
LEMMA PathAfter ==
  ASSUME NEW at, NEW w, IsSeq(w), NEW s, Path(at, w, s), NEW m \in 0..Len(w)
  PROVE  \E x : Path(x, SubSeq(w, m + 1, Len(w)), s) /\ x[0] = at[m]
<1> DEFINE n == Len(w) - m
           v == SubSeq(w, m + 1, Len(w))
           x == [i \in 0..n |-> at[m + i]]
<1>1. Len(w) \in Nat /\ m \in Nat /\ n \in Nat /\ m + n = Len(w)
  BY IsSeqFacts
<1>2. Len(v) = n /\ \A i \in 1..n : v[i] = w[m + i]
  BY Dropped
<1>3. /\ at \in [0..Len(w) -> Stages(Kind(s))]
      /\ at[Len(w)] = ServerStage(s)
      /\ \A i \in 1..Len(w) : Takes(w[i], at[i - 1], at[i], s.halves)
      /\ \A i \in 0..Len(w) : at[i].data <= s.sent
  BY DEF Path
<1> HIDE DEF n, v
<1>4. \A i \in 0..n : x[i] = at[m + i] /\ m + i \in 0..Len(w)
  BY <1>1
<1>5. x \in [0..n -> Stages(Kind(s))]
  BY <1>3, <1>4
<1> HIDE DEF x
<1>6. ASSUME NEW i \in 1..n PROVE Takes(v[i], x[i - 1], x[i], s.halves)
  <2>1. i \in 0..n /\ i - 1 \in 0..n /\ m + i \in 1..Len(w) /\ (m + i) - 1 = m + (i - 1)
    BY <1>1
  <2>2. Takes(w[m + i], at[(m + i) - 1], at[m + i], s.halves)
    BY <1>3, <2>1
  <2>3. v[i] = w[m + i] /\ x[i] = at[m + i] /\ x[i - 1] = at[m + (i - 1)]
    BY <1>2, <1>4, <2>1
  <2> QED BY <2>1, <2>2, <2>3, Zenon
<1>7. \A i \in 0..n : x[i].data <= s.sent
  BY <1>3, <1>4
<1>8. x[n] = ServerStage(s) /\ x[0] = at[m]
  <2>1. n \in 0..n /\ 0 \in 0..n /\ m + 0 = m
    BY <1>1
  <2> QED BY <1>1, <1>3, <1>4, <2>1
<1>9. Path(x, v, s)
  BY <1>2, <1>5, <1>6, <1>7, <1>8 DEF Path
<1> QED BY <1>8, <1>9, Zenon DEF v

LEMMA Rounds ==
  ASSUME NEW k \in Nat, k > 0, NEW l \in Nat, l > 0
  PROVE  LET n == (l + k - 1) \div k IN n \in Nat /\ n > 0 /\ k * (n - 1) < l /\ l <= k * n
OBVIOUS

(* Nothing follows a fatal alert, and nothing leads back to the start.       *)
LEMMA TakesOn ==
  ASSUME NEW r, NEW a, NEW b, NEW k, Takes(r, a, b, k)
  PROVE  a.seg # "alerted" /\ b.seg # "start"
<1>1. CASE Piece(r, a, b, k)
  <2>1. PICK p : b = Reached(a, p)
    BY <1>1, Zenon DEF Piece
  <2>2. a.seg \in {"hello", "flight", "plain", "fin"}
    BY <1>1, Zenon DEF Piece
  <2>3. b.seg \in {"post", a.seg}
    BY <2>1 DEF Reached, Stage
  <2> QED BY <2>2, <2>3
<1>2. CASE Change(r, a, b)
  <2>1. a.seg \in {"hello", "plain"} /\ b.seg \in {"flight", "fin"}
    BY <1>2 DEF Change, Stage
  <2> QED BY <2>1
<1>3. CASE Later(r, a, b)
  <2>1. a.seg = "post" /\ b.seg \in {"post", "alerted"}
    BY <1>3 DEF Later, Stage
  <2> QED BY <2>1
<1>4. CASE Refusal(r, a, b)
  <2>1. a.seg = "start" /\ b.seg = "alerted"
    BY <1>4 DEF Refusal, Stage
  <2> QED BY <2>1
<1> QED BY <1>1, <1>2, <1>3, <1>4, Zenon DEF Takes

LEMMA ServerStages ==
  ASSUME NEW s
  PROVE  /\ ServerStage(s).seg = "start" => s.phase = "new"
         /\ ServerStage(s).seg = "alerted" => s.phase = "alerted"
         /\ s.phase = "new" => ServerStage(s).seg = "start"
         /\ s.phase = "alerted" => ServerStage(s).seg = "alerted"
         /\ s.phase \notin {"new", "alerted"} => ServerStage(s).seg \in {"plain", "post"}
BY DEF ServerStage, Stage

LEMMA NothingWritten ==
  ASSUME NEW at, NEW w, IsSeq(w), NEW s, Path(at, w, s)
  PROVE  s.phase = "new" => Len(w) = 0 /\ at[0] = Stage("start", "", 0, 0, 0)
<1> SUFFICES ASSUME s.phase = "new"
             PROVE  Len(w) = 0 /\ at[0] = Stage("start", "", 0, 0, 0)
  OBVIOUS
<1>1. Len(w) \in Nat
  BY IsSeqFacts
<1>2. at[Len(w)] = Stage("start", "", 0, 0, 0)
  BY DEF Path, ServerStage
<1>3. Len(w) = 0
  <2> SUFFICES ASSUME Len(w) # 0 PROVE FALSE
    OBVIOUS
  <2>1. Len(w) \in 1..Len(w)
    BY <1>1
  <2>2. Takes(w[Len(w)], at[Len(w) - 1], at[Len(w)], s.halves)
    BY <2>1 DEF Path
  <2>3. at[Len(w)].seg # "start"
    BY <2>2, TakesOn, Zenon
  <2>4. Stage("start", "", 0, 0, 0).seg = "start"
    BY DEF Stage
  <2> QED BY <1>2, <2>3, <2>4, Zenon
<1> QED BY <1>2, <1>3

LEMMA AlertIsLast ==
  ASSUME NEW at, NEW w, IsSeq(w), NEW s, Path(at, w, s)
  PROVE  at[0].seg = "alerted" => Len(w) = 0 /\ s.phase = "alerted"
<1> SUFFICES ASSUME at[0].seg = "alerted" PROVE Len(w) = 0 /\ s.phase = "alerted"
  OBVIOUS
<1>1. Len(w) \in Nat
  BY IsSeqFacts
<1>3. Len(w) = 0
  <2> SUFFICES ASSUME Len(w) # 0 PROVE FALSE
    OBVIOUS
  <2>1. 1 \in 1..Len(w) /\ 1 - 1 = 0
    BY <1>1
  <2>2. Takes(w[1], at[0], at[1], s.halves)
    BY <2>1 DEF Path
  <2> QED BY <2>2, TakesOn, Zenon
<1>5. ServerStage(s).seg = "alerted"
  BY <1>3 DEF Path
<1> QED BY <1>3, <1>5, ServerStages, Zenon

(* The stages at the ends of the records of a flight.                        *)
Cut(seg, kind, p, i) == Stage(seg, kind, p, IF seg \in {"flight", "fin"} THEN i ELSE 0, 0)
Cuts(seg, kind, k, l, n) ==
    [i \in 0..n |-> IF i < n THEN Cut(seg, kind, k * i, i)
                    ELSE Reached(Cut(seg, kind, k * (n - 1), n - 1), l)]

LEMMA CutIsStage ==
  ASSUME NEW kind, NEW seg \in InFlight, seg \in Segments(kind), NEW p \in 0..8, NEW i \in Nat
  PROVE  Cut(seg, kind, p, i) \in Stages(kind)
BY DEF Cut, Stage, Stages, InFlight

LEMMA ReachedIsStage ==
  ASSUME NEW kind, NEW a \in Stages(kind), a.seg \in InFlight, NEW p \in 0..8
  PROVE  Reached(a, p) \in Stages(kind) /\ Reached(a, p).data = 0
<1>1. a.kind = kind /\ a.seg \in Segments(kind) /\ a.seq \in Nat
  BY DEF Stages
<1>2. "post" \in Segments(kind)
  BY <1>1 DEF Segments, InFlight
<1>3. CASE a.seg = "flight" /\ p = 8
  <2>1. Reached(a, p) = Stage("post", kind, 0, 0, 0)
    BY <1>1, <1>3 DEF Reached
  <2> QED BY <1>2, <2>1 DEF Stages, Stage
<1>4. CASE a.seg = "fin" /\ p = 2
  <2>1. Reached(a, p) = Stage("post", kind, 0, a.seq + 1, 0)
    BY <1>1, <1>4 DEF Reached
  <2> QED BY <1>1, <1>2, <2>1 DEF Stages, Stage
<1>5. CASE ~(a.seg = "flight" /\ p = 8) /\ ~(a.seg = "fin" /\ p = 2)
  <2>1. Reached(a, p) = Stage(a.seg, kind, p, a.seq + Sealed(a), 0)
    BY <1>1, <1>5 DEF Reached
  <2>2. a.seq + Sealed(a) \in Nat /\ a.seg \notin {"post", "alerted"}
    BY <1>1 DEF Sealed, InFlight
  <2> QED BY <1>1, <2>1, <2>2 DEF Stages, Stage
<1> QED BY <1>3, <1>4, <1>5

(* The records of a part of the flight.                                      *)
Bound(k, i, l) == IF k * i < l THEN k * i ELSE l

RecordsShape(recs, msgs, key, k, l, n) ==
    /\ IsSeq(recs) /\ Len(recs) = n /\ n \in Nat
    /\ \A i \in 1..n : recs[i] = Rec("hs", key, IF key = Plain THEN 0 ELSE i - 1,
                                     SubSeq(MessageHalves(msgs), k * (i - 1) + 1, Bound(k, i, l)))

LEMMA RecordsAre ==
  ASSUME NEW msgs, IsSeq(msgs), NEW l, l = 2 * Len(msgs), l > 0, NEW k \in Nat, k > 0, NEW key,
         NEW n, n = (l + k - 1) \div k, NEW recs, recs = Records(msgs, key, k)
  PROVE  RecordsShape(recs, msgs, key, k, l, n)
<1>1. Len(msgs) \in Nat /\ l \in Nat
  BY IsSeqFacts
<1>2. n \in Nat
  BY <1>1, Rounds
<1>3. Len(MessageHalves(msgs)) = l
  <2>1. MessageHalves(msgs) = [i \in 1..l |-> msgs[(i + 1) \div 2]]
    BY DEF MessageHalves
  <2> DEFINE h == MessageHalves(msgs)
  <2>2. DOMAIN h = 1..l /\ h = [i \in 1..l |-> h[i]]
    BY <2>1
  <2> HIDE DEF h
  <2>3. Len(h) = l
    BY <1>1, <2>2, FunctionIsSeq
  <2> QED BY <2>3 DEF h
<1>4. recs = [i \in 1..n |-> Rec("hs", key, IF key = Plain THEN 0 ELSE i - 1,
                                 SubSeq(MessageHalves(msgs), k * (i - 1) + 1, Bound(k, i, l)))]
  BY <1>3 DEF Records, Bound
<1>5. DOMAIN recs = 1..n /\ recs = [i \in 1..n |-> recs[i]]
  BY <1>4
<1>6. IsSeq(recs) /\ Len(recs) = n
  <2> QED BY <1>2, <1>5, FunctionIsSeq
<1> QED BY <1>2, <1>4, <1>6 DEF RecordsShape

LEMMA CutFacts ==
  ASSUME NEW seg, NEW kind, NEW p, NEW i, NEW a, a = Cut(seg, kind, p, i)
  PROVE  /\ a.seg = seg /\ a.kind = kind /\ a.pos = p /\ a.data = 0
         /\ a.seq = (IF seg \in {"flight", "fin"} THEN i ELSE 0)
         /\ Messages(a) = Messages(Stage(seg, kind, 0, 0, 0))
         /\ SegKey(a) = SegKey(Stage(seg, kind, 0, 0, 0))
<1>1. /\ a.seg = seg /\ a.kind = kind /\ a.pos = p /\ a.data = 0
      /\ a.seq = (IF seg \in {"flight", "fin"} THEN i ELSE 0)
  BY DEF Cut, Stage
<1> DEFINE b == Stage(seg, kind, 0, 0, 0)
<1>2. b.seg = seg /\ b.kind = kind
  BY DEF Stage
<1> HIDE DEF b
<1>3. Messages(a) = Messages(b)
  BY <1>1, <1>2 DEF Messages
<1>4. SegKey(a) = SegKey(b)
  BY <1>1, <1>2 DEF SegKey
<1> QED BY <1>1, <1>3, <1>4 DEF b

LEMMA CutAlong ==
  ASSUME NEW kind, NEW seg \in InFlight, NEW k \in Nat, k > 0, NEW j \in Nat, NEW p, p = k * j,
         NEW l, l = 2 * Len(Messages(Stage(seg, kind, 0, 0, 0))), l \in Nat,
         NEW q \in Nat, p < q, q <= l, q <= p + k, NEW a, a = Cut(seg, kind, p, j),
         NEW r, r = Rec("hs", SegKey(a), a.seq, SubSeq(MessageHalves(Messages(a)), p + 1, q))
  PROVE  Takes(r, a, Reached(a, q), k)
<1>1. a.seg = seg /\ a.pos = p /\ Messages(a) = Messages(Stage(seg, kind, 0, 0, 0))
  BY CutFacts
<1>2. p \in Nat
  OBVIOUS
<1>3. p < 2 /\ q > 3 => k > 3
  <2>1. CASE j = 0
    <3>1. p = 0
      BY <2>1
    <3> QED BY <3>1
  <2>2. CASE j # 0
    <3>1. k <= k * j
      BY <2>2
    <3>2. p < 2 => k = 1
      BY <3>1
    <3> QED BY <1>2, <3>2
  <2> QED BY <2>1, <2>2
<1>4. q \in (a.pos + 1)..(2 * Len(Messages(a)))
  BY <1>1, <1>2
<1>5. a.seg \in {"hello", "flight", "plain", "fin"}
  BY <1>1 DEF InFlight
<1>6. r = Rec("hs", SegKey(a), a.seq, SubSeq(MessageHalves(Messages(a)), a.pos + 1, q))
  BY <1>1
<1>7. a.seg = "plain" /\ a.pos < 2 /\ q > 3 => k > 3
  BY <1>1, <1>3
<1>8. Piece(r, a, Reached(a, q), k)
  BY <1>4, <1>5, <1>6, <1>7 DEF Piece
<1> QED BY <1>8, Zenon DEF Takes

LEMMA CutOn ==
  ASSUME NEW kind, NEW seg \in InFlight, NEW p, NEW q, NEW j \in Nat,
         ~(seg = "flight" /\ q = 8), ~(seg = "fin" /\ q = 2)
  PROVE  Reached(Cut(seg, kind, p, j), q) = Cut(seg, kind, q, j + 1)
<1> DEFINE a == Cut(seg, kind, p, j)
<1>1. a.seg = seg /\ a.kind = kind /\ a.seq = (IF seg \in {"flight", "fin"} THEN j ELSE 0)
  BY CutFacts
<1> HIDE DEF a
<1>2. Reached(a, q) = Stage(seg, kind, q, a.seq + Sealed(a), 0)
  BY <1>1 DEF Reached
<1>3. a.seq + Sealed(a) = (IF seg \in {"flight", "fin"} THEN j + 1 ELSE 0)
  BY <1>1 DEF Sealed
<1> QED BY <1>2, <1>3 DEF Cut, a

MessageCount(seg, n) ==
    \/ seg \in {"hello", "fin"} /\ n = 1
    \/ seg \in {"flight", "plain"} /\ n = 4

LEMMA FlightMessages ==
  ASSUME NEW kind, NEW seg \in InFlight
  PROVE  LET msgs == Messages(Stage(seg, kind, 0, 0, 0))
         IN  IsSeq(msgs) /\ MessageCount(seg, Len(msgs))
<1> DEFINE a == Stage(seg, kind, 0, 0, 0)
<1>1. a.seg = seg
  BY DEF Stage
<1> HIDE DEF a
<1>2. /\ IsSeq(Messages(a)) /\ (seg \in {"hello", "fin"} => Len(Messages(a)) = 1)
      /\ (seg \in {"flight", "plain"} => Len(Messages(a)) = 4)
  BY <1>1, MessagesAre
<1>3. seg \in {"hello", "fin"} \/ seg \in {"flight", "plain"}
  BY DEF InFlight
<1> QED BY <1>2, <1>3, Zenon DEF MessageCount, a

LEMMA RecordsRoute ==
  ASSUME NEW kind, NEW seg \in InFlight, seg \in Segments(kind), NEW k \in Nat, k > 0,
         NEW msgs, msgs = Messages(Stage(seg, kind, 0, 0, 0)), NEW key,
         key = SegKey(Stage(seg, kind, 0, 0, 0)), (key = Plain) <=> (seg \in {"hello", "plain"}),
         NEW most \in Nat, NEW recs, recs = Records(msgs, key, k)
  PROVE  /\ IsSeq(recs) /\ Len(recs) \in Nat /\ Len(recs) > 0
         /\ RouteFrom(recs, kind, k, most, Stage(seg, kind, 0, 0, 0),
                      IF seg = "flight" THEN Stage("post", kind, 0, 0, 0)
                      ELSE IF seg = "fin" THEN Stage("post", kind, 0, Len(recs), 0)
                      ELSE Stage(seg, kind, 2 * Len(msgs), 0, 0))
<1> DEFINE l == 2 * Len(msgs)
           n == (l + k - 1) \div k
           y == Cuts(seg, kind, k, l, n)
           a0 == Stage(seg, kind, 0, 0, 0)
<1>1. IsSeq(msgs) /\ l \in 1..8 /\ (seg = "flight" => l = 8) /\ (seg = "fin" => l = 2)
      /\ (l = 8 \/ l = 2) /\ (seg = "hello" => l = 2) /\ (seg = "plain" => l = 8)
  <2>1. seg \in InFlight /\ msgs = Messages(Stage(seg, kind, 0, 0, 0))
    OBVIOUS
  <2>2. IsSeq(msgs) /\ MessageCount(seg, Len(msgs))
    BY <2>1, FlightMessages, Zenon
  <2> HIDE DEF n, y, a0
  <2>3. \/ seg \in {"hello", "fin"} /\ l = 2
        \/ seg \in {"flight", "plain"} /\ l = 8
    <3> DEFINE m == Len(msgs)
    <3>1. MessageCount(seg, m)
      BY <2>2
    <3> HIDE DEF m
    <3>2. \/ seg \in {"hello", "fin"} /\ 2 * m = 2
          \/ seg \in {"flight", "plain"} /\ 2 * m = 8
      BY <3>1 DEF MessageCount
    <3> QED BY <3>2, Zenon DEF m
  <2> HIDE DEF l
  <2> QED BY <2>2, <2>3
<1>2. l \in Nat /\ l > 0 /\ l = 2 * Len(msgs)
  BY <1>1
<1>3. n \in Nat /\ n > 0 /\ k * (n - 1) < l /\ l <= k * n
  <2> HIDE DEF l
  <2> QED BY <1>2, Rounds
<1>4. /\ IsSeq(recs) /\ Len(recs) = n
      /\ \A i \in 1..n : recs[i] = Rec("hs", key, IF key = Plain THEN 0 ELSE i - 1,
                                       SubSeq(MessageHalves(msgs), k * (i - 1) + 1, Bound(k, i, l)))
  <2>1. n = (l + k - 1) \div k
    OBVIOUS
  <2>2. IsSeq(msgs) /\ recs = Records(msgs, key, k)
    BY <1>1
  <2> HIDE DEF l, n
  <2>3. RecordsShape(recs, msgs, key, k, l, n)
    BY <1>2, <2>1, <2>2, RecordsAre
  <2> QED BY <2>3 DEF RecordsShape
<1>5. l = 2 * Len(Messages(Stage(seg, kind, 0, 0, 0)))
  OBVIOUS
<1> HIDE DEF l, n
<1>6. ASSUME NEW i \in 0..(n - 1) PROVE k * i \in 0..8 /\ k * i < l /\ k * i \in Nat /\ i \in Nat
  <2>1. k * i \in Nat /\ k * i <= k * (n - 1)
    BY <1>3
  <2> QED BY <1>1, <1>3, <2>1
<1>7. ASSUME NEW i \in 0..(n - 1) PROVE y[i] = Cut(seg, kind, k * i, i)
  BY <1>3 DEF Cuts
<1>8. y[n] = Reached(Cut(seg, kind, k * (n - 1), n - 1), l) /\ DOMAIN y = 0..n
      /\ y = [i \in 0..n |-> y[i]]
  BY <1>3 DEF Cuts
<1> HIDE DEF y
<1>9. ASSUME NEW i \in 0..(n - 1) PROVE y[i] \in Stages(kind) /\ y[i].data = 0
  <2>1. k * i \in 0..8 /\ i \in Nat
    BY <1>6
  <2>2. Cut(seg, kind, k * i, i) \in Stages(kind)
    BY <2>1, CutIsStage
  <2>3. y[i].data = 0
    BY <1>7, CutFacts
  <2> QED BY <1>7, <2>2, <2>3
<1>10. y[n] \in Stages(kind) /\ y[n].data = 0
  <2> DEFINE z == Cut(seg, kind, k * (n - 1), n - 1)
  <2>1. n - 1 \in 0..(n - 1)
    BY <1>3
  <2>2. z \in Stages(kind) /\ z.seg = seg
    BY <1>7, <1>9, <2>1, CutFacts
  <2>3. l \in 0..8
    BY <1>1
  <2> HIDE DEF z
  <2>4. Reached(z, l) \in Stages(kind) /\ Reached(z, l).data = 0
    BY <2>2, <2>3, ReachedIsStage
  <2> QED BY <1>8, <2>4 DEF z
<1>11. ASSUME NEW i \in 0..n PROVE y[i] \in Stages(kind) /\ y[i].data <= most
  <2>1. i = n \/ i \in 0..(n - 1)
    BY <1>3
  <2>2. y[i].data = 0 => y[i].data <= most
    OBVIOUS
  <2> QED BY <1>9, <1>10, <2>1, <2>2
<1>12. ASSUME NEW i \in 1..n PROVE Takes(recs[i], y[i - 1], y[i], k)
  <2> DEFINE j == i - 1
             p == k * j
             q == Bound(k, i, l)
             a == Cut(seg, kind, p, j)
  <2>1. j \in 0..(n - 1) /\ j \in Nat /\ j + 1 = i /\ i \in Nat
    BY <1>3
  <2>2. p \in Nat /\ p < l /\ k * i = p + k
    BY <1>6, <2>1
  <2>3. y[i - 1] = a
    BY <1>7, <2>1
  <2>4. q \in Nat /\ p < q /\ q <= l /\ q <= p + k
    <3> HIDE DEF p
    <3> QED BY <1>2, <2>2 DEF Bound
  <2>5. y[i] = Reached(a, q)
    <3>1. CASE i = n
      <4>1. q = l
        BY <1>2, <1>3, <3>1 DEF Bound
      <4> QED BY <1>8, <3>1, <4>1
    <3>2. CASE i # n
      <4>1. i \in 0..(n - 1)
        BY <1>3, <2>1, <3>2
      <4>2. k * i < l /\ y[i] = Cut(seg, kind, k * i, i)
        BY <1>6, <1>7, <4>1
      <4>3. q = k * i
        BY <4>2 DEF Bound
      <4>4. ~(seg = "flight" /\ q = 8) /\ ~(seg = "fin" /\ q = 2)
        BY <1>1, <4>2, <4>3
      <4> HIDE DEF q, p, j
      <4>5. Reached(Cut(seg, kind, p, j), q) = Cut(seg, kind, q, j + 1)
        BY <2>1, <4>4, CutOn
      <4> QED BY <2>1, <4>2, <4>3, <4>5
    <3> QED BY <3>1, <3>2
  <2>6. /\ a.seq = (IF seg \in {"flight", "fin"} THEN j ELSE 0)
        /\ Messages(a) = msgs /\ SegKey(a) = key
    BY CutFacts
  <2>7. recs[i] = Rec("hs", SegKey(a), a.seq, SubSeq(MessageHalves(Messages(a)), p + 1, q))
    <3>1. a.seq = IF key = Plain THEN 0 ELSE i - 1
      BY <2>6 DEF InFlight
    <3> QED BY <1>4, <2>6, <3>1
  <2>8. p = k * j /\ a = Cut(seg, kind, p, j)
    OBVIOUS
  <2> HIDE DEF j, p, q, a
  <2>9. Takes(recs[i], a, Reached(a, q), k)
    BY <1>2, <1>5, <2>1, <2>4, <2>7, <2>8, CutAlong, ZenonT(40)
  <2> QED BY <2>3, <2>5, <2>9, Zenon
<1>13. Route(y, recs, kind, k, most)
  <2>1. y \in [0..n -> Stages(kind)]
    BY <1>8, <1>11
  <2> QED BY <1>4, <1>11, <1>12, <2>1 DEF Route
<1>14. y[0] = a0
  <2>1. y[0] = Cut(seg, kind, k * 0, 0) /\ k * 0 = 0
    BY <1>3, <1>7
  <2> QED BY <2>1 DEF Cut
<1>15. y[n] = IF seg = "flight" THEN Stage("post", kind, 0, 0, 0)
              ELSE IF seg = "fin" THEN Stage("post", kind, 0, n, 0)
              ELSE Stage(seg, kind, l, 0, 0)
  <2> DEFINE z == Cut(seg, kind, k * (n - 1), n - 1)
  <2>1. z.seg = seg /\ z.kind = kind /\ z.seq = (IF seg \in {"flight", "fin"} THEN n - 1 ELSE 0)
    BY CutFacts
  <2> HIDE DEF z
  <2>2. y[n] = Reached(z, l)
    BY <1>8 DEF z
  <2>3. CASE seg = "flight"
    BY <1>1, <2>1, <2>2, <2>3 DEF Reached
  <2>4. CASE seg = "fin"
    <3>1. (n - 1) + 1 = n
      BY <1>3
    <3> QED BY <1>1, <2>1, <2>2, <2>4, <3>1 DEF Reached
  <2>5. CASE seg \notin {"flight", "fin"}
    <3>1. z.seq + Sealed(z) = 0
      BY <2>1, <2>5 DEF Sealed
    <3> QED BY <2>1, <2>2, <2>5, <3>1 DEF Reached
  <2> QED BY <2>3, <2>4, <2>5
<1>16. RouteFrom(recs, kind, k, most, a0, y[n])
  BY <1>4, <1>13, <1>14 DEF RouteFrom
<1> QED BY <1>3, <1>4, <1>15, <1>16 DEF l

LEMMA CcsTakes ==
  /\ \A k : Takes(Ccs, Stage("hello", "1.3", 2, 0, 0), Stage("flight", "1.3", 0, 0, 0), k)
  /\ \A k : \A kind \in Kinds12 :
       Takes(Ccs, Stage("plain", kind, 8, 0, 0), Stage("fin", kind, 0, 0, 0), k)
<1>1. ASSUME NEW k
      PROVE  Takes(Ccs, Stage("hello", "1.3", 2, 0, 0), Stage("flight", "1.3", 0, 0, 0), k)
  BY DEF Takes, Change
<1>2. ASSUME NEW k, NEW kind \in Kinds12
      PROVE  Takes(Ccs, Stage("plain", kind, 8, 0, 0), Stage("fin", kind, 0, 0, 0), k)
  <2> DEFINE a == Stage("plain", kind, 8, 0, 0)
             b == Stage("fin", kind, 0, 0, 0)
  <2>1. a.kind = kind
    BY DEF Stage
  <2>2. a.kind \in Kinds12 /\ a = Stage("plain", a.kind, 8, 0, 0) /\ b = Stage("fin", a.kind, 0, 0, 0)
    BY <2>1
  <2> HIDE DEF a, b
  <2>3. Takes(Ccs, a, b, k)
    BY <2>2, Zenon DEF Takes, Change
  <2> QED BY <2>3 DEF a, b
<1> QED BY <1>1, <1>2

LEMMA Kind12Segments ==
  ASSUME NEW kind \in Kinds12
  PROVE  kind # "" /\ kind # "1.3" /\ Segments(kind) = {"plain", "fin", "post", "alerted"}
BY DEF Kinds12, Segments

(* What the server writes when it answers, and after the client's Finished.  *)
Written13(k) == Records(Hello13, Plain, k) \o <<Ccs>> \o Records(Flight13, ServerFlightKey, k)
WrittenFin(kind, k) == <<Ccs>> \o Records(Finished12(kind), ServerKey(kind), k)

LEMMA Route13 ==
  ASSUME NEW k \in Nat, k > 0
  PROVE  /\ IsSeq(Written13(k)) /\ Len(Written13(k)) > 0
         /\ RouteFrom(Written13(k), "1.3", k, 0, Stage("hello", "1.3", 0, 0, 0), Stage("post", "1.3", 0, 0, 0))
<1> DEFINE u == Records(Hello13, Plain, k)
           c == <<Ccs>>
           v == Records(Flight13, ServerFlightKey, k)
           a == Stage("hello", "1.3", 0, 0, 0)
           b == Stage("hello", "1.3", 2, 0, 0)
           d == Stage("flight", "1.3", 0, 0, 0)
           e == Stage("post", "1.3", 0, 0, 0)
<1>0. Segments("1.3") = {"hello", "flight", "post", "alerted"}
  BY DEF Segments
<1>1. IsSeq(u) /\ Len(u) \in Nat /\ Len(u) > 0 /\ RouteFrom(u, "1.3", k, 0, a, b)
  <2>1. Hello13 = Messages(a) /\ Plain = SegKey(a) /\ Len(Hello13) = 1
    BY DEF Messages, SegKey, Stage, Hello13
  <2>2. "hello" \in InFlight /\ "hello" \in Segments("1.3") /\ ((Plain = Plain) <=> ("hello" \in {"hello", "plain"}))
    BY <1>0 DEF InFlight
  <2>3. 2 * Len(Hello13) = 2
    BY DEF Hello13
  <2> QED BY <2>1, <2>2, <2>3, RecordsRoute
<1>2. IsSeq(v) /\ Len(v) \in Nat /\ Len(v) > 0 /\ RouteFrom(v, "1.3", k, 0, d, e)
  <2>1. Flight13 = Messages(d) /\ ServerFlightKey = SegKey(d)
    BY DEF Messages, SegKey, Stage
  <2>2. "flight" \in InFlight /\ "flight" \in Segments("1.3")
    BY <1>0 DEF InFlight
  <2>3. ServerFlightKey # Plain
    BY DEF ServerFlightKey, Plain
  <2> QED BY <2>1, <2>2, <2>3, RecordsRoute
<1>3. RouteFrom(c, "1.3", k, 0, b, d) /\ IsSeq(c)
  <2>1. b \in Stages("1.3") /\ d \in Stages("1.3") /\ b.data = 0 /\ d.data = 0
    BY <1>0 DEF Stages, Stage
  <2>2. Takes(Ccs, b, d, k)
    BY CcsTakes, Zenon
  <2>3. b.data <= 0 /\ d.data <= 0
    BY <2>1
  <2> HIDE DEF b, d
  <2> QED BY <2>1, <2>2, <2>3, RouteOne
<1> HIDE DEF u, c, v, a, b, d, e
<1>4. RouteFrom(u \o c, "1.3", k, 0, a, d)
  BY <1>1, <1>3, RouteJoins, Zenon
<1>5. IsSeq(u \o c) /\ Len(u \o c) = Len(u) + Len(c)
  BY <1>1, <1>3, Joined
<1>6. RouteFrom((u \o c) \o v, "1.3", k, 0, a, e)
  BY <1>2, <1>4, <1>5, RouteJoins, Zenon
<1>7. IsSeq((u \o c) \o v) /\ Len((u \o c) \o v) = Len(u \o c) + Len(v)
  BY <1>2, <1>5, Joined
<1>8. Len((u \o c) \o v) > 0
  <2>1. Len(c) \in Nat
    BY <1>3, IsSeqFacts
  <2> QED BY <1>1, <1>2, <1>5, <1>7, <2>1
<1>9. Written13(k) = (u \o c) \o v
  BY DEF Written13, u, c, v
<1> QED BY <1>6, <1>7, <1>8, <1>9 DEF a, e

LEMMA Route12 ==
  ASSUME NEW kind \in Kinds12, NEW k \in Nat, k > 0
  PROVE  /\ IsSeq(Records(Flight12(kind), Plain, k)) /\ Len(Records(Flight12(kind), Plain, k)) > 0
         /\ RouteFrom(Records(Flight12(kind), Plain, k), kind, k, 0,
                      Stage("plain", kind, 0, 0, 0), Stage("plain", kind, 8, 0, 0))
<1> DEFINE a == Stage("plain", kind, 0, 0, 0)
<1>1. Flight12(kind) = Messages(a) /\ Plain = SegKey(a)
  BY DEF Messages, SegKey, Stage
<1>2. "plain" \in InFlight /\ "plain" \in Segments(kind)
  BY Kind12Segments DEF InFlight
<1>3. 2 * Len(Flight12(kind)) = 8
  BY DEF Flight12
<1> QED BY <1>1, <1>2, <1>3, RecordsRoute

LEMMA RouteFin ==
  ASSUME NEW kind \in Kinds12, NEW k \in Nat, k > 0, NEW n, n = Len(Records(Finished12(kind), ServerKey(kind), k))
  PROVE  /\ IsSeq(WrittenFin(kind, k)) /\ Len(WrittenFin(kind, k)) > 0 /\ n \in Nat
         /\ RouteFrom(WrittenFin(kind, k), kind, k, 0,
                      Stage("plain", kind, 8, 0, 0), Stage("post", kind, 0, n, 0))
<1> DEFINE c == <<Ccs>>
           v == Records(Finished12(kind), ServerKey(kind), k)
           b == Stage("plain", kind, 8, 0, 0)
           d == Stage("fin", kind, 0, 0, 0)
           e == Stage("post", kind, 0, n, 0)
<1>1. IsSeq(v) /\ Len(v) \in Nat /\ Len(v) > 0 /\ n = Len(v) /\ RouteFrom(v, kind, k, 0, d, e)
  <2>1. Finished12(kind) = Messages(d) /\ ServerKey(kind) = SegKey(d)
    BY DEF Messages, SegKey, Stage
  <2>2. "fin" \in InFlight /\ "fin" \in Segments(kind)
    BY Kind12Segments DEF InFlight
  <2>3. ServerKey(kind) # Plain
    BY DEF ServerKey, Plain
  <2> QED BY <2>1, <2>2, <2>3, RecordsRoute
<1>2. RouteFrom(c, kind, k, 0, b, d) /\ IsSeq(c)
  <2>0. "plain" \in Segments(kind) /\ "fin" \in Segments(kind)
    BY Kind12Segments
  <2>1. b \in Stages(kind) /\ d \in Stages(kind) /\ b.data = 0 /\ d.data = 0
    BY <2>0 DEF Stages, Stage
  <2>2. Takes(Ccs, b, d, k)
    BY CcsTakes, Zenon
  <2>3. b.data <= 0 /\ d.data <= 0
    BY <2>1
  <2> HIDE DEF b, d
  <2> QED BY <2>1, <2>2, <2>3, RouteOne
<1> HIDE DEF c, v, b, d, e
<1>3. RouteFrom(c \o v, kind, k, 0, b, e)
  BY <1>1, <1>2, RouteJoins, Zenon
<1>4. IsSeq(c \o v) /\ Len(c \o v) = Len(c) + Len(v)
  BY <1>1, <1>2, Joined
<1>5. Len(c \o v) > 0
  <2>1. Len(c) \in Nat
    BY <1>2, IsSeqFacts
  <2> QED BY <1>1, <1>4, <2>1
<1>6. WrittenFin(kind, k) = c \o v
  BY DEF WrittenFin, c, v
<1> QED BY <1>1, <1>3, <1>4, <1>5, <1>6 DEF b, e

LEMMA TwoAppended ==
  ASSUME NEW s, IsSeq(s), NEW x, NEW y
  PROVE  s \o <<x, y>> = Append(Append(s, x), y)
<1> DEFINE t == <<x>>
           u == <<y>>
           v == <<x, y>>
<1>1. t \in Seq({x}) /\ u \in Seq({y}) /\ Append(t, y) = v
  <2>1. t \in Seq({x}) /\ u \in Seq({y})
    OBVIOUS
  <2>2. t \in Seq({x, y}) /\ v \in Seq({x, y}) /\ Len(t) = 1 /\ Len(v) = 2 /\ t[1] = x /\ v[1] = x /\ v[2] = y
    OBVIOUS
  <2>3. Append(t, y) = v
    <3> DEFINE S == {x, y}
               w == Append(t, y)
    <3>1. t \in Seq(S) /\ v \in Seq(S) /\ y \in S
      BY <2>2
    <3> HIDE DEF t, v, S
    <3>2. w \in Seq(S) /\ Len(w) = Len(t) + 1 /\ w[Len(t) + 1] = y /\ \A i \in 1..Len(t) : w[i] = t[i]
      BY <3>1, AppendProperties
    <3> HIDE DEF w
    <3>3. Len(w) = 2 /\ w[2] = y /\ w[1] = x
      BY <2>2, <3>2
    <3>4. w = v
      BY <2>2, <3>1, <3>2, <3>3
    <3> QED BY <3>4 DEF w
  <2> QED BY <2>1, <2>3
<1>2. IsSeq(t) /\ IsSeq(u)
  BY <1>1, SeqIs
<1>3. Append(s, x) = s \o t /\ IsSeq(Append(s, x))
  BY Appended
<1>4. Append(Append(s, x), y) = Append(s, x) \o u
  BY <1>3, Appended
<1>5. v = t \o u
  BY <1>1, <1>2, Appended
<1> HIDE DEF t, u, v
<1>6. (s \o t) \o u = s \o (t \o u)
  BY <1>2, JoinedThree, SMTT(40)
<1>7. s \o v = Append(Append(s, x), y)
  BY <1>3, <1>4, <1>5, <1>6
<1> QED BY <1>7 DEF v

(* The transcripts that the server computes.                                 *)
LEMMA Transcripts ==
  /\ <<"ClientHello", "ServerHello13">> = UpTo(Seen13, 2)
  /\ UpTo(Seen13, 2) \o <<"EncryptedExtensions", "Certificate">> = UpTo(Seen13, 4)
  /\ Append(UpTo(Seen13, 4), "CertificateVerify") = UpTo(Seen13, 5)
  /\ Append(UpTo(Seen13, 5), "Finished") = UpTo(Seen13, 6)
  /\ \A kind \in Kinds12 : <<"ClientHello">> \o Types(Flight12(kind)) = UpTo(Seen12(kind), 5)
<1>1. <<"ClientHello", "ServerHello13">> = UpTo(Seen13, 2)
  BY DEF UpTo, Seen13
<1>2. UpTo(Seen13, 2) \o <<"EncryptedExtensions", "Certificate">> = UpTo(Seen13, 4)
  <2> DEFINE s == UpTo(Seen13, 2)
  <2>1. IsSeq(s)
    <3>1. DOMAIN s = 1..2 /\ s = [i \in 1..2 |-> s[i]]
      BY DEF UpTo
    <3> HIDE DEF s
    <3> QED BY <3>1, FunctionIsSeq
  <2> HIDE DEF s
  <2>2. s \o <<"EncryptedExtensions", "Certificate">> = Append(Append(s, "EncryptedExtensions"), "Certificate")
    BY <2>1, TwoAppended
  <2> QED BY <2>2, Grows13 DEF s
<1>3. ASSUME NEW kind \in Kinds12 PROVE <<"ClientHello">> \o Types(Flight12(kind)) = UpTo(Seen12(kind), 5)
  <2>1. UpTo(Seen12(kind), 5) = <<"ClientHello", kind, "Certificate12", "ServerKeyExchange", "ServerHelloDone">>
    BY DEF UpTo, Seen12
  <2>2. Types(Flight12(kind)) = <<kind, "Certificate12", "ServerKeyExchange", "ServerHelloDone">>
    BY DEF Types, Flight12, Msg
  <2> DEFINE s == <<"ClientHello">>
             t == <<kind, "Certificate12", "ServerKeyExchange", "ServerHelloDone">>
             u == <<"ClientHello", kind, "Certificate12", "ServerKeyExchange", "ServerHelloDone">>
  <2>3. s \in Seq({s[1]}) /\ t \in Seq({t[1], t[2], t[3], t[4]})
        /\ u \in Seq({u[1], u[2], u[3], u[4], u[5]})
    OBVIOUS
  <2>4. /\ Len(s) = 1 /\ Len(t) = 4 /\ Len(u) = 5
        /\ u[1] = s[1] /\ u[2] = t[1] /\ u[3] = t[2] /\ u[4] = t[3] /\ u[5] = t[4]
    OBVIOUS
  <2> HIDE DEF s, t, u
  <2>5. IsSeq(s) /\ IsSeq(t) /\ IsSeq(u)
    BY <2>3, SeqIs
  <2>6. s \o t = u
    <3> DEFINE v == s \o t
    <3>1. /\ IsSeq(v) /\ Len(v) = Len(s) + Len(t)
          /\ \A i \in 1..Len(s) : v[i] = s[i]
          /\ \A i \in 1..Len(t) : v[Len(s) + i] = t[i]
      BY <2>5, Joined
    <3> HIDE DEF v
    <3>2. v[1] = u[1] /\ v[1 + 1] = u[2] /\ v[1 + 2] = u[3] /\ v[1 + 3] = u[4] /\ v[1 + 4] = u[5]
      BY <2>4, <3>1
    <3>3. v[1] = u[1] /\ v[2] = u[2] /\ v[3] = u[3] /\ v[4] = u[4] /\ v[5] = u[5]
      BY <3>2
    <3>4. Len(v) = Len(u)
      BY <2>4, <3>1
    <3>5. ASSUME NEW i \in 1..Len(v) PROVE v[i] = u[i]
      <4>1. i = 1 \/ i = 2 \/ i = 3 \/ i = 4 \/ i = 5
        BY <2>4, <3>4
      <4> QED BY <3>3, <4>1, Zenon
    <3>6. v = u
      BY <2>5, <3>1, <3>4, <3>5, SameSeq
    <3> QED BY <3>6 DEF v
  <2>7. Types(Flight12(kind)) = t /\ UpTo(Seen12(kind), 5) = u
    BY <2>1, <2>2 DEF t, u
  <2> QED BY <2>6, <2>7 DEF s
<1> QED BY <1>1, <1>2, <1>3, Grows13

(* Where a client that has begun stands.                                     *)
Standing(c, a) ==
    \/ a.seg = "alerted" /\ c.state = "Failed" /\ c.fail = "AlertReceived"
    \/ a.seg \in {"post", "flight"} /\ Talking(c, a.kind)
    \/ a.seg \notin {"post", "alerted"} /\ Waiting(c) /\ c.state \notin {"Connected", "Failed", "Fresh"}

LEMMA Stood ==
  ASSUME Setting, NEW a \in Stages(Kind(server)), NEW c, Stands(c, a), c.state # "Fresh"
  PROVE  Standing(c, a)
<1>0. /\ a.seg \in {"start", "hello", "flight", "plain", "fin", "post", "alerted"} /\ a.pos \in 0..8
      /\ (a.seg = "flight" => a.kind = "1.3")
  BY StageFacts, Zenon
<1>1. Greeting(c) => Waiting(c) /\ c.state \notin {"Connected", "Failed", "Fresh"}
  BY DEF Greeting
<1>2. ASSUME NEW n \in 2..5, NEW q, In13(c, n, q)
      PROVE  Waiting(c) /\ c.state \notin {"Connected", "Failed", "Fresh"}
  <2>1. Waiting(c) /\ c.state = Expecting13[n]
    BY <1>2, In13Means, Zenon
  <2>2. Expecting13[n] \notin {"Connected", "Failed", "Fresh"}
    BY DEF Expecting13
  <2> QED BY <2>1, <2>2
<1>3. CASE a.seg = "start"
  <2>1. Greeting(c)
    BY <1>3 DEF Stands
  <2> QED BY <1>1, <1>3, <2>1 DEF Standing
<1>4. CASE a.seg = "hello"
  <2>1. Greeting(c) \/ In13(c, 2, 0)
    BY <1>4 DEF Stands
  <2>2. 2 \in 2..5
    OBVIOUS
  <2>3. Waiting(c) /\ c.state \notin {"Connected", "Failed", "Fresh"}
    BY <1>1, <1>2, <2>1, <2>2, Zenon
  <2> QED BY <1>4, <2>3 DEF Standing
<1>5. CASE a.seg = "flight"
  <2> DEFINE n == 2 + (a.pos \div 2)
             q == a.seq
  <2>1. In13(c, n, q) /\ n \in 2..6 /\ a.kind = "1.3"
    BY <1>0, <1>5 DEF Stands
  <2> HIDE DEF n, q
  <2>2. CASE n = 6
    <3>1. ~(n < 6)
      BY <2>2
    <3>2. Talking(c, "1.3")
      BY <2>1, <3>1, Zenon DEF In13
    <3>3. Talking(c, a.kind)
      BY <2>1, <3>2, Zenon
    <3> QED BY <1>5, <3>3 DEF Standing
  <2>3. CASE n # 6
    <3>1. n \in 2..5
      BY <2>1, <2>3
    <3>2. Waiting(c) /\ c.state \notin {"Connected", "Failed", "Fresh"}
      BY <1>2, <2>1, <3>1, Zenon
    <3> QED BY <1>5, <3>2 DEF Standing
  <2> QED BY <2>2, <2>3
<1>6. CASE a.seg = "plain"
  <2> DEFINE n == 1 + (a.pos \div 2)
             k == a.kind
  <2>1. In12(c, k, n)
    BY <1>6 DEF Stands
  <2> HIDE DEF n, k
  <2>2. Waiting(c) /\ c.state \notin {"Connected", "Failed", "Fresh"}
    BY <1>1, <2>1 DEF In12
  <2> QED BY <1>6, <2>2 DEF Standing
<1>7. CASE a.seg = "fin"
  <2>1. Waiting(c) /\ c.state \notin {"Connected", "Failed", "Fresh"}
    BY <1>7 DEF Stands, Finishing12
  <2> QED BY <1>7, <2>1 DEF Standing
<1>8. CASE a.seg = "post"
  BY <1>8 DEF Stands, Standing
<1>9. CASE a.seg = "alerted"
  BY <1>9 DEF Stands, Standing
<1> QED BY <1>0, <1>3, <1>4, <1>5, <1>6, <1>7, <1>8, <1>9

LEMMA CutInTwo ==
  ASSUME NEW s \in Seq(Nat), NEW m \in Nat, m <= Len(s)
  PROVE  /\ SubSeq(s, 1, m) \in Seq(Nat) /\ Len(SubSeq(s, 1, m)) = m
         /\ SubSeq(s, m + 1, Len(s)) \in Seq(Nat)
         /\ SubSeq(s, 1, m) \o SubSeq(s, m + 1, Len(s)) = s
<1> DEFINE v == SubSeq(s, 1, m)
           w == SubSeq(s, m + 1, Len(s))
           n == Len(s) - m
<1>1. n \in Nat /\ Len(s) = m + n /\ m \in 0..Len(s) /\ Len(s) \in Nat
  OBVIOUS
<1>2. v \in Seq(Nat) /\ w \in Seq(Nat) /\ Len(v) = m
  OBVIOUS
<1>3. \A i \in 1..m : v[i] = s[i]
  OBVIOUS
<1>4. IsSeq(s) /\ IsSeq(v) /\ IsSeq(w)
  <2> HIDE DEF v, w
  <2> QED BY <1>2, SeqIs
<1>5. Len(w) = n /\ \A i \in 1..n : w[i] = s[m + i]
  BY <1>1, <1>4, Dropped
<1> HIDE DEF v, w, n
<1>6. v \o w = s
  <2> DEFINE u == v \o w
  <2>1. IsSeq(u) /\ Len(u) = Len(v) + Len(w) /\ (\A i \in 1..Len(v) : u[i] = v[i])
        /\ (\A i \in 1..Len(w) : u[Len(v) + i] = w[i])
    BY <1>4, Joined
  <2> HIDE DEF u
  <2>2. Len(u) = Len(s)
    BY <1>1, <1>2, <1>5, <2>1
  <2>3. ASSUME NEW i \in 1..Len(u) PROVE u[i] = s[i]
    <3>1. CASE i <= m
      <4>1. i \in 1..m
        BY <1>1, <2>2, <3>1
      <4> QED BY <1>2, <1>3, <2>1, <4>1
    <3>2. CASE ~(i <= m)
      <4> DEFINE j == i - m
      <4>1. j \in 1..n /\ m + j = i
        BY <1>1, <2>2, <3>2
      <4> HIDE DEF j
      <4>2. u[m + j] = w[j] /\ w[j] = s[m + j]
        BY <1>2, <1>5, <2>1, <4>1
      <4> QED BY <4>1, <4>2
    <3> QED BY <3>1, <3>2
  <2>4. u = s
    BY <1>4, <2>1, <2>2, <2>3, SameSeq
  <2> QED BY <2>4 DEF u
<1> QED BY <1>2, <1>6 DEF v, w

-----------------------------------------------------------------------------
(* The steps of the client.                                                  *)

(* The end of recv.                                                          *)
LEMMA HandedOut ==
  ASSUME NEW data \in Seq(Nat), delivered \in Seq(Nat), NEW max \in Nat, HandOut(data, max)
  PROVE  /\ delivered' \in Seq(Nat) /\ pending' \in Seq(Nat)
         /\ delivered' \o pending' = delivered \o data
         /\ Len(data) = 0 => Len(pending') = 0 /\ delivered' = delivered
         /\ Len(data) > 0 /\ max > 0 => Len(delivered') > Len(delivered)
         /\ Len(delivered) <= Len(delivered')
         /\ \E v \in Seq(Nat) : delivered' = delivered \o v
<1>1. CASE Len(data) > max
  <2> DEFINE v == SubSeq(data, 1, max)
             w == SubSeq(data, max + 1, Len(data))
  <2>1. delivered' = delivered \o v /\ pending' = w
    BY <1>1 DEF HandOut
  <2>2. v \in Seq(Nat) /\ w \in Seq(Nat) /\ Len(v) = max
    BY <1>1
  <2>3. v \o w = data
    <3>1. max <= Len(data)
      BY <1>1
    <3> QED BY <3>1, CutInTwo
  <2>4. Len(data) # 0
    BY <1>1
  <2> HIDE DEF v, w
  <2>5. (delivered \o v) \o w = delivered \o (v \o w)
    BY <2>2, ConcatAssociative
  <2>6. delivered \o v \in Seq(Nat) /\ Len(delivered \o v) = Len(delivered) + max
    BY <2>2, ConcatProperties
  <2>7. delivered' \o pending' = delivered \o data
    BY <2>1, <2>3, <2>5
  <2>8. Len(delivered') = Len(delivered) + max /\ Len(delivered) \in Nat
    BY <2>1, <2>6
  <2>9. Len(delivered) <= Len(delivered') /\ (max > 0 => Len(delivered') > Len(delivered))
    BY <2>8
  <2> QED BY <2>1, <2>2, <2>4, <2>6, <2>7, <2>9
<1>2. CASE ~(Len(data) > max)
  <2>1. delivered' = delivered \o data /\ pending' = <<>>
    BY <1>2 DEF HandOut
  <2>2. delivered \o data \in Seq(Nat) /\ Len(delivered \o data) = Len(delivered) + Len(data)
    OBVIOUS
  <2>3. (delivered \o data) \o <<>> = delivered \o data
    BY <2>2, ConcatEmptySeq
  <2>4. Len(data) = 0 => delivered \o data = delivered
    <3>1. Len(data) = 0 => data = <<>>
      OBVIOUS
    <3> QED BY <3>1, ConcatEmptySeq
  <2>6. Len(delivered) \in Nat /\ Len(data) \in Nat
    OBVIOUS
  <2>7. Len(delivered) <= Len(delivered') /\ (Len(data) > 0 => Len(delivered') > Len(delivered))
    BY <2>1, <2>2, <2>6
  <2>8. \E v \in Seq(Nat) : delivered' = delivered \o v
    BY <2>1
  <2>9. pending' \in Seq(Nat) /\ delivered' \in Seq(Nat)
    BY <2>1, <2>2
  <2>10. delivered' \o pending' = delivered \o data
    BY <2>1, <2>3
  <2>11. Len(data) = 0 => Len(pending') = 0 /\ delivered' = delivered
    BY <2>1, <2>4
  <2> QED BY <2>7, <2>8, <2>9, <2>10, <2>11, Zenon
<1> QED BY <1>1, <1>2

(* What the client is after a call of feed that took it from a to b.         *)
Pumped(c, d, a, b) ==
    /\ IsClient(d) /\ d.sent = c.sent /\ (Synced(c) => Synced(d))
    /\ OnItsWay(d, up \o d.out, server)
    /\ c.appKeys => d.appKeys /\ d.out = c.out
    /\ \/ Broken(d)
       \/ /\ ClientAt(d, b) /\ DataAdded(c, d, a, b) /\ d.state # "Fresh"
          /\ d.appKeys => b.seg \in {"post", "alerted"}

WithHalf(c, h) == [c EXCEPT !.half = h]

LEMMA HalfOnly ==
  ASSUME NEW c, IsClient(c), NEW h \in {0, 1}
  PROVE  LET x == WithHalf(c, h)
         IN  /\ IsClient(x) /\ x.half = h
             /\ x.state = c.state /\ x.fail = c.fail /\ x.hs = c.hs /\ x.transcript = c.transcript
             /\ x.sendKey = c.sendKey /\ x.recvKey = c.recvKey /\ x.sendSeq = c.sendSeq
             /\ x.recvSeq = c.recvSeq /\ x.appData = c.appData /\ x.sent = c.sent /\ x.out = c.out
             /\ x.tls12 = c.tls12 /\ x.sendOn = c.sendOn /\ x.recvOn = c.recvOn
             /\ x.appKeys = c.appKeys /\ x.ems = c.ems
<1> DEFINE x == WithHalf(c, h)
<1>1. IsClient(x) /\ x.half = h
  BY SMTT(40) DEF IsClient, WithHalf
<1>2. /\ x.state = c.state /\ x.fail = c.fail /\ x.hs = c.hs /\ x.transcript = c.transcript
      /\ x.sendKey = c.sendKey /\ x.recvKey = c.recvKey /\ x.sendSeq = c.sendSeq
      /\ x.recvSeq = c.recvSeq /\ x.appData = c.appData /\ x.sent = c.sent /\ x.out = c.out
  BY DEF IsClient, WithHalf
<1>3. /\ x.tls12 = c.tls12 /\ x.sendOn = c.sendOn /\ x.recvOn = c.recvOn
      /\ x.appKeys = c.appKeys /\ x.ems = c.ems
  BY DEF IsClient, WithHalf
<1> QED BY <1>1, <1>2, <1>3, Zenon

(* All that a stage, and the way to the server, ask of a client.             *)
Same(c, x) ==
    /\ x.state = c.state /\ x.fail = c.fail /\ x.hs = c.hs /\ x.transcript = c.transcript
    /\ x.sendKey = c.sendKey /\ x.recvKey = c.recvKey /\ x.sendSeq = c.sendSeq
    /\ x.recvSeq = c.recvSeq /\ x.appData = c.appData /\ x.sent = c.sent
    /\ x.tls12 = c.tls12 /\ x.sendOn = c.sendOn /\ x.recvOn = c.recvOn
    /\ x.appKeys = c.appKeys /\ x.ems = c.ems

LEMMA SameStands ==
  ASSUME NEW c, NEW x, Same(c, x), NEW a,
         a.seg \in {"start", "hello", "flight", "plain", "fin", "post", "alerted"}, Stands(c, a)
  PROVE  Stands(x, a)
<1>1. Greeting(c) => Greeting(x)
  BY Zenon DEF Same, Greeting, Waiting
<1>2. ASSUME NEW k, Talking(c, k) PROVE Talking(x, k)
  BY <1>2, Zenon DEF Same, Talking
<1>3. ASSUME NEW n, NEW q, In13(c, n, q) PROVE In13(x, n, q)
  <2>1. CASE n < 6
    BY <1>3, <2>1, Zenon DEF Same, In13, Waiting
  <2>2. CASE ~(n < 6)
    <3>1. Talking(c, "1.3") /\ c.recvSeq = 0
      BY <1>3, <2>2, Zenon DEF In13
    <3>2. Talking(x, "1.3") /\ x.recvSeq = 0
      BY <1>2, <3>1, Zenon DEF Same
    <3> QED BY <2>2, <3>2, Zenon DEF In13
  <2> QED BY <2>1, <2>2, Zenon
<1>4. ASSUME NEW k, NEW n, In12(c, k, n) PROVE In12(x, k, n)
  <2>1. CASE n = 1
    BY <1>1, <1>4, <2>1, Zenon DEF In12
  <2>2. CASE n # 1
    BY <1>4, <2>2, Zenon DEF In12, Same, Waiting
  <2> QED BY <2>1, <2>2, Zenon
<1>5. ASSUME NEW k, NEW q, Finishing12(c, k, q) PROVE Finishing12(x, k, q)
  BY <1>5, Zenon DEF Finishing12, Same, Waiting
<1>6. x.state = c.state /\ x.fail = c.fail /\ x.recvSeq = c.recvSeq
  BY DEF Same
<1>7. CASE a.seg = "start"
  BY <1>1, <1>6, <1>7 DEF Stands
<1>8. CASE a.seg = "hello"
  BY <1>1, <1>3, <1>8 DEF Stands
<1>9. CASE a.seg = "flight"
  BY <1>3, <1>9 DEF Stands
<1>10. CASE a.seg = "plain"
  BY <1>4, <1>10 DEF Stands
<1>11. CASE a.seg = "fin"
  BY <1>5, <1>11 DEF Stands
<1>12. CASE a.seg = "post"
  BY <1>2, <1>6, <1>12 DEF Stands
<1>13. CASE a.seg = "alerted"
  BY <1>6, <1>13 DEF Stands
<1> QED BY <1>7, <1>8, <1>9, <1>10, <1>11, <1>12, <1>13

LEMMA SameOnItsWay ==
  ASSUME NEW c, NEW x, x.appKeys = c.appKeys, x.sendOn = c.sendOn, x.sendSeq = c.sendSeq, NEW u,
         NEW s, OnItsWay(c, u, s)
  PROVE  OnItsWay(x, u, s)
<1>1. SentBy(x, Kind(s)) = SentBy(c, Kind(s))
  BY DEF SentBy
<1> QED BY <1>1, Zenon DEF OnItsWay

LEMMA Pump ==
  ASSUME Setting, IsSeq(wire), NEW at, Path(at, wire, server), IsClient(client),
         OnItsWay(client, up \o client.out, server), ClientAt(client, at[0]),
         client.state # "Fresh", client.appKeys => at[0].seg \in {"post", "alerted"},
         NEW n \in Receivable, NEW d, d = Feed(client, n), TakeFromWire(n)
  PROVE  /\ \E x : Path(x, wire', server) /\ Pumped(client, d, at[0], x[0])
         /\ IsSeq(wire') /\ (Len(wire') = 0 => d.half = 0)
         /\ client.state # "Failed" /\ server.phase # "new"
<1> DEFINE l == Len(wire)
           h == client.half
           m == (h + n) \div 2
           k == (h + n) % 2
           c == WithHalf(client, k)
<1>1. l \in Nat /\ h \in {0, 1} /\ n \in 1..(2 * l - h)
  BY IsSeqFacts DEF IsClient, Receivable
<1>2. m \in 0..l /\ k \in {0, 1} /\ (m = l => k = 0) /\ l > 0
  <2> HIDE DEF l, h
  <2> QED BY <1>1
<1>3. d = FeedRecords(c, m)
  BY DEF Feed, WithHalf
<1>4. wire' = SubSeq(wire, m + 1, l)
  BY DEF TakeFromWire
<1> HIDE DEF m, k
<1>5. IsClient(c) /\ c.half = k /\ Same(client, c) /\ c.out = client.out
  BY <1>2, HalfOnly DEF Same
<1> HIDE DEF c
<1>6. ClientAt(c, at[0])
  <2>1. Stands(client, at[0]) /\ (at[0].seg # "alerted" => client.hs = HeldHalf(at[0]))
    BY Zenon DEF ClientAt
  <2>2. c.hs = client.hs
    BY <1>5 DEF Same
  <2>3. at[0] \in Stages(Kind(server))
    BY <1>1 DEF Path, l
  <2>4. at[0].seg \in {"start", "hello", "flight", "plain", "fin", "post", "alerted"}
    BY <2>3, StageFacts, Zenon
  <2>5. Stands(c, at[0])
    BY <1>5, <2>1, <2>4, SameStands
  <2> QED BY <2>1, <2>2, <2>5, Zenon DEF ClientAt
<1>7. OnItsWay(c, up \o c.out, server)
  <2>1. c.appKeys = client.appKeys /\ c.sendOn = client.sendOn /\ c.sendSeq = client.sendSeq
    BY <1>5, Zenon DEF Same
  <2>2. OnItsWay(c, up \o client.out, server)
    BY <2>1, SameOnItsWay, Zenon
  <2> QED BY <1>5, <2>2
<1>8. c.state # "Fresh" /\ (c.appKeys => at[0].seg \in {"post", "alerted"})
  BY <1>5, Zenon DEF Same
<1>9. Fed(c, d, at[0], at[m])
  BY <1>1, <1>2, <1>3, <1>5, <1>6, <1>7, <1>8, FeedFed DEF l
<1>10. Pumped(client, d, at[0], at[m])
  <2>1. c.sent = client.sent /\ c.sendSeq = client.sendSeq /\ c.appKeys = client.appKeys
        /\ c.appData = client.appData
    BY <1>5, Zenon DEF Same
  <2>2. Synced(client) => Synced(c)
    BY <2>1, Zenon DEF Synced
  <2>3. IsClient(d) /\ d.sent = client.sent /\ (Synced(client) => Synced(d))
        /\ OnItsWay(d, up \o d.out, server)
        /\ (client.appKeys => d.appKeys /\ d.out = client.out)
    BY <1>5, <1>9, <2>1, <2>2, Zenon DEF Fed, Kept
  <2>4. DataAdded(c, d, at[0], at[m]) => DataAdded(client, d, at[0], at[m])
    BY <2>1, Zenon DEF DataAdded
  <2>5. \/ Broken(d)
        \/ /\ ClientAt(d, at[m]) /\ DataAdded(client, d, at[0], at[m]) /\ d.state # "Fresh"
           /\ d.appKeys => at[m].seg \in {"post", "alerted"}
    BY <1>9, <2>4, Zenon DEF Fed
  <2> QED BY <2>3, <2>5, Zenon DEF Pumped
<1>11. \E x : Path(x, wire', server) /\ x[0] = at[m]
  BY <1>2, <1>4, PathAfter DEF l
<1>12. IsSeq(wire') /\ Len(wire') = l - m
  BY <1>2, <1>4, Dropped DEF l
<1>13. Len(wire') = 0 => d.half = 0
  <2> SUFFICES ASSUME Len(wire') = 0 PROVE d.half = 0
    OBVIOUS
  <2>2. l - m = 0
    BY <1>12
  <2>3. k = 0
    BY <1>1, <1>2, <2>2
  <2>4. d.half = c.half
    BY <1>9, Zenon DEF Fed, Kept
  <2> QED BY <1>5, <2>3, <2>4
<1>14. Len(wire) # 0
  BY <1>1, <1>2
<1>15. client.state # "Failed"
  <2>1. at[0].seg # "alerted"
    BY <1>14, AlertIsLast, Zenon
  <2>2. at[0] \in Stages(Kind(server))
    BY <1>1 DEF Path, l
  <2>3. Standing(client, at[0])
    BY <2>2, Stood, Zenon DEF ClientAt
  <2> QED BY <2>1, <2>3 DEF Standing, Talking
<1>16. server.phase # "new"
  BY <1>14, NothingWritten, Zenon
<1> QED BY <1>10, <1>11, <1>12, <1>13, <1>15, <1>16, Zenon

LEMMA Parts ==
  ASSUME ConversationOK
  PROVE  Setting /\ IsClient(client) /\ IsSeq(wire) /\ CallOK
BY Zenon DEF ConversationOK, Setting

(* A step of the client, from a stage of the conversation.                   *)
LEMMA ClientMoves ==
  ASSUME ConversationOK, server' = server, trusted' = trusted, NEW at, Path(at, wire', server),
         IsSeq(wire'), IsClient(client'), ClientAt(client', at[0]),
         client'.appKeys => at[0].seg \in {"post", "alerted"},
         (delivered' \o pending') \o client'.appData = Numbers(at[0].data),
         pending' \in Seq(Nat), delivered' \in Seq(Nat), wanted' \in Nat, IsSeq(up'),
         OnItsWay(client', up' \o client'.out, server), CallOK'
  PROVE  ConversationOK'
<1>1. ServerOK(server') /\ trusted' \in BOOLEAN
  BY Zenon DEF ConversationOK
<1>2. OnItsWay(client', up' \o client'.out, server') /\ Path(at, wire', server')
  BY Zenon
<1>3. Progress'
  BY <1>2 DEF Progress
<1> QED BY <1>1, <1>2, <1>3 DEF ConversationOK

(* The calls that move nothing.                                              *)
LEMMA NothingMoves ==
  ASSUME ConversationOK, UNCHANGED <<client, pending, delivered, trusted, wire, up, fin, server>>,
         call # "closed", wanted' \in Nat, CallOK'
  PROVE  ConversationOK'
<1>1. PICK at : /\ Path(at, wire, server)
                /\ ClientAt(client, at[0])
                /\ delivered \o pending \o client.appData = Numbers(at[0].data)
                /\ client.appKeys => at[0].seg \in {"post", "alerted"}
  BY DEF ConversationOK, GivenUp, Progress
<1>2. /\ IsClient(client) /\ IsSeq(wire) /\ IsSeq(up) /\ pending \in Seq(Nat) /\ delivered \in Seq(Nat)
      /\ OnItsWay(client, up \o client.out, server)
  BY Zenon DEF ConversationOK
<1> QED BY <1>1, <1>2, ClientMoves

LEMMA ConnectGivesUpOK == ConversationOK /\ ConnectGivesUp => ConversationOK'
<1> SUFFICES ASSUME ConversationOK, ConnectGivesUp PROVE ConversationOK'
  OBVIOUS
<1>1. CallOK /\ wanted \in Nat
  BY DEF ConversationOK
<1>2. CallOK'
  BY <1>1 DEF CallOK, ConnectGivesUp, Synced
<1> QED BY <1>1, <1>2, NothingMoves DEF ConnectGivesUp

LEMMA RecvStartsOK == ConversationOK /\ RecvStarts => ConversationOK'
<1> SUFFICES ASSUME ConversationOK, RecvStarts PROVE ConversationOK'
  OBVIOUS
<1>1. CallOK /\ wanted' \in Nat
  BY TlsAssumption DEF ConversationOK, RecvStarts
<1>2. CallOK'
  BY <1>1 DEF CallOK, RecvStarts, Synced
<1> QED BY <1>1, <1>2, NothingMoves DEF RecvStarts

LEMMA RecvEndsOK == ConversationOK /\ (RecvEnds \/ RecvTimesOut) => ConversationOK'
<1> SUFFICES ASSUME ConversationOK, RecvEnds \/ RecvTimesOut PROVE ConversationOK'
  OBVIOUS
<1>1. CallOK /\ wanted \in Nat
  BY DEF ConversationOK
<1>2. CallOK'
  BY <1>1 DEF CallOK, RecvEnds, RecvTimesOut, Synced
<1> QED BY <1>1, <1>2, NothingMoves DEF RecvEnds, RecvTimesOut

(* A client whose records have been sent.                                    *)
Talked(c, x, q, n, e) ==
    /\ IsClient(x) /\ x.out = e /\ x.sendSeq = q /\ x.sent = n
    /\ x.state = c.state /\ x.fail = c.fail /\ x.hs = c.hs /\ x.transcript = c.transcript
    /\ x.sendKey = c.sendKey /\ x.recvKey = c.recvKey /\ x.half = c.half
    /\ x.recvSeq = c.recvSeq /\ x.appData = c.appData
    /\ x.tls12 = c.tls12 /\ x.sendOn = c.sendOn /\ x.recvOn = c.recvOn
    /\ x.appKeys = c.appKeys /\ x.ems = c.ems

LEMMA TalkedIs ==
  ASSUME NEW c, IsClient(c), NEW q \in Nat, NEW n \in Nat, NEW e, IsSeq(e)
  PROVE  Talked(c, [c EXCEPT !.sendSeq = q, !.sent = n, !.out = e], q, n, e)
<1> DEFINE x == [c EXCEPT !.sendSeq = q, !.sent = n, !.out = e]
<1>1. IsClient(x)
  <2> SUFFICES ASSUME NEW d, d = x PROVE IsClient(d)
    OBVIOUS
  <2>1. d.out = e
    BY DEF IsClient
  <2>2. IsSeq(d.out)
    BY <2>1, Zenon
  <2> QED BY <2>2 DEF IsClient
<1>2. /\ x.out = e /\ x.sendSeq = q /\ x.sent = n
      /\ x.state = c.state /\ x.fail = c.fail /\ x.hs = c.hs /\ x.transcript = c.transcript
      /\ x.sendKey = c.sendKey /\ x.recvKey = c.recvKey /\ x.half = c.half
      /\ x.recvSeq = c.recvSeq /\ x.appData = c.appData
  BY DEF IsClient
<1>3. /\ x.tls12 = c.tls12 /\ x.sendOn = c.sendOn /\ x.recvOn = c.recvOn
      /\ x.appKeys = c.appKeys /\ x.ems = c.ems
  BY DEF IsClient
<1> QED BY <1>1, <1>2, <1>3, Zenon DEF Talked

LEMMA SealIs ==
  ASSUME NEW c, IsClient(c), c.sendOn, Len(c.out) = 0, NEW type, NEW body
  PROVE  LET r == Rec(type, c.sendKey, c.sendSeq, body)
         IN  SealRecord(c, type, body) = [c EXCEPT !.out = <<r>>, !.sendSeq = c.sendSeq + 1]
<1> DEFINE r == Rec(type, c.sendKey, c.sendSeq, body)
<1>1. c.out = <<>>
  BY SeqIs DEF IsClient, IsSeq
<1>2. Append(c.out, r) = <<r>>
  <2> HIDE DEF r
  <2>1. Append(<<>>, r) = <<r>>
    OBVIOUS
  <2> QED BY <1>1, <2>1
<1>3. SealRecord(c, type, body) = [c EXCEPT !.out = Append(@, r), !.sendSeq = @ + 1]
  BY Zenon DEF SealRecord
<1> HIDE DEF r
<1>4. [c EXCEPT !.out = Append(@, r), !.sendSeq = @ + 1]
        = [c EXCEPT !.out = Append(c.out, r), !.sendSeq = c.sendSeq + 1]
  BY DEF IsClient
<1> QED BY <1>2, <1>3, <1>4 DEF r

Hello == Rec("hs", Plain, 0, Msg("ClientHello", <<>>))

(* tls.connect                                                               *)
Called(c, x, e) ==
    /\ IsClient(x) /\ x.out = e /\ x.transcript = <<"ClientHello">>
    /\ x.state = "WaitServerHello" /\ x.fail = c.fail /\ x.hs = c.hs /\ x.half = c.half
    /\ x.sendSeq = c.sendSeq /\ x.sent = c.sent /\ x.appData = c.appData
    /\ x.tls12 = c.tls12 /\ x.sendOn = c.sendOn /\ x.recvOn = c.recvOn
    /\ x.appKeys = c.appKeys

LEMMA StartIs ==
  ASSUME NEW c, IsClient(c), ~c.sendOn, Len(c.out) = 0, c.transcript = <<>>,
         NEW e, IsSeq(e)
  PROVE  Start(c).out = <<Hello>> /\ Called(c, [Start(c) EXCEPT !.out = e], e)
<1> DEFINE th == <<"ClientHello">>
           n == [c EXCEPT !.state = "WaitServerHello", !.transcript = th]
           x == [c EXCEPT !.state = "WaitServerHello", !.transcript = th, !.out = e]
           m == Msg("ClientHello", <<>>)
<1>1. c.out = <<>>
  BY SeqIs DEF IsClient, IsSeq
<1>2. Note([c EXCEPT !.state = "WaitServerHello"], m) = n
  <2>1. Append(<<>>, "ClientHello") = th
    OBVIOUS
  <2>2. m.type = "ClientHello"
    BY DEF Msg
  <2>3. [c EXCEPT !.state = "WaitServerHello"].transcript = <<>>
    BY DEF IsClient
  <2> HIDE DEF th, m
  <2> QED BY <2>1, <2>2, <2>3 DEF Note, IsClient
<1> HIDE DEF th
<1>3. ~n.sendOn /\ n.out = <<>>
  <2>1. n.sendOn = c.sendOn
    BY DEF IsClient
  <2>2. n.out = c.out
    BY DEF IsClient
  <2> QED BY <1>1, <2>1, <2>2
<1>4. Start(c) = SealRecord(n, "hs", m)
  BY <1>2, Zenon DEF Start
<1>5. SealRecord(n, "hs", m) = [n EXCEPT !.out = Append(@, Hello)]
  BY <1>3, Zenon DEF SealRecord, Hello
<1> HIDE DEF m, Hello
<1>6. Append(<<>>, Hello) = <<Hello>>
  OBVIOUS
<1>7. [n EXCEPT !.out = Append(@, Hello)] = [n EXCEPT !.out = <<Hello>>]
  <2> HIDE DEF n
  <2>1. Append(n.out, Hello) = <<Hello>>
    BY <1>3, <1>6
  <2> QED BY <2>1
<1>8. Start(c).out = <<Hello>>
  <2>1. [n EXCEPT !.out = <<Hello>>].out = <<Hello>>
    BY DEF IsClient
  <2> QED BY <1>4, <1>5, <1>7, <2>1, Zenon
<1>9. [Start(c) EXCEPT !.out = e] = x
  <2>1. [[n EXCEPT !.out = <<Hello>>] EXCEPT !.out = e] = x
    BY DEF IsClient
  <2>2. Start(c) = [n EXCEPT !.out = <<Hello>>]
    BY <1>4, <1>5, <1>7, Zenon
  <2> QED BY <2>1, <2>2, Zenon
<1>10. Called(c, x, e)
  <2>1. IsClient(x)
    <3> SUFFICES ASSUME NEW d, d = x PROVE IsClient(d)
      OBVIOUS
    <3>1. d.out = e
      BY DEF IsClient
    <3>2. IsSeq(d.out)
      BY <3>1, Zenon
    <3> QED BY <3>2 DEF IsClient
  <2>2. /\ x.out = e /\ x.transcript = th
        /\ x.state = "WaitServerHello" /\ x.fail = c.fail /\ x.hs = c.hs /\ x.half = c.half
        /\ x.sendSeq = c.sendSeq /\ x.sent = c.sent /\ x.appData = c.appData
    BY DEF IsClient
  <2>3. /\ x.tls12 = c.tls12 /\ x.sendOn = c.sendOn /\ x.recvOn = c.recvOn
        /\ x.appKeys = c.appKeys
    BY DEF IsClient
  <2> QED BY <2>1, <2>2, <2>3, Zenon DEF Called, th
<1> QED BY <1>8, <1>9, <1>10

LEMMA ConnectOK == ConversationOK /\ Connect => ConversationOK'
<1> SUFFICES ASSUME ConversationOK, Connect PROVE ConversationOK'
  OBVIOUS
<1>1. /\ call = "none" /\ call' = "connect" /\ client = NewClient /\ up = <<>> /\ server.phase = "new"
      /\ pending = <<>> /\ delivered = <<>> /\ client.appData = <<>> /\ ~fin /\ client.out = <<>>
      /\ Flush(Start(client))
      /\ UNCHANGED <<pending, wanted, delivered, trusted, wire, fin, server>>
  BY DEF ConversationOK, CallOK, Connect
<1>2. PICK at : /\ Path(at, wire, server)
                /\ ClientAt(client, at[0])
                /\ delivered \o pending \o client.appData = Numbers(at[0].data)
                /\ client.appKeys => at[0].seg \in {"post", "alerted"}
  BY <1>1 DEF ConversationOK, GivenUp, Progress
<1>3. /\ IsClient(client) /\ IsSeq(wire) /\ IsSeq(up) /\ pending \in Seq(Nat) /\ delivered \in Seq(Nat)
      /\ wanted \in Nat
  BY Zenon DEF ConversationOK
<1>0. client.fail = "None" /\ client.hs = <<>> /\ client.half = 0 /\ client.sendSeq = 0
      /\ client.sent = 0 /\ client.transcript = <<>>
  BY <1>1 DEF NewClient
<1>a. ~client.tls12 /\ ~client.sendOn /\ ~client.recvOn /\ ~client.appKeys
  BY <1>1 DEF NewClient
<1>b. Start(client).out = <<Hello>> /\ Called(client, [Start(client) EXCEPT !.out = <<>>], <<>>)
  <2>1. Len(client.out) = 0
    BY <1>1
  <2>2. IsSeq(<<>>)
    BY NoneIsSeq
  <2>3. IsClient(client) /\ ~client.sendOn
    BY <1>3, <1>a
  <2> QED BY <1>0, <2>1, <2>2, <2>3, StartIs
<1>4. client' = [Start(client) EXCEPT !.out = <<>>] /\ up' = up \o <<Hello>>
  BY <1>1, <1>b DEF Flush
<1>c. Called(client, client', <<>>)
  BY <1>b, <1>4, Zenon
<1>5. up' = <<Hello>> /\ IsSeq(up')
  <2>1. <<Hello>> \in Seq({Hello})
    OBVIOUS
  <2>2. <<>> \o <<Hello>> = <<Hello>>
    OBVIOUS
  <2>3. up' = <<Hello>>
    BY <1>1, <1>4, <2>2
  <2> QED BY <2>1, <2>3, SeqIs
<1>d. Greeting(client')
  <2>1. <<"ClientHello">> = UpTo(Seen13, 1)
    BY DEF UpTo, Seen13
  <2> QED BY <1>0, <1>1, <1>a, <1>c, <2>1, Zenon DEF Greeting, Waiting, Called
<1>6. at[0] = Stage("start", "", 0, 0, 0)
  BY <1>1, <1>2, <1>3, NothingWritten, Zenon
<1>7. ClientAt(client', at[0])
  <2>1. at[0].seg = "start" /\ at[0].pos = 0
    <3>1. Stage("start", "", 0, 0, 0).seg = "start" /\ Stage("start", "", 0, 0, 0).pos = 0
      BY DEF Stage
    <3> QED BY <1>6, <3>1, Zenon
  <2>2. HeldHalf(at[0]) = <<>>
    BY <2>1 DEF HeldHalf
  <2>3. Stands(client', at[0])
    BY <2>1, <1>d DEF Stands
  <2>4. client'.hs = <<>>
    BY <1>0, <1>c, Zenon DEF Called
  <2> QED BY <2>2, <2>3, <2>4, Zenon DEF ClientAt
<1>8. CallOK'
  <2>1. client'.state = "WaitServerHello" /\ ~client'.appKeys /\ client'.out = <<>>
        /\ client'.appData = <<>> /\ client'.half = 0
    BY <1>0, <1>1, <1>a, <1>c, Zenon DEF Called
  <2> QED BY <1>1, <1>5, <2>1 DEF CallOK, Hello, Synced
<1>9. OnItsWay(client', up' \o client'.out, server)
  BY <1>1 DEF OnItsWay
<1>10. (delivered' \o pending') \o client'.appData = Numbers(at[0].data)
  <2>1. client'.appData = client.appData
    BY <1>c, Zenon DEF Called
  <2> QED BY <1>1, <1>2, <2>1
<1>11. IsClient(client') /\ ~client'.appKeys
  BY <1>a, <1>c, Zenon DEF Called
<1>12. Path(at, wire', server) /\ IsSeq(wire')
  BY <1>1, <1>2, <1>3
<1>13. server' = server /\ trusted' = trusted /\ pending' \in Seq(Nat) /\ delivered' \in Seq(Nat) /\ wanted' \in Nat
  BY <1>1, <1>3
<1> QED BY <1>5, <1>7, <1>8, <1>9, <1>10, <1>11, <1>12, <1>13, ClientMoves, Zenon

(* The stage of a client that has begun and not given up.                    *)
Meets(at) ==
    /\ Path(at, wire, server)
    /\ ClientAt(client, at[0])
    /\ delivered \o pending \o client.appData = Numbers(at[0].data)
    /\ client.appKeys => at[0].seg \in {"post", "alerted"}
    /\ at[0] \in Stages(Kind(server))
    /\ Standing(client, at[0])

LEMMA MeetsNow ==
  ASSUME ConversationOK, call \notin {"none", "closed"}
  PROVE  \E at : Meets(at)
<1>1. PICK at : /\ Path(at, wire, server)
                /\ ClientAt(client, at[0])
                /\ delivered \o pending \o client.appData = Numbers(at[0].data)
                /\ client.appKeys => at[0].seg \in {"post", "alerted"}
  BY DEF ConversationOK, GivenUp, Progress
<1>2. Setting /\ IsSeq(wire) /\ CallOK
  BY Parts, Zenon
<1>3. at[0] \in Stages(Kind(server))
  <2>1. Len(wire) \in Nat
    BY <1>2, IsSeqFacts
  <2> QED BY <1>1, <2>1 DEF Path
<1>4. client.state # "Fresh"
  BY <1>2 DEF CallOK
<1>5. Stands(client, at[0])
  BY <1>1, Zenon DEF ClientAt
<1>6. Standing(client, at[0])
  BY <1>2, <1>3, <1>4, <1>5, Stood, Zenon
<1> QED BY <1>1, <1>3, <1>6, Zenon DEF Meets

(* A client with its keys for data talks to the server, or has had an alert. *)
LEMMA MeetsTalking ==
  ASSUME Setting, IsSeq(wire), NEW at, Meets(at), client.appKeys
  PROVE  /\ at[0].kind = Kind(server) /\ server.phase # "new"
         /\ \/ at[0].seg = "post" /\ Talking(client, Kind(server)) /\ server.version # ""
            \/ at[0].seg = "alerted" /\ server.phase = "alerted" /\ client.state = "Failed"
<1>1. Path(at, wire, server) /\ at[0] \in Stages(Kind(server)) /\ Standing(client, at[0])
      /\ at[0].seg \in {"post", "alerted"}
  BY DEF Meets
<1>2. at[0].kind = Kind(server) /\ (at[0].seg = "post" => server.version # "")
  BY <1>1, StageFacts, Zenon
<1>3. CASE at[0].seg = "post"
  <2>1. Talking(client, Kind(server))
    BY <1>1, <1>2, <1>3 DEF Standing
  <2>2. server.phase # "new"
    <3>1. Stage("start", "", 0, 0, 0).seg = "start"
      BY DEF Stage
    <3>2. server.phase = "new" => at[0].seg = "start"
      BY <1>1, <3>1, NothingWritten, Zenon
    <3> QED BY <1>3, <3>2
  <2> QED BY <1>2, <1>3, <2>1, <2>2
<1>4. CASE at[0].seg = "alerted"
  <2>1. server.phase = "alerted"
    BY <1>1, <1>4, AlertIsLast, Zenon
  <2>2. client.state = "Failed"
    BY <1>1, <1>4 DEF Standing
  <2> QED BY <1>2, <1>4, <2>1, <2>2
<1> QED BY <1>1, <1>3, <1>4

(* All that a stage after the handshake asks of a client.                    *)
SameTalk(c, x) ==
    /\ x.state = c.state /\ x.fail = c.fail /\ x.hs = c.hs
    /\ x.sendKey = c.sendKey /\ x.recvKey = c.recvKey /\ x.recvSeq = c.recvSeq
    /\ x.tls12 = c.tls12 /\ x.sendOn = c.sendOn /\ x.recvOn = c.recvOn /\ x.appKeys = c.appKeys

LEMMA SameTalkStands ==
  ASSUME NEW c, NEW x, SameTalk(c, x), NEW a, a.seg \in {"post", "alerted"}, ClientAt(c, a)
  PROVE  ClientAt(x, a)
<1>1. ASSUME NEW k, Talking(c, k) PROVE Talking(x, k)
  BY <1>1, Zenon DEF SameTalk, Talking
<1>2. x.recvSeq = c.recvSeq /\ x.state = c.state /\ x.fail = c.fail /\ x.hs = c.hs
  BY DEF SameTalk
<1>3. Stands(c, a) /\ (a.seg # "alerted" => c.hs = HeldHalf(a))
  BY Zenon DEF ClientAt
<1>4. CASE a.seg = "post"
  <2>1. Stands(x, a)
    BY <1>1, <1>2, <1>3, <1>4 DEF Stands
  <2> QED BY <1>2, <1>3, <2>1, Zenon DEF ClientAt
<1>5. CASE a.seg = "alerted"
  <2>1. Stands(x, a)
    BY <1>2, <1>3, <1>5 DEF Stands
  <2> QED BY <1>5, <2>1 DEF ClientAt
<1> QED BY <1>4, <1>5

(* Data and close_notify have the number that the server expects next.       *)
LEMMA DataIsNext ==
  ASSUME NEW c, NEW kind, kind = "1.3" \/ kind \in Kinds12, c.appKeys, c.sendOn, c.sent \in Nat,
         c.sendSeq = c.sent + DataBase(kind), NEW r,
         \/ r = Rec("app", ClientKey(kind), c.sendSeq, c.sent + 1)
         \/ r = Rec("alert", ClientKey(kind), c.sendSeq, "close_notify")
  PROVE  IsNth(r, kind, SentBy(c, kind) + 1) /\ SentBy(c, kind) \in Nat
<1> DEFINE n == c.sent + 1
<1>1. SentBy(c, kind) + 1 = Opening(kind) + n /\ SentBy(c, kind) \in Nat /\ Opening(kind) \in Nat
      /\ c.sendSeq = n - 1 + DataBase(kind) /\ n \in Nat /\ n > 0
  BY DEF SentBy, Opening, DataBase, Kinds12
<1>2. \/ r = Rec("app", ClientKey(kind), n - 1 + DataBase(kind), n)
      \/ r = Rec("alert", ClientKey(kind), n - 1 + DataBase(kind), "close_notify")
  BY <1>1
<1> HIDE DEF n
<1>3. IsData(r, kind, n)
  BY <1>2, Zenon DEF IsData
<1>4. Opening(kind) + n > Opening(kind) /\ (Opening(kind) + n) - Opening(kind) = n
  BY <1>1
<1>5. IsNth(r, kind, Opening(kind) + n)
  BY <1>3, <1>4 DEF IsNth
<1> QED BY <1>1, <1>5

LEMMA SentOn ==
  ASSUME ConversationOK, call = "idle", NEW r, NEW q \in Nat, NEW n \in Nat,
         Talked(client, client', q, n, <<>>), up' = up \o <<r>>,
         client.sendOn =>
            /\ q = client.sendSeq + 1
            /\ \/ r = Rec("app", client.sendKey, client.sendSeq, client.sent + 1)
               \/ r = Rec("alert", client.sendKey, client.sendSeq, "close_notify"),
         call' \in {"idle", "closed"}, call' = "idle" => n = client.sent + 1,
         UNCHANGED <<pending, wanted, delivered, trusted, wire, fin, server>>
  PROVE  ConversationOK'
<1> DEFINE kind == Kind(server)
<1>1. Setting /\ IsClient(client) /\ IsSeq(wire) /\ CallOK
  BY Parts, Zenon
<1>2. /\ pending \in Seq(Nat) /\ delivered \in Seq(Nat) /\ wanted \in Nat
      /\ OnItsWay(client, up \o client.out, server)
  BY Zenon DEF ConversationOK
<1>3. PICK at : Meets(at)
  BY MeetsNow
<1>4. /\ client.appKeys /\ client.out = <<>> /\ client.state # "Fresh"
      /\ (client.state # "Failed" => Synced(client)) /\ (wire = <<>> => client.half = 0)
      /\ (fin => server.phase \in {"closed", "alerted"})
  BY <1>1 DEF CallOK
<1>5. /\ at[0].kind = kind /\ server.phase # "new"
      /\ \/ at[0].seg = "post" /\ Talking(client, kind) /\ server.version # ""
         \/ at[0].seg = "alerted" /\ server.phase = "alerted" /\ client.state = "Failed"
  BY <1>1, <1>3, <1>4, MeetsTalking, Zenon
<1>6. /\ IsClient(client') /\ client'.out = <<>> /\ client'.sendSeq = q /\ client'.sent = n
      /\ client'.appData = client.appData /\ client'.half = client.half
      /\ client'.state = client.state
  BY Zenon DEF Talked
<1>7. client'.appKeys = client.appKeys /\ client'.sendOn = client.sendOn
  BY Zenon DEF Talked
<1>8. ClientAt(client', at[0])
  <2>1. SameTalk(client, client')
    BY Zenon DEF Talked, SameTalk
  <2>2. ClientAt(client, at[0]) /\ at[0].seg \in {"post", "alerted"}
    BY <1>3, <1>4 DEF Meets
  <2> QED BY <2>1, <2>2, SameTalkStands
<1>9. IsSeq(up') /\ up' \o client'.out = up \o <<r>>
  <2>1. up' = Append(up, r) /\ IsSeq(Append(up, r))
    BY <1>1, Appended DEF Setting
  <2>2. IsSeq(up')
    BY <2>1
  <2>3. up' \o <<>> = up'
    BY <2>2, JoinedEmpty
  <2> QED BY <1>6, <2>2, <2>3
<1>10. kind = "1.3" \/ kind \in Kinds12 \/ server.version = ""
  BY <1>1 DEF Setting, ServerOK, Kind, IsServer
<1> HIDE DEF kind
<1>11. OnItsWay(client', up' \o client'.out, server) /\ (at[0].seg = "post" /\ n = client.sent + 1 =>
           client'.sendSeq = client'.sent + DataBase(kind))
  <2>1. CASE at[0].seg = "alerted"
    <3>1. server.phase = "alerted"
      BY <1>5, <2>1
    <3> QED BY <3>1, <2>1 DEF OnItsWay
  <2>2. CASE at[0].seg = "post"
    <3>1. Talking(client, kind) /\ server.version # ""
      BY <1>5, <2>2
    <3>2. client.sendOn /\ client.state = "Connected" /\ client.sendKey = ClientKey(kind)
      BY <3>1, Zenon DEF Talking
    <3>3. Synced(client)
      BY <1>4, <3>2
    <3>4. client.sendSeq = client.sent + DataBase(kind)
      BY <1>4, <3>3, Zenon DEF Synced, kind
    <3>5. client.sent \in Nat /\ client.sendSeq \in Nat
      BY <1>1 DEF IsClient
    <3>6. IsNth(r, kind, SentBy(client, kind) + 1) /\ SentBy(client, kind) \in Nat
      BY <1>4, <1>10, <3>1, <3>2, <3>4, <3>5, DataIsNext
    <3>7. q = client.sendSeq + 1
      BY <3>2
    <3>8. SentBy(client', kind) = SentBy(client, kind) + 1
      BY <1>4, <1>6, <1>7, <3>2, <3>5, <3>7 DEF SentBy
    <3>9. OnItsWay(client, up, server)
      <4>1. up \o <<>> = up
        BY <1>1, JoinedEmpty DEF Setting
      <4> QED BY <1>2, <1>4, <4>1
    <3>10. PICK v : v = <<r>> /\ IsSeq(v) /\ Len(v) = 1 /\ v[1] = r
      <4>1. <<r>> \in Seq({r})
        OBVIOUS
      <4>2. IsSeq(<<r>>) /\ Len(<<r>>) = 1 /\ <<r>>[1] = r
        BY <4>1, SeqIs
      <4> QED BY <4>2
    <3>11. \A i \in 1..Len(v) : IsNth(v[i], kind, SentBy(client, kind) + i)
      BY <3>6, <3>10
    <3>12. SentBy(client', kind) = SentBy(client, kind) + Len(v)
      BY <3>8, <3>10
    <3>13. IsSeq(up) /\ kind = Kind(server)
      BY <1>1 DEF Setting, kind
    <3>14. OnItsWay(client', up \o v, server)
      BY <3>6, <3>9, <3>10, <3>11, <3>12, <3>13, SentMore
    <3>15. OnItsWay(client', up' \o client'.out, server)
      BY <1>9, <3>10, <3>14
    <3>16. DataBase(kind) \in Nat
      BY DEF DataBase
    <3>17. n = client.sent + 1 => q = n + DataBase(kind)
      BY <3>4, <3>5, <3>7, <3>16
    <3> QED BY <1>6, <3>15, <3>17
  <2> QED BY <1>5, <2>1, <2>2
<1>12. CallOK'
  <2>1. call' # "closed" /\ client'.state # "Failed" => client'.sendSeq = client'.sent + DataBase(kind)
    BY <1>5, <1>6, <1>11
  <2>2. call' # "closed" /\ client'.state # "Failed" => Synced(client)'
    BY <2>1 DEF Synced, kind
  <2>3. client.state = "Failed" \/ client.state = "Connected"
    BY <1>5, Zenon DEF Talking
  <2>4. call = "idle" /\ call' # "none" /\ call' # "connect" /\ call' # "recv"
    OBVIOUS
  <2> QED BY <1>4, <1>5, <1>6, <1>7, <2>2, <2>3, <2>4 DEF CallOK
<1>13. Path(at, wire', server) /\ IsSeq(wire')
  BY <1>1, <1>3, Zenon DEF Meets
<1>14. client'.appKeys => at[0].seg \in {"post", "alerted"}
  BY <1>5
<1>15. (delivered' \o pending') \o client'.appData = Numbers(at[0].data)
  BY <1>3, <1>6 DEF Meets
<1>16. server' = server /\ trusted' = trusted /\ pending' \in Seq(Nat) /\ delivered' \in Seq(Nat) /\ wanted' \in Nat
  BY <1>2
<1> QED BY <1>6, <1>8, <1>9, <1>11, <1>12, <1>13, <1>14, <1>15, <1>16, ClientMoves, Zenon

LEMMA SealedAs ==
  ASSUME NEW c, IsClient(c), Len(c.out) = 0, NEW type, NEW body
  PROVE  \E r : \E q \in Nat :
           /\ SealRecord(c, type, body) = [c EXCEPT !.out = <<r>>, !.sendSeq = q]
           /\ c.sendOn => r = Rec(type, c.sendKey, c.sendSeq, body) /\ q = c.sendSeq + 1
<1>0. c.sendSeq \in Nat
  BY DEF IsClient
<1>1. CASE c.sendOn
  <2> DEFINE r == Rec(type, c.sendKey, c.sendSeq, body)
             q == c.sendSeq + 1
  <2>1. SealRecord(c, type, body) = [c EXCEPT !.out = <<r>>, !.sendSeq = q]
    BY <1>1, SealIs, ZenonT(40)
  <2>2. q \in Nat
    BY <1>0
  <2> HIDE DEF r, q
  <2> WITNESS r
  <2> WITNESS q \in Nat
  <2> QED BY <2>1 DEF r, q
<1>2. CASE ~c.sendOn
  <2> DEFINE r == Rec(type, Plain, 0, body)
             q == c.sendSeq
  <2>1. SealRecord(c, type, body) = [c EXCEPT !.out = Append(@, r)]
    BY <1>2, Zenon DEF SealRecord
  <2> HIDE DEF r
  <2>2. Append(<<>>, r) = <<r>>
    OBVIOUS
  <2>3. c.out = <<>>
    BY SeqIs DEF IsClient, IsSeq
  <2>4. Append(c.out, r) = <<r>>
    BY <2>2, <2>3
  <2>5. SealRecord(c, type, body) = [c EXCEPT !.out = <<r>>]
    BY <2>1, <2>4
  <2>6. [c EXCEPT !.out = <<r>>] = [c EXCEPT !.out = <<r>>, !.sendSeq = c.sendSeq]
    BY DEF IsClient
  <2> WITNESS r
  <2> WITNESS q \in Nat
  <2> QED BY <1>2, <2>5, <2>6
<1> QED BY <1>1, <1>2

LEMMA SendOK == ConversationOK /\ Send => ConversationOK'
<1> SUFFICES ASSUME ConversationOK, Send PROVE ConversationOK'
  OBVIOUS
<1>1. /\ call = "idle" /\ call' = "idle"
      /\ Flush([SealRecord(client, "app", client.sent + 1) EXCEPT !.sent = @ + 1])
      /\ UNCHANGED <<pending, wanted, delivered, trusted, wire, fin, server>>
  BY DEF Send
<1>2. IsClient(client) /\ Len(client.out) = 0 /\ client.sent \in Nat
  BY <1>1 DEF ConversationOK, CallOK, IsClient
<1>3. PICK r : \E q \in Nat :
           /\ SealRecord(client, "app", client.sent + 1) = [client EXCEPT !.out = <<r>>, !.sendSeq = q]
           /\ client.sendOn => r = Rec("app", client.sendKey, client.sendSeq, client.sent + 1)
                               /\ q = client.sendSeq + 1
  BY <1>2, SealedAs
<1>4. PICK q \in Nat :
           /\ SealRecord(client, "app", client.sent + 1) = [client EXCEPT !.out = <<r>>, !.sendSeq = q]
           /\ client.sendOn => r = Rec("app", client.sendKey, client.sendSeq, client.sent + 1)
                               /\ q = client.sendSeq + 1
  BY <1>3
<1> DEFINE s == SealRecord(client, "app", client.sent + 1)
           n == client.sent + 1
           x == [client EXCEPT !.sendSeq = q, !.sent = n, !.out = <<>>]
<1> HIDE DEF s
<1>5. s = [client EXCEPT !.out = <<r>>, !.sendSeq = q]
  BY <1>4 DEF s
<1>6. [s EXCEPT !.sent = @ + 1].out = <<r>>
  BY <1>2, <1>5 DEF IsClient
<1>7. [[s EXCEPT !.sent = @ + 1] EXCEPT !.out = <<>>] = x
  BY <1>2, <1>5 DEF IsClient
<1>8. client' = x /\ up' = up \o <<r>>
  BY <1>1, <1>6, <1>7, Zenon DEF Flush, s
<1>9. n \in Nat
  BY <1>2
<1>10. Talked(client, x, q, n, <<>>)
  BY <1>2, <1>9, TalkedIs, NoneIsSeq
<1> HIDE DEF n, x
<1>11. Talked(client, client', q, n, <<>>)
  BY <1>8, <1>10, Zenon
<1>12. n = client.sent + 1
  BY DEF n
<1> QED BY <1>1, <1>4, <1>8, <1>9, <1>11, <1>12, SentOn

LEMMA CloseOK == ConversationOK /\ Close => ConversationOK'
<1> SUFFICES ASSUME ConversationOK, Close PROVE ConversationOK'
  OBVIOUS
<1>1. /\ call = "idle" /\ call' = "closed"
      /\ Flush(CloseNotify(client))
      /\ UNCHANGED <<pending, wanted, delivered, trusted, wire, fin, server>>
  BY DEF Close
<1>2. IsClient(client) /\ Len(client.out) = 0 /\ client.out = <<>> /\ client.sent \in Nat
  BY <1>1 DEF ConversationOK, CallOK, IsClient
<1>3. CASE client.sendOn
  <2>1. PICK r : \E q \in Nat :
           /\ SealRecord(client, "alert", "close_notify") = [client EXCEPT !.out = <<r>>, !.sendSeq = q]
           /\ client.sendOn => r = Rec("alert", client.sendKey, client.sendSeq, "close_notify")
                               /\ q = client.sendSeq + 1
    BY <1>2, SealedAs
  <2>2. PICK q \in Nat :
           /\ SealRecord(client, "alert", "close_notify") = [client EXCEPT !.out = <<r>>, !.sendSeq = q]
           /\ client.sendOn => r = Rec("alert", client.sendKey, client.sendSeq, "close_notify")
                               /\ q = client.sendSeq + 1
    BY <2>1
  <2> DEFINE s == SealRecord(client, "alert", "close_notify")
             n == client.sent
             x == [client EXCEPT !.sendSeq = q, !.sent = n, !.out = <<>>]
  <2> HIDE DEF s
  <2>3. s = [client EXCEPT !.out = <<r>>, !.sendSeq = q]
    BY <2>2 DEF s
  <2>4. s.out = <<r>>
    BY <1>2, <2>3 DEF IsClient
  <2>5. [s EXCEPT !.out = <<>>] = x
    BY <1>2, <2>3 DEF IsClient
  <2>6. client' = x /\ up' = up \o <<r>>
    BY <1>1, <1>3, <2>4, <2>5, Zenon DEF Flush, CloseNotify, s
  <2>7. n \in Nat
    BY <1>2
  <2>8. Talked(client, x, q, n, <<>>)
    BY <1>2, <2>7, TalkedIs, NoneIsSeq
  <2> HIDE DEF n, x
  <2>9. Talked(client, client', q, n, <<>>)
    BY <2>6, <2>8, Zenon
  <2> QED BY <1>1, <2>2, <2>6, <2>7, <2>9, SentOn
<1>4. CASE ~client.sendOn
  <2>1. CloseNotify(client) = client
    BY <1>4 DEF CloseNotify
  <2>2. [client EXCEPT !.out = <<>>] = client
    BY <1>2 DEF IsClient
  <2>3. client' = client /\ up' = up \o <<>>
    BY <1>1, <1>2, <2>1, <2>2 DEF Flush
  <2>4. up' = up
    BY <2>3, JoinedEmpty DEF ConversationOK
  <2>5. CallOK /\ wanted \in Nat
    BY DEF ConversationOK
  <2>6. CallOK'
    BY <1>1, <2>3, <2>4, <2>5 DEF CallOK, Synced
  <2> QED BY <1>1, <2>3, <2>4, <2>5, <2>6, NothingMoves
<1> QED BY <1>3, <1>4

(* A client that has handed out what it has decrypted, and sent all of its   *)
(* records.                                                                  *)
Served(c, x, y, e) ==
    /\ IsClient(x) /\ x.appData = y /\ x.out = e /\ x.half = c.half /\ x.transcript = c.transcript
    /\ x.sent = c.sent /\ x.sendSeq = c.sendSeq /\ x.ems = c.ems /\ SameTalk(c, x)

LEMMA ServedIs ==
  ASSUME NEW c, IsClient(c), NEW y \in Seq(Nat), NEW e, IsSeq(e)
  PROVE  Served(c, [c EXCEPT !.appData = y, !.out = e], y, e)
<1> DEFINE x == [c EXCEPT !.appData = y, !.out = e]
<1>1. IsClient(x)
  <2> SUFFICES ASSUME NEW d, d = x PROVE IsClient(d)
    OBVIOUS
  <2>1. d.out = e /\ d.appData = y
    BY DEF IsClient
  <2>2. IsSeq(d.out)
    BY <2>1, Zenon
  <2> QED BY <2>1, <2>2 DEF IsClient
<1>2. /\ x.out = e /\ x.sendSeq = c.sendSeq /\ x.sent = c.sent
      /\ x.state = c.state /\ x.fail = c.fail /\ x.hs = c.hs /\ x.transcript = c.transcript
      /\ x.sendKey = c.sendKey /\ x.recvKey = c.recvKey /\ x.half = c.half
      /\ x.recvSeq = c.recvSeq /\ x.appData = y
  BY DEF IsClient
<1>3. /\ x.tls12 = c.tls12 /\ x.sendOn = c.sendOn /\ x.recvOn = c.recvOn
      /\ x.appKeys = c.appKeys /\ x.ems = c.ems
  BY DEF IsClient
<1> QED BY <1>1, <1>2, <1>3, Zenon DEF Served, SameTalk

LEMMA ServedOn ==
  ASSUME NEW c, NEW x, NEW y, NEW e, Served(c, x, y, e), IsSeq(up'), NEW u, up' \o e = u, OnItsWay(c, u, server)
  PROVE  OnItsWay(x, up' \o x.out, server) /\ (Synced(c) => Synced(x))
<1>1. x.appKeys = c.appKeys /\ x.sendOn = c.sendOn /\ x.sendSeq = c.sendSeq /\ x.sent = c.sent
  BY Zenon DEF Served, SameTalk
<1>2. OnItsWay(x, u, server)
  BY <1>1, SameOnItsWay, Zenon
<1>3. up' \o x.out = u
  BY Zenon DEF Served
<1> QED BY <1>1, <1>2, <1>3, Zenon DEF Synced

(* Data at hand is handed out at once.                                       *)
LEMMA RecvAtOnceOK == ConversationOK /\ RecvAtOnce => ConversationOK'
<1> SUFFICES ASSUME ConversationOK, RecvAtOnce PROVE ConversationOK'
  OBVIOUS
<1>1. /\ call = "idle" /\ call' = "idle"
      /\ UNCHANGED <<wanted, trusted, wire, up, fin, server>>
  BY DEF RecvAtOnce
<1>2. Setting /\ IsClient(client) /\ IsSeq(wire) /\ CallOK
  BY Parts, Zenon
<1>3. /\ pending \in Seq(Nat) /\ delivered \in Seq(Nat) /\ wanted \in Nat
      /\ OnItsWay(client, up \o client.out, server)
  BY Zenon DEF ConversationOK
<1>4. PICK at : Meets(at)
  BY <1>1, MeetsNow
<1>5. PICK max \in MaxBytes :
         IF pending # <<>> THEN HandOut(pending, max) /\ UNCHANGED client
         ELSE HandOut(client.appData, max) /\ client' = [client EXCEPT !.appData = <<>>]
  BY DEF RecvAtOnce
<1>6. max \in Nat
  BY TlsAssumption
<1>7. /\ client.appKeys /\ client.out = <<>> /\ client.state # "Fresh"
      /\ (client.state # "Failed" => Synced(client)) /\ (wire = <<>> => client.half = 0)
      /\ (fin => server.phase \in {"closed", "alerted"})
  BY <1>1, <1>2 DEF CallOK
<1>8. at[0].seg \in {"post", "alerted"} /\ server.phase # "new" /\ ClientAt(client, at[0])
      /\ Path(at, wire', server)
  <2>1. server.phase # "new"
    BY <1>2, <1>4, <1>7, MeetsTalking, Zenon
  <2> QED BY <1>1, <1>4, <1>7, <2>1, Zenon DEF Meets
<1>9. (delivered \o pending) \o client.appData = Numbers(at[0].data)
  BY <1>4, Zenon DEF Meets
<1>10. CASE pending # <<>>
  <2>1. HandOut(pending, max) /\ client' = client
    BY <1>5, <1>10
  <2>2. /\ delivered' \in Seq(Nat) /\ pending' \in Seq(Nat)
        /\ delivered' \o pending' = delivered \o pending
    BY <1>3, <1>6, <2>1, HandedOut
  <2>3. CallOK'
    BY <1>1, <1>2, <2>1 DEF CallOK, Synced
  <2>4. (delivered' \o pending') \o client'.appData = Numbers(at[0].data)
    BY <1>9, <2>1, <2>2
  <2>5. OnItsWay(client', up' \o client'.out, server) /\ IsSeq(up')
    BY <1>1, <1>2, <1>3, <2>1 DEF Setting
  <2> QED BY <1>1, <1>2, <1>3, <1>8, <2>1, <2>2, <2>3, <2>4, <2>5, ClientMoves
<1>11. CASE ~(pending # <<>>)
  <2>1. HandOut(client.appData, max) /\ client' = [client EXCEPT !.appData = <<>>]
    BY <1>5, <1>11
  <2>2. client.appData \in Seq(Nat)
    BY <1>2 DEF IsClient
  <2>3. /\ delivered' \in Seq(Nat) /\ pending' \in Seq(Nat)
        /\ delivered' \o pending' = delivered \o client.appData
    BY <1>3, <1>6, <2>1, <2>2, HandedOut
  <2>4. client' = [client EXCEPT !.appData = <<>>, !.out = <<>>]
    BY <1>2, <1>7, <2>1 DEF IsClient
  <2>5. <<>> \in Seq(Nat)
    OBVIOUS
  <2>6. Served(client, client', <<>>, <<>>)
    BY <1>2, <2>4, <2>5, ServedIs, NoneIsSeq
  <2>7. IsClient(client') /\ client'.appData = <<>> /\ client'.out = <<>> /\ client'.half = client.half
        /\ SameTalk(client, client')
    BY <2>6, Zenon DEF Served
  <2>8. client'.state = client.state /\ client'.appKeys = client.appKeys
    BY <2>7, Zenon DEF SameTalk
  <2>9. IsSeq(up') /\ up' \o <<>> = up'
    BY <1>1, <1>2, JoinedEmpty DEF Setting
  <2>10. OnItsWay(client, up', server)
    BY <1>1, <1>3, <1>7, <2>9
  <2>11. OnItsWay(client', up' \o client'.out, server) /\ (Synced(client) => Synced(client'))
    BY <2>6, <2>9, <2>10, ServedOn
  <2>12. client.state # "Failed" => Synced(client)'
    BY <1>1, <1>7, <2>11 DEF Synced
  <2>13. CallOK'
    BY <1>1, <1>7, <1>8, <2>7, <2>8, <2>12 DEF CallOK
  <2>14. ClientAt(client', at[0])
    BY <1>8, <2>7, SameTalkStands
  <2>15. (delivered' \o pending') \o client'.appData = Numbers(at[0].data)
    <3>1. (delivered \o client.appData) \in Seq(Nat)
      BY <1>3, <2>2
    <3>2. (delivered \o client.appData) \o <<>> = delivered \o client.appData
      BY <3>1, ConcatEmptySeq
    <3>3. delivered \o pending = delivered
      BY <1>3, <1>11, ConcatEmptySeq
    <3> QED BY <1>9, <2>3, <2>7, <3>2, <3>3
  <2> QED BY <1>1, <1>2, <1>3, <1>8, <2>3, <2>7, <2>9, <2>11, <2>13, <2>14, <2>15, ClientMoves
<1> QED BY <1>10, <1>11

(* Where feed has taken a client.                                            *)
Arrives(d, x) ==
    /\ Path(x, wire', server) /\ ClientAt(d, x[0]) /\ Standing(d, x[0])
    /\ (delivered \o pending) \o d.appData = Numbers(x[0].data)
    /\ d.appKeys => x[0].seg \in {"post", "alerted"}

Received(d) ==
    /\ Broken(d) \/ \E x : Arrives(d, x)
    /\ IsClient(d) /\ d.sent = client.sent /\ Synced(d)
    /\ OnItsWay(d, up \o d.out, server)
    /\ client.appKeys => d.appKeys /\ d.out = client.out
    /\ IsSeq(wire') /\ (Len(wire') = 0 => d.half = 0)
    /\ client.state # "Failed" /\ server.phase # "new" /\ d.state # "Fresh"

LEMMA PumpReceives ==
  ASSUME ConversationOK, call \in {"connect", "recv"}, NEW n \in Receivable, TakeFromWire(n)
  PROVE  Received(Feed(client, n))
<1>1. Setting /\ IsClient(client) /\ IsSeq(wire) /\ CallOK
  BY Parts, Zenon
<1>2. /\ pending \in Seq(Nat) /\ delivered \in Seq(Nat)
      /\ OnItsWay(client, up \o client.out, server)
  BY Zenon DEF ConversationOK
<1>3. PICK at : Meets(at)
  BY MeetsNow
<1>4. Path(at, wire, server) /\ ClientAt(client, at[0])
      /\ (client.appKeys => at[0].seg \in {"post", "alerted"})
      /\ (delivered \o pending) \o client.appData = Numbers(at[0].data)
  BY <1>3, Zenon DEF Meets
<1>5. client.state # "Fresh" /\ (client.state # "Failed" => Synced(client))
  BY <1>1 DEF CallOK
<1>6. PICK d : d = Feed(client, n)
  OBVIOUS
<1>7. /\ \E x : Path(x, wire', server) /\ Pumped(client, d, at[0], x[0])
      /\ IsSeq(wire') /\ (Len(wire') = 0 => d.half = 0)
      /\ client.state # "Failed" /\ server.phase # "new"
  BY <1>1, <1>2, <1>4, <1>5, <1>6, Pump
<1>8. PICK x : Path(x, wire', server) /\ Pumped(client, d, at[0], x[0])
  BY <1>7
<1>9. /\ IsClient(d) /\ d.sent = client.sent /\ Synced(d)
      /\ OnItsWay(d, up \o d.out, server)
      /\ (client.appKeys => d.appKeys /\ d.out = client.out)
  BY <1>5, <1>7, <1>8, Zenon DEF Pumped
<1>10. \/ Broken(d)
       \/ /\ ClientAt(d, x[0]) /\ DataAdded(client, d, at[0], x[0]) /\ d.state # "Fresh"
          /\ d.appKeys => x[0].seg \in {"post", "alerted"}
  BY <1>8, Zenon DEF Pumped
<1>11. CASE Broken(d)
  <2>1. d.state # "Fresh"
    BY <1>11 DEF Broken
  <2>2. Received(d)
    BY <1>7, <1>9, <1>11, <2>1, Zenon DEF Received
  <2> QED BY <1>6, <2>2
<1>12. CASE /\ ClientAt(d, x[0]) /\ DataAdded(client, d, at[0], x[0]) /\ d.state # "Fresh"
            /\ d.appKeys => x[0].seg \in {"post", "alerted"}
  <2>1. delivered \o pending \in Seq(Nat)
    BY <1>2, ConcatProperties
  <2>2. (delivered \o pending) \o d.appData = Numbers(x[0].data)
    BY <1>4, <1>12, <2>1, Zenon DEF DataAdded
  <2>3. x[0] \in Stages(Kind(server))
    <3>1. Len(wire') \in Nat
      BY <1>7, IsSeqFacts
    <3> QED BY <1>8, <3>1 DEF Path
  <2>4. Stands(d, x[0])
    BY <1>12, Zenon DEF ClientAt
  <2>5. Standing(d, x[0])
    BY <1>1, <1>12, <2>3, <2>4, Stood, Zenon
  <2>6. Arrives(d, x)
    BY <1>8, <1>12, <2>2, <2>5, Zenon DEF Arrives
  <2>7. Received(d)
    BY <1>7, <1>9, <1>12, <2>6, Zenon DEF Received
  <2> QED BY <1>6, <2>7
<1> QED BY <1>10, <1>11, <1>12

(* A handshake that fails ends tls.connect.                                  *)
LEMMA ConnectFails ==
  ASSUME ConversationOK, call = "connect", NEW d, Received(d), d.state = "Failed",
         client' = d, call' = "closed",
         UNCHANGED <<up, pending, wanted, delivered, trusted, fin, server>>
  PROVE  ConversationOK'
<1>1. Setting /\ IsClient(client) /\ IsSeq(wire) /\ CallOK
  BY Parts, Zenon
<1>2. /\ pending \in Seq(Nat) /\ delivered \in Seq(Nat) /\ wanted \in Nat
  BY Zenon DEF ConversationOK
<1>3. /\ Broken(d) \/ \E x : Arrives(d, x)
      /\ IsClient(d) /\ OnItsWay(d, up \o d.out, server)
      /\ IsSeq(wire') /\ (Len(wire') = 0 => d.half = 0)
      /\ server.phase # "new" /\ d.state # "Fresh"
  BY Zenon DEF Received
<1>4. pending = <<>> /\ delivered = <<>> /\ (fin => server.phase \in {"closed", "alerted"})
  BY <1>1 DEF CallOK
<1>5. CallOK'
  <2>1. wire' = <<>> => d.half = 0
    BY <1>3
  <2> QED BY <1>3, <1>4, <2>1 DEF CallOK
<1>6. OnItsWay(client', up' \o client'.out, server) /\ IsSeq(up')
  BY <1>1, <1>3 DEF Setting
<1>7. CASE Broken(d)
  <2>1. Broken(client)'
    BY <1>7 DEF Broken
  <2>2. GivenUp'
    BY <1>3, <1>4, <2>1 DEF GivenUp
  <2>3. ServerOK(server') /\ trusted' \in BOOLEAN
    BY Zenon DEF ConversationOK
  <2>4. IsClient(client') /\ OnItsWay(client', up' \o client'.out, server')
    BY <1>3, <1>6
  <2> QED BY <1>2, <1>3, <1>5, <1>6, <2>2, <2>3, <2>4 DEF ConversationOK
<1>8. CASE \E x : Arrives(d, x)
  <2>1. PICK x : Arrives(d, x)
    BY <1>8
  <2>2. /\ Path(x, wire', server) /\ ClientAt(client', x[0])
        /\ (client'.appKeys => x[0].seg \in {"post", "alerted"})
        /\ (delivered' \o pending') \o client'.appData = Numbers(x[0].data)
    BY <2>1 DEF Arrives
  <2> QED BY <1>2, <1>3, <1>5, <1>6, <2>2, ClientMoves
<1> QED BY <1>3, <1>7, <1>8

LEMMA ConnectGoesOn ==
  ASSUME ConversationOK, call = "connect", NEW d, Received(d), d.state # "Failed", Flush(d),
         call' = IF d.state = "Connected" THEN "idle" ELSE "connect",
         UNCHANGED <<pending, wanted, delivered, trusted, fin, server>>
  PROVE  ConversationOK'
<1>1. Setting /\ IsClient(client) /\ IsSeq(wire) /\ CallOK
  BY Parts, Zenon
<1>2. /\ pending \in Seq(Nat) /\ delivered \in Seq(Nat) /\ wanted \in Nat
  BY Zenon DEF ConversationOK
<1>3. /\ Broken(d) \/ \E x : Arrives(d, x)
      /\ IsClient(d) /\ OnItsWay(d, up \o d.out, server) /\ Synced(d)
      /\ IsSeq(wire') /\ (Len(wire') = 0 => d.half = 0)
      /\ server.phase # "new" /\ d.state # "Fresh"
  BY Zenon DEF Received
<1>4. pending = <<>> /\ delivered = <<>> /\ (fin => server.phase \in {"closed", "alerted"})
  BY <1>1 DEF CallOK
<1>5. PICK x : Arrives(d, x)
  BY <1>3 DEF Broken
<1>6. /\ Path(x, wire', server) /\ ClientAt(d, x[0]) /\ Standing(d, x[0])
      /\ (delivered \o pending) \o d.appData = Numbers(x[0].data)
      /\ (d.appKeys => x[0].seg \in {"post", "alerted"})
  BY <1>5, Zenon DEF Arrives
<1>7. client' = [d EXCEPT !.out = <<>>] /\ up' = up \o d.out
  BY DEF Flush
<1>8. Served(d, client', d.appData, <<>>)
  <2>1. [d EXCEPT !.out = <<>>] = [d EXCEPT !.appData = d.appData, !.out = <<>>]
    BY <1>3 DEF IsClient
  <2>2. d.appData \in Seq(Nat)
    BY <1>3 DEF IsClient
  <2>3. Served(d, [d EXCEPT !.appData = d.appData, !.out = <<>>], d.appData, <<>>)
    BY <1>3, <2>2, ServedIs, NoneIsSeq
  <2> QED BY <1>7, <2>1, <2>3
<1>9. /\ IsClient(client') /\ client'.appData = d.appData /\ client'.out = <<>>
      /\ client'.half = d.half /\ SameTalk(d, client')
  BY <1>8, Zenon DEF Served
<1>10. /\ client'.state = d.state /\ client'.appKeys = d.appKeys
  BY <1>9, Zenon DEF SameTalk
<1>11. IsSeq(up') /\ up' \o <<>> = up \o d.out
  <2>1. IsSeq(up \o d.out)
    BY <1>1, <1>3, Joined DEF Setting, IsClient
  <2> QED BY <1>7, <2>1, JoinedEmpty
<1>12. OnItsWay(client', up' \o client'.out, server) /\ Synced(client')
  BY <1>3, <1>8, <1>11, ServedOn
<1>13. /\ d.state = "Connected" => d.appKeys
       /\ d.state # "Connected" => d.appData = <<>>
  BY <1>6 DEF Standing, Talking, Waiting
<1>14. Synced(client)'
  BY <1>12 DEF Synced
<1>15. CallOK'
  <2>1. wire' = <<>> => client'.half = 0
    BY <1>3, <1>9
  <2> QED BY <1>3, <1>4, <1>9, <1>10, <1>13, <1>14, <2>1 DEF CallOK
<1>16. ClientAt(client', x[0])
  <2>1. Same(d, client')
    BY <1>8, Zenon DEF Served, SameTalk, Same
  <2>2. x[0] \in Stages(Kind(server))
    <3>1. Len(wire') \in Nat
      BY <1>3, IsSeqFacts
    <3> QED BY <1>6, <3>1 DEF Path
  <2>3. x[0].seg \in {"start", "hello", "flight", "plain", "fin", "post", "alerted"}
    BY <1>1, <2>2, StageFacts, Zenon
  <2>4. Stands(d, x[0]) /\ (x[0].seg # "alerted" => d.hs = HeldHalf(x[0]))
    BY <1>6, Zenon DEF ClientAt
  <2>5. Stands(client', x[0])
    BY <2>1, <2>3, <2>4, SameStands
  <2>6. client'.hs = d.hs
    BY <2>1, Zenon DEF Same
  <2> QED BY <2>4, <2>5, <2>6, Zenon DEF ClientAt
<1>17. (delivered' \o pending') \o client'.appData = Numbers(x[0].data)
  BY <1>6, <1>9
<1>18. client'.appKeys => x[0].seg \in {"post", "alerted"}
  BY <1>6, <1>10
<1> QED BY <1>2, <1>3, <1>6, <1>9, <1>11, <1>12, <1>15, <1>16, <1>17, <1>18, ClientMoves

LEMMA ConnectPumpOK == ConversationOK /\ ConnectPump => ConversationOK'
<1> SUFFICES ASSUME ConversationOK, ConnectPump PROVE ConversationOK'
  OBVIOUS
<1>1. call = "connect" /\ UNCHANGED <<pending, wanted, delivered, trusted, fin, server>>
  BY DEF ConnectPump
<1>2. PICK n \in Receivable :
         LET c == Feed(client, n)
         IN  /\ TakeFromWire(n)
             /\ IF c.state = "Failed"
                THEN client' = c /\ call' = "closed" /\ UNCHANGED up
                ELSE /\ Flush(c)
                     /\ call' = IF c.state = "Connected" THEN "idle" ELSE "connect"
  BY DEF ConnectPump
<1>3. PICK d : d = Feed(client, n)
  OBVIOUS
<1>4. Received(d)
  BY <1>1, <1>2, <1>3, PumpReceives
<1>5. CASE d.state = "Failed"
  <2>1. client' = d /\ call' = "closed" /\ up' = up
    BY <1>2, <1>3, <1>5
  <2> QED BY <1>1, <1>4, <1>5, <2>1, ConnectFails
<1>6. CASE d.state # "Failed"
  <2>1. Flush(d) /\ call' = IF d.state = "Connected" THEN "idle" ELSE "connect"
    BY <1>2, <1>3, <1>6
  <2> QED BY <1>1, <1>4, <1>6, <2>1, ConnectGoesOn
<1> QED BY <1>5, <1>6

(* A failure is thrown by recv; the socket stays.                            *)
LEMMA RecvFails ==
  ASSUME ConversationOK, call = "recv", NEW d, Received(d), d.state = "Failed",
         client' = d, call' = "idle",
         UNCHANGED <<up, pending, wanted, delivered, trusted, fin, server>>
  PROVE  ConversationOK'
<1>1. Setting /\ IsClient(client) /\ IsSeq(wire) /\ CallOK
  BY Parts, Zenon
<1>2. /\ pending \in Seq(Nat) /\ delivered \in Seq(Nat) /\ wanted \in Nat
  BY Zenon DEF ConversationOK
<1>3. client.appKeys /\ client.out = <<>> /\ (fin => server.phase \in {"closed", "alerted"})
  BY <1>1 DEF CallOK
<1>4. /\ Broken(d) \/ \E x : Arrives(d, x)
      /\ IsClient(d) /\ OnItsWay(d, up \o d.out, server)
      /\ IsSeq(wire') /\ (Len(wire') = 0 => d.half = 0)
      /\ server.phase # "new" /\ d.state # "Fresh" /\ d.appKeys /\ d.out = <<>>
  BY <1>3, Zenon DEF Received
<1>5. PICK x : Arrives(d, x)
  BY <1>4 DEF Broken
<1>6. CallOK'
  <2>1. wire' = <<>> => d.half = 0
    BY <1>4
  <2> QED BY <1>3, <1>4, <2>1 DEF CallOK
<1>7. /\ Path(x, wire', server) /\ ClientAt(client', x[0])
      /\ (client'.appKeys => x[0].seg \in {"post", "alerted"})
      /\ (delivered' \o pending') \o client'.appData = Numbers(x[0].data)
  BY <1>5 DEF Arrives
<1>8. OnItsWay(client', up' \o client'.out, server) /\ IsSeq(up')
  BY <1>1, <1>4 DEF Setting
<1> QED BY <1>2, <1>4, <1>6, <1>7, <1>8, ClientMoves

(* What was decrypted is handed out, or the call reads on.                   *)
LEMMA RecvGoesOn ==
  ASSUME ConversationOK, call = "recv", NEW d, Received(d), d.state # "Failed",
         Flush([d EXCEPT !.appData = <<>>]), HandOut(d.appData, wanted),
         call' = IF d.appData = <<>> THEN "recv" ELSE "idle",
         UNCHANGED <<wanted, trusted, fin, server>>
  PROVE  ConversationOK'
<1>1. Setting /\ IsClient(client) /\ IsSeq(wire) /\ CallOK
  BY Parts, Zenon
<1>2. /\ pending \in Seq(Nat) /\ delivered \in Seq(Nat) /\ wanted \in Nat
  BY Zenon DEF ConversationOK
<1>3. client.appKeys /\ client.out = <<>> /\ pending = <<>>
      /\ (fin => server.phase \in {"closed", "alerted"})
  BY <1>1 DEF CallOK
<1>4. /\ Broken(d) \/ \E x : Arrives(d, x)
      /\ IsClient(d) /\ OnItsWay(d, up \o d.out, server) /\ Synced(d)
      /\ IsSeq(wire') /\ (Len(wire') = 0 => d.half = 0)
      /\ server.phase # "new" /\ d.state # "Fresh" /\ d.appKeys /\ d.out = <<>>
  BY <1>3, Zenon DEF Received
<1>5. PICK x : Arrives(d, x)
  BY <1>4 DEF Broken
<1>6. /\ Path(x, wire', server) /\ ClientAt(d, x[0])
      /\ (delivered \o pending) \o d.appData = Numbers(x[0].data)
      /\ x[0].seg \in {"post", "alerted"}
  BY <1>4, <1>5, Zenon DEF Arrives
<1>7. d.appData \in Seq(Nat)
  BY <1>4 DEF IsClient
<1>8. client' = [d EXCEPT !.appData = <<>>, !.out = <<>>] /\ up' = up \o d.out
  <2>1. [[d EXCEPT !.appData = <<>>] EXCEPT !.out = <<>>] = [d EXCEPT !.appData = <<>>, !.out = <<>>]
    BY <1>4 DEF IsClient
  <2>2. [d EXCEPT !.appData = <<>>].out = d.out
    BY <1>4 DEF IsClient
  <2> QED BY <2>1, <2>2 DEF Flush
<1>9. /\ delivered' \in Seq(Nat) /\ pending' \in Seq(Nat)
      /\ delivered' \o pending' = delivered \o d.appData
      /\ Len(d.appData) = 0 => Len(pending') = 0
  BY <1>2, <1>7, HandedOut
<1>10. Served(d, client', <<>>, <<>>)
  <2>1. <<>> \in Seq(Nat)
    OBVIOUS
  <2> QED BY <1>4, <1>8, <2>1, ServedIs, NoneIsSeq
<1>11. /\ IsClient(client') /\ client'.appData = <<>> /\ client'.out = <<>>
       /\ client'.half = d.half /\ SameTalk(d, client')
  BY <1>10, Zenon DEF Served
<1>12. /\ client'.state = d.state /\ client'.appKeys = d.appKeys
  BY <1>11, Zenon DEF SameTalk
<1>13. IsSeq(up') /\ up' \o <<>> = up \o d.out
  <2>1. IsSeq(up \o d.out)
    BY <1>1, <1>4, Joined DEF Setting, IsClient
  <2> QED BY <1>8, <2>1, JoinedEmpty
<1>14. OnItsWay(client', up' \o client'.out, server) /\ Synced(client')
  BY <1>4, <1>10, <1>13, ServedOn
<1>15. Synced(client)'
  BY <1>14 DEF Synced
<1>16. CallOK'
  <2>1. wire' = <<>> => client'.half = 0
    BY <1>4, <1>11
  <2>2. d.appData = <<>> => pending' = <<>>
    <3>1. pending' \in Seq(Nat) /\ Len(pending') = 0 => pending' = <<>>
      OBVIOUS
    <3>2. d.appData = <<>> => Len(d.appData) = 0
      OBVIOUS
    <3> QED BY <1>9, <3>1, <3>2
  <2>3. client'.appKeys /\ client'.state # "Fresh" /\ server'.phase # "new"
    BY <1>4, <1>12
  <2>4. call' \in {"idle", "recv"} /\ (call' = "recv" => pending' = <<>>)
    BY <2>2
  <2> QED BY <1>3, <1>11, <1>15, <2>1, <2>3, <2>4 DEF CallOK
<1>17. ClientAt(client', x[0])
  BY <1>6, <1>11, SameTalkStands
<1>18. (delivered' \o pending') \o client'.appData = Numbers(x[0].data)
  <2>1. delivered \o pending = delivered
    BY <1>2, <1>3, ConcatEmptySeq
  <2>2. delivered \o d.appData \in Seq(Nat)
    BY <1>2, <1>7, ConcatProperties
  <2>3. (delivered \o d.appData) \o <<>> = delivered \o d.appData
    BY <2>2, ConcatEmptySeq
  <2> QED BY <1>6, <1>9, <1>11, <2>1, <2>3
<1> QED BY <1>2, <1>4, <1>6, <1>9, <1>11, <1>13, <1>14, <1>16, <1>17, <1>18, ClientMoves

LEMMA RecvPumpOK == ConversationOK /\ RecvPump => ConversationOK'
<1> SUFFICES ASSUME ConversationOK, RecvPump PROVE ConversationOK'
  OBVIOUS
<1>1. call = "recv" /\ UNCHANGED <<wanted, trusted, fin, server>>
  BY DEF RecvPump
<1>2. PICK n \in Receivable :
         LET c == Feed(client, n)
         IN  /\ TakeFromWire(n)
             /\ IF c.state = "Failed"
                THEN client' = c /\ call' = "idle" /\ UNCHANGED <<up, pending, delivered>>
                ELSE /\ Flush([c EXCEPT !.appData = <<>>])
                     /\ HandOut(c.appData, wanted)
                     /\ call' = IF c.appData = <<>> THEN "recv" ELSE "idle"
  BY DEF RecvPump
<1>3. PICK d : d = Feed(client, n)
  OBVIOUS
<1>4. Received(d)
  BY <1>1, <1>2, <1>3, PumpReceives
<1>5. CASE d.state = "Failed"
  <2>1. client' = d /\ call' = "idle" /\ UNCHANGED <<up, pending, delivered>>
    BY <1>2, <1>3, <1>5
  <2> QED BY <1>1, <1>4, <1>5, <2>1, RecvFails
<1>6. CASE d.state # "Failed"
  <2>1. /\ Flush([d EXCEPT !.appData = <<>>]) /\ HandOut(d.appData, wanted)
        /\ call' = IF d.appData = <<>> THEN "recv" ELSE "idle"
    BY <1>2, <1>3, <1>6
  <2> QED BY <1>1, <1>4, <1>6, <2>1, RecvGoesOn
<1> QED BY <1>5, <1>6

-----------------------------------------------------------------------------
(* The steps of the server.                                                  *)

(* A step of the server, that writes v.                                      *)
LEMMA ServerWrites ==
  ASSUME ConversationOK, call # "none", UNCHANGED <<client, call, pending, wanted, delivered, trusted>>,
         NEW v, IsSeq(v), wire' = wire \o v, ServerOK(server'), server'.phase # "new",
         Kind(server') = Kind(server), server'.version = server.version,
         server'.halves = server.halves, server.sent <= server'.sent,
         RouteFrom(v, Kind(server'), server'.halves, server'.sent, ServerStage(server), ServerStage(server')),
         IsSeq(up'), OnItsWay(client, up' \o client.out, server'),
         fin' => server'.phase \in {"closed", "alerted"}
  PROVE  ConversationOK'
<1>1. Setting /\ IsClient(client) /\ IsSeq(wire) /\ CallOK
  BY Parts, Zenon
<1>2. /\ pending \in Seq(Nat) /\ delivered \in Seq(Nat) /\ wanted \in Nat /\ trusted \in BOOLEAN
  BY Zenon DEF ConversationOK
<1>3. IsSeq(wire') /\ (Len(wire') = 0 => Len(wire) = 0)
  <2>1. IsSeq(wire \o v) /\ Len(wire \o v) = Len(wire) + Len(v) /\ Len(wire) \in Nat /\ Len(v) \in Nat
    BY <1>1, Joined, IsSeqFacts
  <2> QED BY <2>1
<1>4. CallOK'
  <2>1. Len(wire) = 0 => client.half = 0
    <3>1. Len(wire) = 0 => wire = <<>>
      BY <1>1 DEF IsSeq
    <3> QED BY <1>1, <3>1 DEF CallOK
  <2>2. wire' = <<>> => client'.half = 0
    BY <1>3, <2>1
  <2>3. Synced(client) => Synced(client)'
    BY Zenon DEF Synced
  <2> QED BY <1>1, <2>2, <2>3 DEF CallOK
<1>5. GivenUp => GivenUp'
  BY DEF GivenUp, Broken
<1>6. Progress => Progress'
  <2> SUFFICES ASSUME Progress PROVE Progress'
    OBVIOUS
  <2>1. PICK at : /\ Path(at, wire, server)
                  /\ ClientAt(client, at[0])
                  /\ delivered \o pending \o client.appData = Numbers(at[0].data)
                  /\ client.appKeys => at[0].seg \in {"post", "alerted"}
    BY DEF Progress
  <2>2. server.sent \in Nat /\ server'.sent \in Nat
    BY <1>1 DEF Setting, ServerOK, IsServer
  <2>3. \E x : Path(x, wire \o v, server') /\ x[0] = at[0]
    BY <1>1, <2>1, <2>2, RouteWritten
  <2>4. PICK x : Path(x, wire', server') /\ x[0] = at[0]
    BY <2>3
  <2> QED BY <2>1, <2>4 DEF Progress
<1>7. IsClient(client') /\ OnItsWay(client', up' \o client'.out, server')
  BY <1>1
<1> QED BY <1>2, <1>3, <1>4, <1>5, <1>6, <1>7 DEF ConversationOK

(* All of the server that what is on its way to it depends on.               *)
SameReader(s, t) ==
    /\ t.version = s.version /\ t.transcript = s.transcript /\ t.sendKey = s.sendKey
    /\ t.recvKey = s.recvKey /\ t.recvSeq = s.recvSeq /\ t.got = s.got
    /\ t.halves = s.halves /\ t.recvOn = s.recvOn /\ t.rejects = s.rejects

LEMMA SameReaderKind ==
  ASSUME NEW s, NEW t, SameReader(s, t)
  PROVE  Kind(t) = Kind(s)
BY DEF SameReader, Kind

LEMMA SameReaderReads ==
  ASSUME NEW s, NEW t, SameReader(s, t), t.phase = s.phase, NEW c, NEW u, OnItsWay(c, u, s)
  PROVE  OnItsWay(c, u, t)
<1>1. Kind(t) = Kind(s)
  BY SameReaderKind, Zenon
<1>2. ASSUME NEW n, HasRead13(s, n) PROVE HasRead13(t, n)
  BY <1>2, Zenon DEF HasRead13, SameReader
<1>3. ASSUME NEW k, NEW n, HasRead12(s, k, n) PROVE HasRead12(t, k, n)
  BY <1>3, Zenon DEF HasRead12, SameReader
<1>4. ASSUME NEW n, HasRead(s, n) PROVE HasRead(t, n)
  BY <1>1, <1>2, <1>3, <1>4, Zenon DEF HasRead, SameReader
<1> QED BY <1>1, <1>4, Zenon DEF OnItsWay

(* A server that has sealed one more record.                                 *)
Sealed1(s, t, q, n, p) ==
    /\ IsServer(t) /\ SameReader(s, t)
    /\ t.sendSeq = q /\ t.sent = n /\ t.phase = p

ServerRecord(t) ==
    t = [phase |-> t.phase, version |-> t.version, halves |-> t.halves,
         transcript |-> t.transcript, sendKey |-> t.sendKey, recvKey |-> t.recvKey,
         sendSeq |-> t.sendSeq, recvSeq |-> t.recvSeq, recvOn |-> t.recvOn,
         sent |-> t.sent, got |-> t.got, ticket |-> t.ticket, rejects |-> t.rejects]

SentOne(s, q, n, p, b) == [s EXCEPT !.sendSeq = q, !.sent = n, !.phase = p, !.ticket = b]

LEMMA SentOneIs ==
  ASSUME NEW s, IsServer(s), NEW q, NEW n, NEW p, NEW b
  PROVE  LET t == SentOne(s, q, n, p, b)
         IN  /\ ServerRecord(t)
             /\ SameReader(s, t) /\ t.sendSeq = q /\ t.sent = n /\ t.phase = p
<1> DEFINE t == SentOne(s, q, n, p, b)
<1>1. ServerRecord(t)
  <2> SUFFICES ASSUME NEW u, u = t PROVE ServerRecord(u)
    OBVIOUS
  <2> QED BY DEF IsServer, ServerRecord, SentOne
<1>2. t.recvOn = s.recvOn
  BY DEF IsServer, SentOne
<1>3. t.rejects = s.rejects
  BY DEF IsServer, SentOne
<1>4. /\ t.version = s.version /\ t.transcript = s.transcript /\ t.sendKey = s.sendKey
      /\ t.recvKey = s.recvKey /\ t.recvSeq = s.recvSeq /\ t.got = s.got
      /\ t.halves = s.halves /\ t.sendSeq = q /\ t.sent = n /\ t.phase = p
  BY DEF IsServer, SentOne
<1> QED BY <1>1, <1>2, <1>3, <1>4, Zenon DEF SameReader

Phases == {"new", "answered", "ready", "peer closed", "closed", "alerted"}

LEMMA Sealed1Is ==
  ASSUME NEW s, IsServer(s), NEW q \in Nat, NEW n \in Nat, NEW p \in Phases, NEW b
  PROVE  Sealed1(s, SentOne(s, q, n, p, b), q, n, p)
<1> DEFINE t == SentOne(s, q, n, p, b)
<1>1. /\ ServerRecord(t)
      /\ SameReader(s, t) /\ t.sendSeq = q /\ t.sent = n /\ t.phase = p
  BY SentOneIs
<1> HIDE DEF t
<1>2. t.version = s.version /\ t.halves = s.halves
  BY <1>1, Zenon DEF SameReader
<1>3. t.recvOn = s.recvOn
  BY <1>1, Zenon DEF SameReader
<1>4. s.version \in {"", "1.2", "1.3"} /\ s.halves \in Nat
  BY Zenon DEF IsServer
<1>5. s.recvOn \in BOOLEAN
  BY Zenon DEF IsServer
<1>6. t.version \in {"", "1.2", "1.3"} /\ t.halves \in Nat
  BY <1>2, <1>4
<1>7. t.recvOn \in BOOLEAN
  BY <1>3, <1>5, Zenon
<1>8. t.phase \in {"new", "answered", "ready", "peer closed", "closed", "alerted"}
  BY <1>1 DEF Phases
<1>9. t.sendSeq \in Nat /\ t.sent \in Nat
  BY <1>1
<1>10. IsServer(t)
  BY <1>1, <1>6, <1>7, <1>8, <1>9, Zenon DEF IsServer, ServerRecord
<1>11. Sealed1(s, t, q, n, p)
  BY <1>1, <1>10, Zenon DEF Sealed1
<1> QED BY <1>11 DEF t

LEMMA PostStages ==
  ASSUME NEW kind, kind = "1.3" \/ kind \in Kinds12, NEW q \in Nat, NEW n \in Nat
  PROVE  Stage("post", kind, 0, q, n) \in Stages(kind) /\ Stage("alerted", kind, 0, 0, n) \in Stages(kind)
<1>1. "post" \in Segments(kind) /\ "alerted" \in Segments(kind)
  BY DEF Segments, Kinds12
<1> QED BY <1>1 DEF Stages, Stage

LEMMA KindIs ==
  ASSUME NEW s, ServerOK(s), s.version # ""
  PROVE  /\ Kind(s) = "1.3" \/ Kind(s) \in Kinds12
         /\ s.version = "1.3" => Kind(s) = "1.3"
         /\ s.version = "1.2" => Kind(s) \in Kinds12
         /\ s.version \in {"1.2", "1.3"}
BY DEF ServerOK, IsServer, Kind

StageAfter(p, kind, q, n) ==
    IF p = "alerted" THEN Stage("alerted", kind, 0, 0, n) ELSE Stage("post", kind, 0, q, n)

Ends(s, p) == p = s.phase \/ p \in {"closed", "alerted"}
Sealing(s) ==
    /\ s.phase \in {"answered", "ready", "peer closed"}
    /\ s.version = "1.2" => s.phase # "answered"

(* A record after the server's handshake.                                    *)
LEMMA ServerSeals ==
  ASSUME ConversationOK, UNCHANGED <<client, call, pending, wanted, delivered, trusted, up, fin>>,
         NEW r, wire' = wire \o <<r>>, NEW n \in Nat, NEW q \in Nat, NEW p,
         q = server.sendSeq + 1, Sealed1(server, server', q, n, p),
         Sealing(server), Ends(server, p), server.sent <= n,
         Later(r, Stage("post", Kind(server), 0, server.sendSeq, server.sent),
               StageAfter(p, Kind(server), q, n))
  PROVE  ConversationOK'
<1> DEFINE kind == Kind(server)
           a == Stage("post", kind, 0, server.sendSeq, server.sent)
           b == StageAfter(p, kind, q, n)
<1>1. Setting /\ IsClient(client) /\ IsSeq(wire) /\ CallOK
  BY Parts, Zenon
<1>2. ServerOK(server) /\ IsSeq(up) /\ server.sendSeq \in Nat /\ server.sent \in Nat
  BY <1>1 DEF Setting, ServerOK, IsServer
<1>0. /\ server.phase \in {"answered", "ready", "peer closed"}
      /\ server.version = "1.2" => server.phase # "answered"
      /\ p = server.phase \/ p \in {"closed", "alerted"}
  BY DEF Sealing, Ends
<1>3. server.version # "" /\ call # "none" /\ ~fin
  BY <1>0, <1>1, <1>2 DEF ServerOK, CallOK
<1>4. /\ IsServer(server') /\ SameReader(server, server')
      /\ server'.sendSeq = q /\ server'.sent = n /\ server'.phase = p
  BY Zenon DEF Sealed1
<1>5. /\ server'.version = server.version /\ server'.transcript = server.transcript
      /\ server'.sendKey = server.sendKey /\ server'.got = server.got
      /\ server'.halves = server.halves
  BY <1>4, Zenon DEF SameReader
<1>6. server'.rejects = server.rejects
  BY <1>4, Zenon DEF SameReader
<1>7. Kind(server') = kind
  BY <1>4, SameReaderKind, Zenon
<1>8. kind = "1.3" \/ kind \in Kinds12
  BY <1>2, <1>3, KindIs
<1> HIDE DEF kind
<1>9. ServerStage(server) = a
  BY <1>0, <1>3 DEF ServerStage, kind
<1>10. ServerStage(server') = b
  BY <1>0, <1>4, <1>5, <1>7 DEF ServerStage, StageAfter
<1>11. a \in Stages(kind) /\ b \in Stages(kind) /\ a.data <= n /\ b.data <= n
  <2>1. a \in Stages(kind) /\ Stage("alerted", kind, 0, 0, n) \in Stages(kind)
        /\ Stage("post", kind, 0, q, n) \in Stages(kind)
    BY <1>2, <1>8, PostStages
  <2>2. a.data = server.sent
    BY DEF Stage
  <2>3. b.data = n
    BY DEF Stage, StageAfter
  <2>4. b \in Stages(kind)
    BY <2>1, Zenon DEF StageAfter
  <2>5. a \in Stages(kind)
    BY <2>1
  <2> HIDE DEF a, b
  <2>6. n <= n
    OBVIOUS
  <2>7. a.data <= n
    BY <2>2, Zenon
  <2>8. b.data <= n
    BY <2>3, <2>6, Zenon
  <2> QED BY <2>4, <2>5, <2>7, <2>8, Zenon
<1>12. Later(r, a, b)
  BY DEF kind
<1>13. p \in Phases /\ p # "new"
  BY <1>0 DEF Phases
<1> HIDE DEF a, b
<1>14. Takes(r, a, b, server.halves)
  BY <1>12, Zenon DEF Takes
<1>15. RouteFrom(<<r>>, kind, server.halves, n, a, b) /\ IsSeq(<<r>>)
  BY <1>11, <1>14, RouteOne, Zenon
<1>16. ServerOK(server')
  <2>1. server.version = "1.2" => p # "answered"
    BY <1>0
  <2>2. /\ ~server.rejects /\ Len(server.got) \in Nat /\ server.got = Numbers(Len(server.got))
        /\ server.version = "1.3" => server.sendKey = ServerKey("1.3") /\ server.halves > 0
        /\ server.version = "1.2" => kind \in Kinds12 /\ server.halves > 0
        /\ server.version = "1.2" /\ server.phase # "answered" => server.sendKey = ServerKey(kind)
    BY <1>2, Zenon DEF ServerOK, kind
  <2>3. ~server'.rejects /\ Len(server'.got) \in Nat /\ server'.got = Numbers(Len(server'.got))
    BY <1>5, <1>6, <2>2, Zenon
  <2>4. server'.version = "1.3" =>
           server'.phase # "new" /\ server'.sendKey = ServerKey("1.3") /\ server'.halves > 0
    BY <1>4, <1>5, <1>13, <2>2
  <2>5. server'.version = "1.2" =>
          /\ server'.phase # "new" /\ Kind(server') \in Kinds12 /\ server'.halves > 0
          /\ server'.phase # "answered" => server'.sendKey = ServerKey(Kind(server'))
          /\ server'.phase = "answered" => server'.sent = 0
    BY <1>0, <1>4, <1>5, <1>7, <1>13, <2>1, <2>2
  <2>6. server'.phase # "new" /\ server'.version # ""
    BY <1>3, <1>4, <1>5, <1>13
  <2> QED BY <1>4, <2>3, <2>4, <2>5, <2>6, Zenon DEF ServerOK
<1>17. OnItsWay(client, up' \o client.out, server')
  <2>1. OnItsWay(client, up \o client.out, server)
    BY Zenon DEF ConversationOK
  <2>2. CASE p = server.phase
    <3>1. OnItsWay(client, up \o client.out, server')
      BY <1>4, <2>1, <2>2, SameReaderReads
    <3> QED BY <3>1
  <2>3. CASE p \in {"closed", "alerted"}
    BY <1>4, <2>3 DEF OnItsWay
  <2> QED BY <1>0, <2>2, <2>3
<1>18. Kind(server') = Kind(server) /\ server'.phase # "new" /\ server.sent <= server'.sent
  BY <1>4, <1>7, <1>13 DEF kind
<1>19. RouteFrom(<<r>>, Kind(server'), server'.halves, server'.sent, ServerStage(server), ServerStage(server'))
  BY <1>4, <1>5, <1>7, <1>9, <1>10, <1>15, Zenon
<1> DEFINE v == <<r>>
<1>20. IsSeq(v) /\ wire' = wire \o v
       /\ RouteFrom(v, Kind(server'), server'.halves, server'.sent, ServerStage(server), ServerStage(server'))
  BY <1>15, <1>19
<1> HIDE DEF v
<1>21. IsSeq(up') /\ (fin' => server'.phase \in {"closed", "alerted"})
  BY <1>2, <1>3
<1> QED BY <1>3, <1>5, <1>16, <1>17, <1>18, <1>20, <1>21, ServerWrites

LEMMA SentOneSays ==
  ASSUME NEW s, IsServer(s), NEW q, q = s.sendSeq + 1
  PROVE  /\ \A n : [[s EXCEPT !.sendSeq = @ + 1] EXCEPT !.sent = n] = SentOne(s, q, n, s.phase, s.ticket)
         /\ \A b : [[s EXCEPT !.sendSeq = @ + 1] EXCEPT !.ticket = b] = SentOne(s, q, s.sent, s.phase, b)
         /\ \A p : [[s EXCEPT !.sendSeq = @ + 1] EXCEPT !.phase = p] = SentOne(s, q, s.sent, p, s.ticket)
<1>1. \A n : [[s EXCEPT !.sendSeq = @ + 1] EXCEPT !.sent = n] = SentOne(s, q, n, s.phase, s.ticket)
  BY DEF IsServer, SentOne
<1>2. \A b : [[s EXCEPT !.sendSeq = @ + 1] EXCEPT !.ticket = b] = SentOne(s, q, s.sent, s.phase, b)
  BY DEF IsServer, SentOne
<1>3. \A p : [[s EXCEPT !.sendSeq = @ + 1] EXCEPT !.phase = p] = SentOne(s, q, s.sent, p, s.ticket)
  BY DEF IsServer, SentOne
<1> QED BY <1>1, <1>2, <1>3

(* What the server has when it seals.                                        *)
LEMMA SealingHas ==
  ASSUME ConversationOK, Sealing(server)
  PROVE  /\ IsServer(server) /\ ServerOK(server)
         /\ server.sendSeq \in Nat /\ server.sent \in Nat /\ server.phase \in Phases
         /\ server.version # "" /\ server.sendKey = ServerKey(Kind(server))
         /\ server.version = "1.3" => Kind(server) = "1.3"
<1>1. Setting
  BY Parts, Zenon
<1>2. ServerOK(server) /\ IsServer(server)
  BY <1>1 DEF Setting, ServerOK
<1>3. server.sendSeq \in Nat /\ server.sent \in Nat /\ server.phase \in Phases
  BY <1>2 DEF IsServer, Phases
<1>4. server.version # ""
  BY <1>2 DEF ServerOK, Sealing
<1>5. server.version = "1.3" => Kind(server) = "1.3"
  BY DEF Kind
<1>6. server.version = "1.3" => server.sendKey = ServerKey("1.3")
  BY <1>2, Zenon DEF ServerOK
<1>7. server.version = "1.2" => server.sendKey = ServerKey(Kind(server))
  BY <1>2, Zenon DEF ServerOK, Sealing
<1>8. server.version \in {"1.2", "1.3"}
  BY <1>2, <1>4 DEF IsServer
<1> QED BY <1>2, <1>3, <1>4, <1>5, <1>6, <1>7, <1>8, Zenon

LEMMA ServerSendsOK == ConversationOK /\ ServerSends => ConversationOK'
<1> SUFFICES ASSUME ConversationOK, ServerSends PROVE ConversationOK'
  OBVIOUS
<1>1. Sealing(server)
  BY DEF ServerSends, MaySendData, Sealing
<1> DEFINE q == server.sendSeq + 1
           n == server.sent + 2
           r == ServerSeal("app", <<server.sent + 1, server.sent + 2>>)
<1>2. /\ IsServer(server) /\ server.sendSeq \in Nat /\ server.sent \in Nat /\ server.phase \in Phases
      /\ server.sendKey = ServerKey(Kind(server))
  BY <1>1, SealingHas, Zenon
<1>3. q \in Nat /\ n \in Nat /\ server.sent <= n
  BY <1>2
<1>4. server' = [ServerSent EXCEPT !.sent = server.sent + 2] /\ wire' = wire \o <<r>>
      /\ UNCHANGED <<client, call, pending, wanted, delivered, trusted, up, fin>>
  BY <1>2 DEF ServerSends, Write, ServerSent, IsServer
<1>5. server' = SentOne(server, q, n, server.phase, server.ticket)
  BY <1>2, <1>4, SentOneSays DEF ServerSent
<1>6. Later(r, Stage("post", Kind(server), 0, server.sendSeq, server.sent),
               StageAfter(server.phase, Kind(server), q, n))
  <2>1. server.phase # "alerted"
    BY <1>1 DEF Sealing
  <2> QED BY <1>2, <2>1 DEF Later, Stage, StageAfter, ServerSeal
<1>7. Sealed1(server, server', q, n, server.phase)
  BY <1>2, <1>3, <1>5, Sealed1Is, Zenon
<1>8. Ends(server, server.phase) /\ q = server.sendSeq + 1
  BY DEF Ends
<1> HIDE DEF q, n, r
<1> QED BY <1>1, <1>3, <1>4, <1>6, <1>7, <1>8, ServerSeals, Zenon

LEMMA ServerTicketOK == ConversationOK /\ ServerTicket => ConversationOK'
<1> SUFFICES ASSUME ConversationOK, ServerTicket PROVE ConversationOK'
  OBVIOUS
<1>1. Sealing(server)
  BY DEF ServerTicket, Sealing
<1> DEFINE q == server.sendSeq + 1
           n == server.sent
           r == ServerSeal("hs", <<Ticket, Ticket>>)
<1>2. /\ IsServer(server) /\ server.sendSeq \in Nat /\ server.sent \in Nat /\ server.phase \in Phases
      /\ server.sendKey = ServerKey(Kind(server))
      /\ server.version = "1.3" => Kind(server) = "1.3"
  BY <1>1, SealingHas, Zenon
<1>3. q \in Nat /\ n \in Nat /\ server.sent <= n
  BY <1>2
<1>4. server' = [ServerSent EXCEPT !.ticket = TRUE] /\ wire' = wire \o <<r>>
      /\ server.version = "1.3"
      /\ UNCHANGED <<client, call, pending, wanted, delivered, trusted, up, fin>>
  BY <1>2 DEF ServerTicket, Write, Ticket
<1>5. server' = SentOne(server, q, n, server.phase, TRUE)
  <2>1. \A b : [ServerSent EXCEPT !.ticket = b] = SentOne(server, q, n, server.phase, b)
    BY <1>2, SentOneSays DEF ServerSent
  <2> QED BY <1>4, <2>1, Zenon
<1>6. Later(r, Stage("post", Kind(server), 0, server.sendSeq, server.sent),
               StageAfter(server.phase, Kind(server), q, n))
  <2>1. server.phase # "alerted"
    BY <1>1 DEF Sealing
  <2> QED BY <1>2, <1>4, <2>1 DEF Later, Stage, StageAfter, ServerSeal
<1>7. Sealed1(server, server', q, n, server.phase)
  BY <1>2, <1>3, <1>5, Sealed1Is, Zenon
<1>8. Ends(server, server.phase) /\ q = server.sendSeq + 1
  BY DEF Ends
<1> HIDE DEF q, n, r
<1> QED BY <1>1, <1>3, <1>4, <1>6, <1>7, <1>8, ServerSeals, Zenon

LEMMA ServerClosesOK == ConversationOK /\ ServerCloses => ConversationOK'
<1> SUFFICES ASSUME ConversationOK, ServerCloses PROVE ConversationOK'
  OBVIOUS
<1>0. ServerOK(server)
  BY Zenon DEF ConversationOK
<1>1. Sealing(server)
  BY DEF ServerCloses, MaySendData, Sealing
<1> DEFINE q == server.sendSeq + 1
           n == server.sent
           r == ServerSeal("alert", "close_notify")
<1>2. /\ IsServer(server) /\ server.sendSeq \in Nat /\ server.sent \in Nat /\ server.phase \in Phases
      /\ server.sendKey = ServerKey(Kind(server))
  BY <1>1, SealingHas, Zenon
<1>3. q \in Nat /\ n \in Nat /\ server.sent <= n /\ "closed" \in Phases
  <2>1. q \in Nat /\ n \in Nat /\ server.sent <= n
    BY <1>2
  <2>2. "closed" \in Phases
    BY DEF Phases
  <2> QED BY <2>1, <2>2
<1>4. server' = [ServerSent EXCEPT !.phase = "closed"] /\ wire' = wire \o <<r>>
      /\ UNCHANGED <<client, call, pending, wanted, delivered, trusted, up, fin>>
  BY <1>2 DEF ServerCloses, Write
<1>5. server' = SentOne(server, q, n, "closed", server.ticket)
  BY <1>2, <1>4, SentOneSays, Zenon DEF ServerSent
<1>6. Later(r, Stage("post", Kind(server), 0, server.sendSeq, server.sent),
               StageAfter("closed", Kind(server), q, n))
  BY <1>2 DEF Later, Stage, StageAfter, ServerSeal
<1>7. Sealed1(server, server', q, n, "closed")
  BY <1>2, <1>3, <1>5, Sealed1Is, Zenon
<1>8. Ends(server, "closed") /\ q = server.sendSeq + 1
  BY DEF Ends
<1> HIDE DEF q, n, r
<1> QED BY <1>1, <1>3, <1>4, <1>6, <1>7, <1>8, ServerSeals, Zenon

LEMMA StageOf ==
  ASSUME NEW kind, NEW seg \in Segments(kind)
  PROVE  Stage(seg, kind, 0, 0, 0) \in Stages(kind)
BY DEF Stages, Stage

(* A server that refuses the ClientHello.                                    *)
LEMMA ServerRefusesOK ==
  ASSUME ConversationOK, ServerAlert, server.phase = "new"
  PROVE  ConversationOK'
<1>1. Setting /\ IsClient(client) /\ IsSeq(wire) /\ CallOK
  BY Parts, Zenon
<1>2. IsServer(server) /\ server = NewServer /\ IsSeq(up) /\ ServerOK(server)
  BY <1>1, Zenon DEF Setting, ServerOK
<1>3. up # <<>> /\ call # "none" /\ ~fin
  BY <1>1 DEF ServerAlert, CallOK
<1> DEFINE b == Stage("alerted", "", 0, 0, 0)
           a == Stage("start", "", 0, 0, 0)
           v == <<Rec("alert", Plain, 0, "fatal")>>
<1>4. /\ wire' = wire \o v
      /\ UNCHANGED <<client, call, pending, wanted, delivered, trusted, up, fin>>
  BY <1>2 DEF ServerAlert, Write, ServerSeal, NewServer
<1>5. server' = SentOne(server, 1, 0, "alerted", server.ticket)
  <2>0. server = NewServer
    BY <1>2
  <2>4. server.sendSeq = 0 /\ server.sent = 0
    BY <2>0, Zenon DEF NewServer
  <2>1. 1 = server.sendSeq + 1 /\ server.sent = 0
    BY <2>4
  <2>2. server' = [ServerSent EXCEPT !.phase = "alerted"]
    BY DEF ServerAlert, Write
  <2>3. [ServerSent EXCEPT !.phase = "alerted"] = SentOne(server, 1, server.sent, "alerted", server.ticket)
    <3> DEFINE q == 1
    <3>1. IsServer(server) /\ q = server.sendSeq + 1
      BY <1>2, <2>1
    <3> HIDE DEF q
    <3>2. [ServerSent EXCEPT !.phase = "alerted"] = SentOne(server, q, server.sent, "alerted", server.ticket)
      BY <3>1, SentOneSays, Zenon DEF ServerSent
    <3> QED BY <3>2 DEF q
  <2> QED BY <2>1, <2>2, <2>3, Zenon
<1>6. Sealed1(server, server', 1, 0, "alerted")
  <2>1. "alerted" \in Phases /\ 1 \in Nat /\ 0 \in Nat
    BY DEF Phases
  <2> QED BY <1>2, <1>5, <2>1, Sealed1Is, Zenon
<1>7. /\ server.version = "" /\ server.sent = 0 /\ server.phase = "new"
      /\ Kind(server) = ""
  BY <1>2 DEF NewServer, Kind
<1>8. /\ IsServer(server') /\ server'.phase = "alerted" /\ server'.sent = 0
      /\ server'.version = "" /\ server'.halves = server.halves /\ server'.got = server.got
      /\ server'.rejects = server.rejects
  BY <1>6, <1>7, Zenon DEF Sealed1, SameReader
<1>9. Kind(server') = ""
  BY <1>8 DEF Kind
<1>10. ServerOK(server')
  <2>1. ~server.rejects /\ Len(server.got) \in Nat /\ server.got = Numbers(Len(server.got))
    BY <1>2, Zenon DEF ServerOK
  <2>2. ~server'.rejects /\ Len(server'.got) \in Nat /\ server'.got = Numbers(Len(server'.got))
    BY <1>8, <2>1, Zenon
  <2>3. server'.phase # "new" /\ server'.version # "1.2" /\ server'.version # "1.3"
        /\ server'.phase \in {"new", "alerted"}
    BY <1>8
  <2> QED BY <1>8, <2>2, <2>3, Zenon DEF ServerOK
<1>11. ServerStage(server) = a /\ ServerStage(server') = b
  BY <1>7, <1>8, <1>9 DEF ServerStage
<1>12. IsSeq(v) /\ RouteFrom(v, Kind(server'), server'.halves, server'.sent, ServerStage(server), ServerStage(server'))
  <2>0. "start" \in Segments("") /\ "alerted" \in Segments("")
    BY DEF Segments
  <2>4. a \in Stages("") /\ b \in Stages("")
    BY <2>0, StageOf
  <2>5. a.data = 0 /\ b.data = 0
    BY DEF Stage
  <2>6. a.data <= 0 /\ b.data <= 0
    <3>1. 0 <= 0
      OBVIOUS
    <3> QED BY <2>5, <3>1, Zenon
  <2>1. a \in Stages("") /\ b \in Stages("") /\ a.data <= 0 /\ b.data <= 0
    BY <2>4, <2>6, Zenon
  <2>2. Takes(Rec("alert", Plain, 0, "fatal"), a, b, server'.halves)
    BY DEF Takes, Refusal
  <2> HIDE DEF a, b
  <2>3. 0 \in Nat
    OBVIOUS
  <2> QED BY <1>8, <1>9, <1>11, <2>1, <2>2, <2>3, RouteOne, Zenon
<1>13. server'.phase # "new" /\ server'.phase \in {"closed", "alerted"}
       /\ server'.phase \notin {"answered", "ready"} /\ server.sent <= server'.sent
  <2>1. server'.phase = "alerted"
    BY <1>8
  <2>2. server.sent = 0 /\ server'.sent = 0
    BY <1>7, <1>8
  <2>3. 0 <= 0
    OBVIOUS
  <2>4. server.sent <= server'.sent
    BY <2>2, <2>3, Zenon
  <2> QED BY <2>1, <2>4
<1>14. OnItsWay(client, up' \o client.out, server')
  BY <1>13, Zenon DEF OnItsWay
<1>15. IsSeq(up')
  BY <1>2, <1>4
<1>16. server'.version = server.version /\ server'.halves = server.halves /\ Kind(server') = Kind(server)
  BY <1>7, <1>8, <1>9
<1> HIDE DEF a, b, v
<1> QED BY <1>3, <1>4, <1>10, <1>12, <1>13, <1>14, <1>15, <1>16, ServerWrites, Zenon

LEMMA ServerAlertOK == ConversationOK /\ ServerAlert => ConversationOK'
<1> SUFFICES ASSUME ConversationOK, ServerAlert, server.phase # "new" PROVE ConversationOK'
  BY ServerRefusesOK, Zenon
<1>1. Sealing(server)
  BY DEF ServerAlert, Sealing
<1> DEFINE q == server.sendSeq + 1
           n == server.sent
           r == ServerSeal("alert", "fatal")
<1>2. /\ IsServer(server) /\ server.sendSeq \in Nat /\ server.sent \in Nat /\ server.phase \in Phases
      /\ server.sendKey = ServerKey(Kind(server))
  BY <1>1, SealingHas, Zenon
<1>3. q \in Nat /\ n \in Nat /\ server.sent <= n /\ "alerted" \in Phases
  <2>1. q \in Nat /\ n \in Nat /\ server.sent <= n
    BY <1>2
  <2>2. "alerted" \in Phases
    BY DEF Phases
  <2> QED BY <2>1, <2>2
<1>4. server' = [ServerSent EXCEPT !.phase = "alerted"] /\ wire' = wire \o <<r>>
      /\ UNCHANGED <<client, call, pending, wanted, delivered, trusted, up, fin>>
  BY <1>2 DEF ServerAlert, Write
<1>5. server' = SentOne(server, q, n, "alerted", server.ticket)
  BY <1>2, <1>4, SentOneSays, Zenon DEF ServerSent
<1>6. Later(r, Stage("post", Kind(server), 0, server.sendSeq, server.sent),
               StageAfter("alerted", Kind(server), q, n))
  BY <1>2 DEF Later, Stage, StageAfter, ServerSeal
<1>7. Sealed1(server, server', q, n, "alerted")
  BY <1>2, <1>3, <1>5, Sealed1Is, Zenon
<1>8. Ends(server, "alerted") /\ q = server.sendSeq + 1
  BY DEF Ends
<1> HIDE DEF q, n, r
<1> QED BY <1>1, <1>3, <1>4, <1>6, <1>7, <1>8, ServerSeals, Zenon

LEMMA ServerFinOK == ConversationOK /\ ServerFin => ConversationOK'
<1> SUFFICES ASSUME ConversationOK, ServerFin PROVE ConversationOK'
  OBVIOUS
<1>1. /\ UNCHANGED <<client, call, pending, wanted, delivered, trusted, wire, up, server>>
      /\ server.phase \in {"closed", "alerted"}
  BY DEF ServerFin
<1>2. CallOK
  BY Zenon DEF ConversationOK
<1>3. CallOK'
  <2>1. Synced(client) => Synced(client)'
    BY <1>1, Zenon DEF Synced
  <2> QED BY <1>1, <1>2, <2>1 DEF CallOK
<1>4. Progress \/ GivenUp => (Progress \/ GivenUp)'
  BY <1>1 DEF Progress, GivenUp, Broken
<1> QED BY <1>1, <1>3, <1>4, Zenon DEF ConversationOK

(* A client that waits for the answer.                                       *)
LEMMA Unanswered ==
  ASSUME ConversationOK, server.phase = "new", up # <<>>
  PROVE  /\ call # "none" /\ ~fin /\ Len(wire) = 0 /\ Greeting(client) /\ client.hs = <<>>
         /\ up = <<Hello>> /\ client.out = <<>>
         /\ delivered \o pending \o client.appData = Numbers(0)
<1>1. Setting /\ IsClient(client) /\ IsSeq(wire) /\ CallOK
  BY Parts, Zenon
<1>2. call # "none" /\ ~fin
  BY <1>1 DEF CallOK
<1>3. up = <<Hello>> /\ client.out = <<>> /\ client.state # "Fresh"
  BY <1>1, <1>2 DEF CallOK, Hello
<1>4. PICK at : /\ Path(at, wire, server)
                /\ ClientAt(client, at[0])
                /\ delivered \o pending \o client.appData = Numbers(at[0].data)
  BY DEF ConversationOK, GivenUp, Progress
<1>5. Len(wire) = 0 /\ at[0] = Stage("start", "", 0, 0, 0)
  BY <1>1, <1>4, NothingWritten, Zenon
<1>6. at[0].seg = "start" /\ at[0].pos = 0 /\ at[0].data = 0
  <2> DEFINE s == Stage("start", "", 0, 0, 0)
  <2>1. s.seg = "start" /\ s.pos = 0 /\ s.data = 0
    BY DEF Stage
  <2> QED BY <1>5, <2>1, Zenon
<1>7. Greeting(client)
  BY <1>3, <1>4, <1>6 DEF ClientAt, Stands
<1>8. client.hs = <<>>
  <2>1. HeldHalf(at[0]) = <<>>
    BY <1>6 DEF HeldHalf
  <2> QED BY <1>4, <1>6, <2>1 DEF ClientAt
<1>9. delivered \o pending \o client.appData = Numbers(0)
  BY <1>4, <1>6, Zenon
<1> QED BY <1>2, <1>3, <1>5, <1>7, <1>8, <1>9

LEMMA AnswerWrites ==
  ASSUME ConversationOK, server.phase = "new", up # <<>>, up' = Tail(up),
         UNCHANGED <<client, call, pending, wanted, delivered, trusted, fin>>,
         NEW v, IsSeq(v), Len(v) > 0, wire' = wire \o v, ServerOK(server'),
         server'.phase = "answered", server'.sent = 0, HasRead(server', 0),
         NEW seg, seg = "hello" \/ seg = "plain",
         RouteFrom(v, Kind(server'), server'.halves, 0, Stage(seg, Kind(server'), 0, 0, 0), ServerStage(server'))
  PROVE  ConversationOK'
<1>1. Setting /\ IsClient(client) /\ IsSeq(wire) /\ CallOK
  BY Parts, Zenon
<1>2. /\ pending \in Seq(Nat) /\ delivered \in Seq(Nat) /\ wanted \in Nat /\ trusted \in BOOLEAN
  BY Zenon DEF ConversationOK
<1>3. /\ call # "none" /\ ~fin /\ Len(wire) = 0 /\ Greeting(client) /\ client.hs = <<>>
      /\ up = <<Hello>> /\ client.out = <<>>
      /\ delivered \o pending \o client.appData = Numbers(0)
  BY Unanswered
<1>4. wire' = v
  <2>1. /\ IsSeq(wire \o v) /\ Len(wire \o v) = Len(wire) + Len(v) /\ Len(v) \in Nat
        /\ \A i \in 1..Len(v) : (wire \o v)[Len(wire) + i] = v[i]
    BY <1>1, Joined, IsSeqFacts
  <2>2. ASSUME NEW i \in 1..Len(v) PROVE (wire \o v)[i] = v[i]
    BY <1>3, <2>1
  <2>3. Len(wire \o v) = Len(v)
    BY <1>3, <2>1
  <2>4. wire \o v = v
    BY <2>1, <2>2, <2>3, SameSeq
  <2> QED BY <2>4
<1>5. ~client.appKeys /\ ~client.sendOn /\ client.state # "Fresh" /\ client.state # "Failed"
  BY <1>3 DEF Greeting, Waiting
<1>6. Progress'
  <2> DEFINE a == Stage(seg, Kind(server'), 0, 0, 0)
  <2>1. a.seg = seg /\ a.pos = 0 /\ a.data = 0
    BY DEF Stage
  <2>2. PICK x : Route(x, v, Kind(server'), server'.halves, 0) /\ x[0] = a /\ x[Len(v)] = ServerStage(server')
    BY DEF RouteFrom
  <2> HIDE DEF a
  <2>3. Path(x, v, server')
    BY <2>2, PathIsRoute, Zenon
  <2>4. Stands(client, a)
    <3>1. 1 + (0 \div 2) = 1
      OBVIOUS
    <3>2. seg = "plain" => In12(client, a.kind, 1 + (a.pos \div 2))
      BY <1>3, <2>1, <3>1 DEF In12
    <3>3. CASE seg = "plain"
      <4>1. a.seg = "plain"
        BY <2>1, <3>3
      <4>2. In12(client, a.kind, 1 + (a.pos \div 2))
        BY <3>2, <3>3
      <4> QED BY <4>1, <4>2 DEF Stands
    <3>4. CASE seg = "hello"
      <4>1. a.seg = "hello" /\ a.pos < 2
        BY <2>1, <3>4
      <4> QED BY <1>3, <4>1 DEF Stands
    <3> QED BY <3>3, <3>4
  <2>5. HeldHalf(a) = <<>>
    BY <2>1 DEF HeldHalf
  <2>6. ClientAt(client, a)
    BY <1>3, <2>4, <2>5, Zenon DEF ClientAt
  <2>7. /\ Path(x, wire', server') /\ ClientAt(client', x[0])
        /\ delivered' \o pending' \o client'.appData = Numbers(x[0].data)
        /\ client'.appKeys => x[0].seg \in {"post", "alerted"}
    BY <1>3, <1>4, <1>5, <2>1, <2>2, <2>3, <2>6
  <2> QED BY <2>7 DEF Progress
<1>7. up' = <<>> /\ IsSeq(up')
  <2>1. Tail(<<Hello>>) = <<>>
    BY DEF Hello
  <2> QED BY <1>3, <2>1, NoneIsSeq
<1>8. OnItsWay(client', up' \o client'.out, server')
  <2>1. Len(up' \o client'.out) = 0
    BY <1>3, <1>7
  <2>2. SentBy(client', Kind(server')) = 0
    BY <1>5 DEF SentBy
  <2>3. 0 \in 0..SentBy(client', Kind(server'))
    BY <2>2
  <2>4. Len(up' \o client'.out) = SentBy(client', Kind(server')) - 0
    BY <2>1, <2>2
  <2>5. \A i \in 1..Len(up' \o client'.out) : IsNth((up' \o client'.out)[i], Kind(server'), 0 + i)
    BY <2>1
  <2> QED BY <2>3, <2>4, <2>5 DEF OnItsWay
<1>9. CallOK'
  <2>1. wire' # <<>>
    BY <1>4, NoneIsSeq
  <2>2. Synced(client)'
    BY <1>5 DEF Synced
  <2> QED BY <1>1, <1>3, <2>1, <2>2 DEF CallOK
<1> QED BY <1>1, <1>2, <1>4, <1>6, <1>7, <1>8, <1>9 DEF ConversationOK

Answering13(s, k, t, sk, rk) ==
    [s EXCEPT !.phase = "answered", !.version = "1.3", !.halves = k, !.transcript = t,
              !.sendKey = sk, !.sendSeq = 0, !.recvKey = rk, !.recvOn = TRUE]
Answering12(s, k, t) ==
    [s EXCEPT !.phase = "answered", !.version = "1.2", !.halves = k, !.transcript = t]

Fresh(s) == s.sent = 0 /\ s.got = <<>> /\ s.recvSeq = 0 /\ s.sendSeq = 0 /\ ~s.rejects /\ ~s.recvOn

LEMMA NewServerIs ==
  IsServer(NewServer) /\ Fresh(NewServer)
<1> DEFINE s == NewServer
<1>1. ~s.rejects /\ ~s.recvOn
  BY Zenon DEF NewServer
<1>2. s.sent = 0 /\ s.got = <<>> /\ s.recvSeq = 0 /\ s.sendSeq = 0
  BY DEF NewServer
<1>3. IsServer(s)
  BY DEF NewServer, IsServer
<1> QED BY <1>1, <1>2, <1>3, Zenon DEF Fresh

Answered(t, version, k, tr) ==
    /\ IsServer(t) /\ t.phase = "answered" /\ t.version = version /\ t.halves = k
    /\ t.transcript = tr /\ t.sent = 0 /\ t.recvSeq = 0 /\ t.sendSeq = 0 /\ ~t.rejects
    /\ t.got = <<>>

LEMMA Answering13Is ==
  ASSUME NEW s, IsServer(s), Fresh(s), NEW k \in Nat, NEW tr, NEW sk, NEW rk
  PROVE  LET t == Answering13(s, k, tr, sk, rk)
         IN  Answered(t, "1.3", k, tr) /\ t.sendKey = sk /\ t.recvKey = rk /\ t.recvOn
<1> DEFINE t == Answering13(s, k, tr, sk, rk)
<1>1. ServerRecord(t)
  <2> SUFFICES ASSUME NEW u, u = t PROVE ServerRecord(u)
    OBVIOUS
  <2> QED BY DEF IsServer, ServerRecord, Answering13
<1>2. t.recvOn = TRUE
  BY Zenon DEF IsServer, Answering13
<1>3. t.rejects = s.rejects
  BY DEF IsServer, Answering13
<1>4. /\ t.phase = "answered" /\ t.version = "1.3" /\ t.halves = k
      /\ t.transcript = tr /\ t.sent = s.sent /\ t.recvSeq = s.recvSeq /\ t.sendSeq = 0
      /\ t.got = s.got /\ t.sendKey = sk /\ t.recvKey = rk
  BY DEF IsServer, Answering13
<1> HIDE DEF t
<1>5. IsServer(t)
  <2>1. t.recvOn \in BOOLEAN
    BY <1>2, Zenon
  <2>2. s.sent \in Nat
    BY Zenon DEF IsServer
  <2>3. /\ t.phase \in {"new", "answered", "ready", "peer closed", "closed", "alerted"}
        /\ t.version \in {"", "1.2", "1.3"}
        /\ t.halves \in Nat /\ t.sendSeq \in Nat /\ t.sent \in Nat
    BY <1>4, <2>2
  <2> QED BY <1>1, <2>1, <2>3, Zenon DEF IsServer, ServerRecord
<1>6. t.recvOn /\ ~t.rejects /\ t.sent = 0 /\ t.recvSeq = 0 /\ t.got = <<>>
  BY <1>2, <1>3, <1>4, Zenon DEF Fresh
<1> QED BY <1>4, <1>5, <1>6, Zenon DEF Answered, t

LEMMA Answering12Is ==
  ASSUME NEW s, IsServer(s), Fresh(s), NEW k \in Nat, NEW tr
  PROVE  LET t == Answering12(s, k, tr) IN Answered(t, "1.2", k, tr) /\ ~t.recvOn
<1> DEFINE t == Answering12(s, k, tr)
<1>1. ServerRecord(t)
  <2> SUFFICES ASSUME NEW u, u = t PROVE ServerRecord(u)
    OBVIOUS
  <2> QED BY DEF IsServer, ServerRecord, Answering12
<1>2. t.recvOn = s.recvOn
  BY DEF IsServer, Answering12
<1>3. t.rejects = s.rejects
  BY DEF IsServer, Answering12
<1>4. /\ t.phase = "answered" /\ t.version = "1.2" /\ t.halves = k
      /\ t.transcript = tr /\ t.sent = s.sent /\ t.recvSeq = s.recvSeq /\ t.sendSeq = s.sendSeq
      /\ t.got = s.got
  BY DEF IsServer, Answering12
<1> HIDE DEF t
<1>5. IsServer(t)
  <2>1. t.recvOn \in BOOLEAN
    BY <1>2, Zenon DEF IsServer
  <2>2. s.sent \in Nat /\ s.sendSeq \in Nat
    BY Zenon DEF IsServer
  <2>3. /\ t.phase \in {"new", "answered", "ready", "peer closed", "closed", "alerted"}
        /\ t.version \in {"", "1.2", "1.3"}
        /\ t.halves \in Nat /\ t.sendSeq \in Nat /\ t.sent \in Nat
    BY <1>4, <2>2
  <2> QED BY <1>1, <2>1, <2>3, Zenon DEF IsServer, ServerRecord
<1>6. ~t.recvOn /\ ~t.rejects /\ t.sent = 0 /\ t.recvSeq = 0 /\ t.sendSeq = 0 /\ t.got = <<>>
  BY <1>2, <1>3, <1>4, Zenon DEF Fresh
<1> QED BY <1>4, <1>5, <1>6, Zenon DEF Answered, t

LEMMA NoNumbers ==
  ASSUME NEW s, s = <<>>
  PROVE  Len(s) \in Nat /\ s = Numbers(Len(s)) /\ Len(s) = 0
BY DEF Numbers

LEMMA AnsweredOK ==
  ASSUME NEW t, NEW version, NEW k \in Nat, k > 0, NEW tr, Answered(t, version, k, tr),
         version = "1.3" => t.sendKey = ServerKey("1.3"), version # "",
         version = "1.2" => Kind(t) \in Kinds12
  PROVE  ServerOK(t)
<1>1. /\ IsServer(t) /\ ~t.rejects /\ t.got = <<>> /\ t.phase = "answered" /\ t.version = version
      /\ t.halves = k /\ t.sent = 0
  BY Zenon DEF Answered
<1>2. Len(t.got) \in Nat /\ t.got = Numbers(Len(t.got))
  BY <1>1, NoNumbers, Zenon
<1>3. t.phase # "new" /\ t.version # ""
  BY <1>1
<1>4. t.halves > 0
  BY <1>1
<1> QED BY <1>1, <1>2, <1>3, <1>4, Zenon DEF ServerOK

LEMMA NewIs ==
  ASSUME ConversationOK, server.phase = "new"
  PROVE  server = NewServer
<1>1. ServerOK(server)
  BY Zenon DEF ConversationOK
<1> QED BY <1>1, Zenon DEF ServerOK

LEMMA Writes13 ==
  ASSUME NEW k, Answer13(k)
  PROVE  /\ server' = Answering13(server, k, UpTo(Seen13, 6), ServerKey("1.3"), ClientFlightKey)
         /\ wire' = wire \o Written13(k)
<1> DEFINE hello == <<"ClientHello", "ServerHello13">>
           cert == hello \o <<"EncryptedExtensions", "Certificate">>
           verify == Append(cert, "CertificateVerify")
           done == Append(verify, "Finished")
           msgs(u, v) == <<Msg("EncryptedExtensions", <<>>), Msg("Certificate", <<>>),
                     Msg("CertificateVerify", u), Msg("Finished", v)>>
<1>1. hello = UpTo(Seen13, 2) /\ cert = UpTo(Seen13, 4) /\ verify = UpTo(Seen13, 5)
      /\ done = UpTo(Seen13, 6)
  <2>1. hello = UpTo(Seen13, 2)
    BY Transcripts, Zenon
  <2>2. cert = UpTo(Seen13, 4)
    BY <2>1, Transcripts, Zenon
  <2>3. verify = UpTo(Seen13, 5)
    BY <2>2, Transcripts, Zenon
  <2>4. done = UpTo(Seen13, 6)
    BY <2>3, Transcripts, Zenon
  <2> QED BY <2>1, <2>2, <2>3, <2>4
<1>2. /\ wire' = wire \o (Records(Hello13, Plain, k) \o <<Ccs>>
                         \o Records(msgs(cert, verify), <<"s hs", hello>>, k))
      /\ server' = [server EXCEPT !.phase = "answered", !.version = "1.3", !.halves = k,
                             !.transcript = done, !.sendKey = <<"s ap", done>>, !.sendSeq = 0,
                             !.recvKey = <<"c hs", hello>>, !.recvOn = TRUE]
  BY Zenon DEF Answer13, Write, Hello13
<1> HIDE DEF hello, cert, verify, done
<1>3. msgs(UpTo(Seen13, 4), UpTo(Seen13, 5)) = Flight13
  BY Zenon DEF Flight13
<1>4. ServerKey("1.3") = <<"s ap", UpTo(Seen13, 6)>>
  BY DEF ServerKey
<1> HIDE DEF msgs
<1> QED BY <1>1, <1>2, <1>3, <1>4, Zenon DEF Written13, Answering13, ServerFlightKey, ClientFlightKey

LEMMA Answer13OK ==
  ASSUME ConversationOK, server.phase = "new", up # <<>>, up' = Tail(up),
         UNCHANGED <<client, call, pending, wanted, delivered, trusted, fin>>,
         NEW k \in RecordHalves, Answer13(k)
  PROVE  ConversationOK'
<1>1. k \in Nat /\ k > 0
  BY TlsAssumption
<1>2. server = NewServer
  BY NewIs, Zenon
<1>3. IsServer(server) /\ Fresh(server)
  BY <1>2, NewServerIs, Zenon
<1> DEFINE t == Answering13(server, k, UpTo(Seen13, 6), ServerKey("1.3"), ClientFlightKey)
<1>4. server' = t /\ wire' = wire \o Written13(k)
  BY Writes13, Zenon
<1>5. Answered(t, "1.3", k, UpTo(Seen13, 6)) /\ t.sendKey = ServerKey("1.3")
      /\ t.recvKey = ClientFlightKey /\ t.recvOn
  BY <1>1, <1>3, Answering13Is
<1> HIDE DEF t
<1>6. Answered(server', "1.3", k, UpTo(Seen13, 6)) /\ server'.sendKey = ServerKey("1.3")
      /\ server'.recvKey = ClientFlightKey /\ server'.recvOn
  BY <1>4, <1>5, Zenon
<1>7. /\ server'.phase = "answered" /\ server'.version = "1.3" /\ server'.halves = k /\ server'.sent = 0
      /\ server'.sendSeq = 0 /\ server'.recvSeq = 0 /\ server'.got = <<>>
      /\ server'.transcript = UpTo(Seen13, 6)
  BY <1>6, Zenon DEF Answered
<1>8. ServerOK(server')
  <2>1. "1.3" # "" /\ "1.3" # "1.2"
    OBVIOUS
  <2> QED BY <1>1, <1>6, <2>1, AnsweredOK, Zenon
<1>9. Kind(server') = "1.3"
  BY <1>7 DEF Kind
<1>10. ServerStage(server') = Stage("post", "1.3", 0, 0, 0)
  BY <1>7, <1>9 DEF ServerStage
<1>11. HasRead(server', 0)
  BY <1>6, <1>7 DEF HasRead, HasRead13
<1>12. IsSeq(Written13(k)) /\ Len(Written13(k)) > 0
       /\ RouteFrom(Written13(k), "1.3", k, 0, Stage("hello", "1.3", 0, 0, 0), Stage("post", "1.3", 0, 0, 0))
  BY <1>1, Route13
<1>13. RouteFrom(Written13(k), Kind(server'), server'.halves, 0,
                 Stage("hello", Kind(server'), 0, 0, 0), ServerStage(server'))
  BY <1>7, <1>9, <1>10, <1>12, Zenon
<1> QED BY <1>4, <1>7, <1>8, <1>11, <1>12, <1>13, AnswerWrites, Zenon

LEMMA Writes12 ==
  ASSUME NEW k, NEW kind \in Kinds12, Answer12(k, kind)
  PROVE  /\ server' = Answering12(server, k, UpTo(Seen12(kind), 5))
         /\ wire' = wire \o Records(Flight12(kind), Plain, k)
<1>1. <<"ClientHello">> \o Types(Flight12(kind)) = UpTo(Seen12(kind), 5)
  BY Transcripts, Zenon
<1>2. /\ wire' = wire \o Records(Flight12(kind), Plain, k)
      /\ server' = [server EXCEPT !.phase = "answered", !.version = "1.2", !.halves = k,
                             !.transcript = <<"ClientHello">> \o Types(Flight12(kind))]
  BY Zenon DEF Answer12, Write, Flight12
<1> QED BY <1>1, <1>2, Zenon DEF Answering12

LEMMA Answer12OK ==
  ASSUME ConversationOK, server.phase = "new", up # <<>>, up' = Tail(up),
         UNCHANGED <<client, call, pending, wanted, delivered, trusted, fin>>,
         NEW k \in RecordHalves, NEW kind \in Kinds12, Answer12(k, kind)
  PROVE  ConversationOK'
<1>1. k \in Nat /\ k > 0
  BY TlsAssumption
<1>2. server = NewServer
  BY NewIs, Zenon
<1>3. IsServer(server) /\ Fresh(server)
  BY <1>2, NewServerIs, Zenon
<1> DEFINE t == Answering12(server, k, UpTo(Seen12(kind), 5))
<1>4. server' = t /\ wire' = wire \o Records(Flight12(kind), Plain, k)
  BY Writes12, Zenon
<1>5. Answered(t, "1.2", k, UpTo(Seen12(kind), 5)) /\ ~t.recvOn
  BY <1>1, <1>3, Answering12Is
<1> HIDE DEF t
<1>6. Answered(server', "1.2", k, UpTo(Seen12(kind), 5)) /\ ~server'.recvOn
  BY <1>4, <1>5, Zenon
<1>7. /\ server'.phase = "answered" /\ server'.version = "1.2" /\ server'.halves = k /\ server'.sent = 0
      /\ server'.sendSeq = 0 /\ server'.recvSeq = 0 /\ server'.got = <<>>
      /\ server'.transcript = UpTo(Seen12(kind), 5)
  BY <1>6, Zenon DEF Answered
<1>9. Kind(server') = kind
  <2>1. UpTo(Seen12(kind), 5)[2] = kind
    BY DEF UpTo, Seen12
  <2>2. Kind(server') = server'.transcript[2]
    BY <1>7 DEF Kind
  <2> QED BY <1>7, <2>1, <2>2, Zenon
<1>8. ServerOK(server')
  <2>1. "1.2" # "" /\ "1.2" # "1.3"
    OBVIOUS
  <2> QED BY <1>1, <1>6, <1>9, <2>1, AnsweredOK, Zenon
<1>10. ServerStage(server') = Stage("plain", kind, 8, 0, 0)
  BY <1>7, <1>9 DEF ServerStage
<1>11. HasRead(server', 0)
  <2>1. server'.recvOn = (0 = 2)
    <3>1. server'.recvOn \in BOOLEAN
      BY <1>6, Zenon DEF Answered, IsServer
    <3>2. ~(0 = 2)
      OBVIOUS
    <3> QED BY <1>6, <3>1, <3>2, Zenon
  <2>2. HasRead12(server', kind, 0)
    BY <1>7, <2>1 DEF HasRead12
  <2> QED BY <1>7, <1>9, <2>2 DEF HasRead
<1>12. IsSeq(Records(Flight12(kind), Plain, k)) /\ Len(Records(Flight12(kind), Plain, k)) > 0
       /\ RouteFrom(Records(Flight12(kind), Plain, k), kind, k, 0,
                    Stage("plain", kind, 0, 0, 0), Stage("plain", kind, 8, 0, 0))
  BY <1>1, Route12
<1>13. RouteFrom(Records(Flight12(kind), Plain, k), Kind(server'), server'.halves, 0,
                 Stage("plain", Kind(server'), 0, 0, 0), ServerStage(server'))
  BY <1>7, <1>9, <1>10, <1>12, Zenon
<1> QED BY <1>4, <1>7, <1>8, <1>11, <1>12, <1>13, AnswerWrites, Zenon

LEMMA ServerAnswersOK == ConversationOK /\ ServerAnswers => ConversationOK'
<1> SUFFICES ASSUME ConversationOK, ServerAnswers PROVE ConversationOK'
  OBVIOUS
<1>1. /\ server.phase = "new" /\ up # <<>> /\ up' = Tail(up)
      /\ UNCHANGED <<client, call, pending, wanted, delivered, trusted, fin>>
  BY DEF ServerAnswers
<1>2. PICK k \in RecordHalves :
         Answer13(k) \/ Answer12(k, "ServerHello12") \/ Answer12(k, "ServerHello12Ems")
  BY Zenon DEF ServerAnswers
<1>3. "ServerHello12" \in Kinds12 /\ "ServerHello12Ems" \in Kinds12
  BY DEF Kinds12
<1> QED BY <1>1, <1>2, <1>3, Answer13OK, Answer12OK, Zenon

(* A server that has read a record.                                          *)
Update(s, p, tr, sk, rk, q, m, g, on, rej) ==
    [s EXCEPT !.phase = p, !.transcript = tr, !.sendKey = sk, !.recvKey = rk, !.recvSeq = q,
              !.sendSeq = m, !.got = g, !.recvOn = on, !.rejects = rej]

Updated(s, t, p, tr, sk, rk, q, m, g) ==
    /\ IsServer(t)
    /\ t.phase = p /\ t.transcript = tr /\ t.sendKey = sk /\ t.recvKey = rk /\ t.recvSeq = q
    /\ t.sendSeq = m /\ t.got = g
    /\ t.version = s.version /\ t.halves = s.halves /\ t.sent = s.sent

UpdateTo(s, p, tr, sk, rk, q, m, g, on, rej) ==
    LET t == Update(s, p, tr, sk, rk, q, m, g, on, rej)
    IN  Updated(s, t, p, tr, sk, rk, q, m, g) /\ t.recvOn = on /\ t.rejects = rej

LEMMA UpdateToIs ==
  ASSUME NEW s, IsServer(s), NEW p, p \in Phases, NEW tr, NEW sk, NEW rk, NEW q, NEW m, m \in Nat, NEW g,
         NEW on, on \in BOOLEAN, NEW rej
  PROVE  UpdateTo(s, p, tr, sk, rk, q, m, g, on, rej)
<1> DEFINE t == Update(s, p, tr, sk, rk, q, m, g, on, rej)
<1>1. ServerRecord(t)
  <2> SUFFICES ASSUME NEW u, u = t PROVE ServerRecord(u)
    OBVIOUS
  <2> QED BY DEF IsServer, ServerRecord, Update
<1>2. t.recvOn = on /\ t.rejects = rej
  BY Zenon DEF IsServer, Update
<1>3. /\ t.phase = p /\ t.transcript = tr /\ t.sendKey = sk /\ t.recvKey = rk /\ t.recvSeq = q
      /\ t.sendSeq = m /\ t.got = g
      /\ t.version = s.version /\ t.halves = s.halves /\ t.sent = s.sent
  BY DEF IsServer, Update
<1> HIDE DEF t
<1>4. IsServer(t)
  <2>1. t.recvOn \in BOOLEAN
    BY <1>2, Zenon
  <2>2. s.sent \in Nat /\ s.version \in {"", "1.2", "1.3"} /\ s.halves \in Nat
    BY Zenon DEF IsServer
  <2>3. /\ t.phase \in {"new", "answered", "ready", "peer closed", "closed", "alerted"}
        /\ t.version \in {"", "1.2", "1.3"}
        /\ t.halves \in Nat /\ t.sendSeq \in Nat /\ t.sent \in Nat
    BY <1>3, <2>2 DEF Phases
  <2> QED BY <1>1, <2>1, <2>3, Zenon DEF IsServer, ServerRecord
<1>5. Updated(s, t, p, tr, sk, rk, q, m, g)
  BY <1>3, <1>4, Zenon DEF Updated
<1> QED BY <1>2, <1>5, Zenon DEF UpdateTo, t

Readied(s, rej, p, tr, rk, x) ==
    [s EXCEPT !.rejects = rej, !.phase = p, !.transcript = tr, !.recvKey = rk, !.recvSeq = x]

LEMMA UpdateSays ==
  ASSUME NEW s, IsServer(s)
  PROVE  /\ \A on, q : [s EXCEPT !.recvOn = on, !.recvSeq = q] =
               Update(s, s.phase, s.transcript, s.sendKey, s.recvKey, q, s.sendSeq, s.got, on, s.rejects)
         /\ \A q : [s EXCEPT !.recvSeq = q] =
               Update(s, s.phase, s.transcript, s.sendKey, s.recvKey, q, s.sendSeq, s.got, s.recvOn, s.rejects)
         /\ \A g : [s EXCEPT !.got = g] =
               Update(s, s.phase, s.transcript, s.sendKey, s.recvKey, s.recvSeq, s.sendSeq, g, s.recvOn, s.rejects)
         /\ \A p : [s EXCEPT !.phase = p] =
               Update(s, p, s.transcript, s.sendKey, s.recvKey, s.recvSeq, s.sendSeq, s.got, s.recvOn, s.rejects)
         /\ \A tr, rk, sk : [[s EXCEPT !.transcript = tr] EXCEPT !.recvKey = rk, !.sendKey = sk] =
               Update(s, s.phase, tr, sk, rk, s.recvSeq, s.sendSeq, s.got, s.recvOn, s.rejects)
         /\ \A rej, p, tr, rk, x :
               Readied(s, rej, p, tr, rk, x) =
               Update(s, p, tr, s.sendKey, rk, x, s.sendSeq, s.got, s.recvOn, rej)
<1>1. \A on, q : [s EXCEPT !.recvOn = on, !.recvSeq = q] =
               Update(s, s.phase, s.transcript, s.sendKey, s.recvKey, q, s.sendSeq, s.got, on, s.rejects)
  BY DEF IsServer, Update
<1>2. \A q : [s EXCEPT !.recvSeq = q] =
               Update(s, s.phase, s.transcript, s.sendKey, s.recvKey, q, s.sendSeq, s.got, s.recvOn, s.rejects)
  BY DEF IsServer, Update
<1>3. \A g : [s EXCEPT !.got = g] =
               Update(s, s.phase, s.transcript, s.sendKey, s.recvKey, s.recvSeq, s.sendSeq, g, s.recvOn, s.rejects)
  BY DEF IsServer, Update
<1>4. \A p : [s EXCEPT !.phase = p] =
               Update(s, p, s.transcript, s.sendKey, s.recvKey, s.recvSeq, s.sendSeq, s.got, s.recvOn, s.rejects)
  BY DEF IsServer, Update
<1>5. \A tr, rk, sk : [[s EXCEPT !.transcript = tr] EXCEPT !.recvKey = rk, !.sendKey = sk] =
               Update(s, s.phase, tr, sk, rk, s.recvSeq, s.sendSeq, s.got, s.recvOn, s.rejects)
  BY ZenonT(40) DEF IsServer, Update
<1>6. ASSUME NEW rej, NEW p, NEW tr, NEW rk, NEW x
      PROVE  Readied(s, rej, p, tr, rk, x) =
               Update(s, p, tr, s.sendKey, rk, x, s.sendSeq, s.got, s.recvOn, rej)
  <2> DEFINE t == [s EXCEPT !.phase = p, !.transcript = tr, !.recvKey = rk, !.recvSeq = x, !.rejects = rej]
  <2>1. Readied(s, rej, p, tr, rk, x) = t
    BY DEF IsServer, Readied
  <2>2. t = [s EXCEPT !.phase = p, !.transcript = tr, !.sendKey = s.sendKey, !.recvKey = rk, !.recvSeq = x, !.rejects = rej]
    BY DEF IsServer
  <2>3. [s EXCEPT !.phase = p, !.transcript = tr, !.sendKey = s.sendKey, !.recvKey = rk, !.recvSeq = x, !.rejects = rej]
        = [s EXCEPT !.phase = p, !.transcript = tr, !.sendKey = s.sendKey, !.recvKey = rk, !.recvSeq = x,
                    !.sendSeq = s.sendSeq, !.got = s.got, !.rejects = rej]
    BY DEF IsServer
  <2>4. [s EXCEPT !.phase = p, !.transcript = tr, !.sendKey = s.sendKey, !.recvKey = rk, !.recvSeq = x,
                    !.sendSeq = s.sendSeq, !.got = s.got, !.rejects = rej]
        = Update(s, p, tr, s.sendKey, rk, x, s.sendSeq, s.got, s.recvOn, rej)
    BY DEF IsServer, Update
  <2> HIDE DEF t
  <2> QED BY <2>1, <2>2, <2>3, <2>4, Zenon
<1> QED BY <1>1, <1>2, <1>3, <1>4, <1>5, <1>6

Heard(s, r) == r.type # "ccs" /\ s.recvOn /\ r.key = s.recvKey /\ r.seq = s.recvSeq

LEMMA ReadCcs ==
  ASSUME NEW s, IsServer(s), NEW r, r.type = "ccs"
  PROVE  LET t == ReadBy(s, r)
         IN  /\ Updated(s, t, s.phase, s.transcript, s.sendKey, s.recvKey, 0, s.sendSeq, s.got)
             /\ t.recvOn = TRUE /\ t.rejects = s.rejects
<1>1. ReadBy(s, r) = [s EXCEPT !.recvOn = TRUE, !.recvSeq = 0]
  BY DEF ReadBy
<1>3. s.phase \in Phases /\ s.sendSeq \in Nat
  BY DEF IsServer, Phases
<1>4. ASSUME NEW on \in BOOLEAN, NEW t, t = [s EXCEPT !.recvOn = on, !.recvSeq = 0]
      PROVE  /\ Updated(s, t, s.phase, s.transcript, s.sendKey, s.recvKey, 0, s.sendSeq, s.got)
             /\ t.recvOn = on /\ t.rejects = s.rejects
  <2> DEFINE v == Update(s, s.phase, s.transcript, s.sendKey, s.recvKey, 0, s.sendSeq, s.got, on, s.rejects)
  <2>3. \A x, q : [s EXCEPT !.recvOn = x, !.recvSeq = q] =
           Update(s, s.phase, s.transcript, s.sendKey, s.recvKey, q, s.sendSeq, s.got, x, s.rejects)
    BY UpdateSays, Zenon
  <2>1. [s EXCEPT !.recvOn = on, !.recvSeq = 0] = v
    BY <2>3, Zenon
  <2>2. /\ Updated(s, v, s.phase, s.transcript, s.sendKey, s.recvKey, 0, s.sendSeq, s.got)
        /\ v.recvOn = on /\ v.rejects = s.rejects
    <3>1. UpdateTo(s, s.phase, s.transcript, s.sendKey, s.recvKey, 0, s.sendSeq, s.got, on, s.rejects)
      BY <1>3, <1>4, UpdateToIs, Zenon
    <3> QED BY <3>1, Zenon DEF UpdateTo
  <2> HIDE DEF v
  <2> QED BY <1>4, <2>1, <2>2, Zenon
<1>5. TRUE \in BOOLEAN
  OBVIOUS
<1> QED BY <1>1, <1>4, <1>5, Zenon

(* A record under the server's key.                                          *)
LEMMA Unsealing ==
  ASSUME NEW s, IsServer(s), s.recvSeq \in Nat, NEW q, q = s.recvSeq + 1
  PROVE  LET t == [s EXCEPT !.recvSeq = @ + 1]
         IN  /\ Updated(s, t, s.phase, s.transcript, s.sendKey, s.recvKey, q, s.sendSeq, s.got)
             /\ t.recvOn = s.recvOn /\ t.rejects = s.rejects
<1> DEFINE t == [s EXCEPT !.recvSeq = @ + 1]
<1>1. t = [s EXCEPT !.recvSeq = q]
  BY DEF IsServer
<1>2. t = Update(s, s.phase, s.transcript, s.sendKey, s.recvKey, q, s.sendSeq, s.got, s.recvOn, s.rejects)
  BY <1>1, UpdateSays, Zenon
<1>3. s.phase \in Phases /\ s.sendSeq \in Nat
  BY DEF IsServer, Phases
<1>4. s.recvOn \in BOOLEAN
  BY Zenon DEF IsServer
<1> DEFINE v == Update(s, s.phase, s.transcript, s.sendKey, s.recvKey, q, s.sendSeq, s.got, s.recvOn, s.rejects)
<1>5. /\ Updated(s, v, s.phase, s.transcript, s.sendKey, s.recvKey, q, s.sendSeq, s.got)
      /\ v.recvOn = s.recvOn /\ v.rejects = s.rejects
  <2>1. UpdateTo(s, s.phase, s.transcript, s.sendKey, s.recvKey, q, s.sendSeq, s.got, s.recvOn, s.rejects)
    BY <1>3, <1>4, UpdateToIs, Zenon
  <2> QED BY <2>1, Zenon DEF UpdateTo
<1> HIDE DEF v
<1>6. t = v
  BY <1>2 DEF v
<1> QED BY <1>5, <1>6, Zenon

LEMMA ReadData ==
  ASSUME NEW s, IsServer(s), s.recvSeq \in Nat, NEW q, q = s.recvSeq + 1, NEW r, Heard(s, r), r.type = "app"
  PROVE  LET t == ReadBy(s, r)
         IN  /\ Updated(s, t, s.phase, s.transcript, s.sendKey, s.recvKey, q, s.sendSeq, Append(s.got, r.body))
             /\ t.recvOn = s.recvOn /\ t.rejects = s.rejects
<1> DEFINE u == [s EXCEPT !.recvSeq = @ + 1]
           g == Append(s.got, r.body)
<1>1. ReadBy(s, r) = [u EXCEPT !.got = Append(@, r.body)]
  BY DEF ReadBy, Heard
<1>2. Updated(s, u, s.phase, s.transcript, s.sendKey, s.recvKey, q, s.sendSeq, s.got)
      /\ u.recvOn = s.recvOn /\ u.rejects = s.rejects
  BY Unsealing
<1> HIDE DEF u
<1>3. u.got = s.got /\ IsServer(u)
  BY <1>2, Zenon DEF Updated
<1>4. [u EXCEPT !.got = Append(@, r.body)] = [u EXCEPT !.got = g]
  BY <1>3 DEF IsServer
<1> HIDE DEF g
<1>5. ReadBy(s, r) =
        Update(u, u.phase, u.transcript, u.sendKey, u.recvKey, u.recvSeq, u.sendSeq, g, u.recvOn, u.rejects)
  BY <1>1, <1>3, <1>4, UpdateSays, Zenon
<1>6. u.phase \in Phases /\ u.sendSeq \in Nat
  BY <1>3 DEF IsServer, Phases
<1>7. u.recvOn \in BOOLEAN
  BY <1>3, Zenon DEF IsServer
<1> DEFINE t == ReadBy(s, r)
<1>8. Updated(u, t, u.phase, u.transcript, u.sendKey, u.recvKey, u.recvSeq, u.sendSeq, g)
      /\ t.recvOn = u.recvOn /\ t.rejects = u.rejects
  <2> DEFINE v == Update(u, u.phase, u.transcript, u.sendKey, u.recvKey, u.recvSeq, u.sendSeq, g, u.recvOn, u.rejects)
  <2>1. Updated(u, v, u.phase, u.transcript, u.sendKey, u.recvKey, u.recvSeq, u.sendSeq, g)
        /\ v.recvOn = u.recvOn /\ v.rejects = u.rejects
    <3>1. UpdateTo(u, u.phase, u.transcript, u.sendKey, u.recvKey, u.recvSeq, u.sendSeq, g, u.recvOn, u.rejects)
      BY <1>3, <1>6, <1>7, UpdateToIs, Zenon
    <3> QED BY <3>1, Zenon DEF UpdateTo
  <2> HIDE DEF v, t
  <2>2. t = v
    BY <1>5 DEF v, t
  <2> QED BY <2>1, <2>2, Zenon
<1> HIDE DEF t
<1>9. Updated(s, t, s.phase, s.transcript, s.sendKey, s.recvKey, q, s.sendSeq, g)
      /\ t.recvOn = s.recvOn /\ t.rejects = s.rejects
  BY <1>2, <1>8, Zenon DEF Updated
<1> QED BY <1>9 DEF t, g

LEMMA ReadClose ==
  ASSUME NEW s, IsServer(s), s.recvSeq \in Nat, NEW q, q = s.recvSeq + 1, NEW r, Heard(s, r), r.type = "alert"
  PROVE  LET t == ReadBy(s, r)
         IN  /\ Updated(s, t, "peer closed", s.transcript, s.sendKey, s.recvKey, q, s.sendSeq, s.got)
             /\ t.recvOn = s.recvOn /\ t.rejects = s.rejects
<1> DEFINE u == [s EXCEPT !.recvSeq = @ + 1]
<1>1. ReadBy(s, r) = [u EXCEPT !.phase = "peer closed"]
  BY DEF ReadBy, Heard
<1>2. Updated(s, u, s.phase, s.transcript, s.sendKey, s.recvKey, q, s.sendSeq, s.got)
      /\ u.recvOn = s.recvOn /\ u.rejects = s.rejects
  BY Unsealing
<1> HIDE DEF u
<1>3. IsServer(u)
  BY <1>2, Zenon DEF Updated
<1>5. ReadBy(s, r) =
        Update(u, "peer closed", u.transcript, u.sendKey, u.recvKey, u.recvSeq, u.sendSeq, u.got, u.recvOn, u.rejects)
  BY <1>1, <1>3, UpdateSays, Zenon
<1>6. "peer closed" \in Phases /\ u.sendSeq \in Nat
  BY <1>3 DEF IsServer, Phases
<1>7. u.recvOn \in BOOLEAN
  BY <1>3, Zenon DEF IsServer
<1> DEFINE t == ReadBy(s, r)
<1>8. Updated(u, t, "peer closed", u.transcript, u.sendKey, u.recvKey, u.recvSeq, u.sendSeq, u.got)
      /\ t.recvOn = u.recvOn /\ t.rejects = u.rejects
  <2> DEFINE v == Update(u, "peer closed", u.transcript, u.sendKey, u.recvKey, u.recvSeq, u.sendSeq, u.got, u.recvOn, u.rejects)
  <2>1. Updated(u, v, "peer closed", u.transcript, u.sendKey, u.recvKey, u.recvSeq, u.sendSeq, u.got)
        /\ v.recvOn = u.recvOn /\ v.rejects = u.rejects
    <3>1. UpdateTo(u, "peer closed", u.transcript, u.sendKey, u.recvKey, u.recvSeq, u.sendSeq, u.got, u.recvOn, u.rejects)
      BY <1>3, <1>6, <1>7, UpdateToIs, Zenon
    <3> QED BY <3>1, Zenon DEF UpdateTo
  <2> HIDE DEF v, t
  <2>2. t = v
    BY <1>5 DEF v, t
  <2> QED BY <2>1, <2>2, Zenon
<1> HIDE DEF t
<1>9. Updated(s, t, "peer closed", s.transcript, s.sendKey, s.recvKey, q, s.sendSeq, s.got)
      /\ t.recvOn = s.recvOn /\ t.rejects = s.rejects
  BY <1>2, <1>8, Zenon DEF Updated
<1> QED BY <1>9 DEF t

LEMMA ReadCke ==
  ASSUME NEW s, IsServer(s), ~s.recvOn, s.recvSeq = 0, NEW r, r.type = "hs", r.key = Plain, r.seq = 0,
         r.body = Cke, NEW tr, tr = Append(s.transcript, "ClientKeyExchange"), NEW kind, kind \in Kinds12,
         tr = UpTo(Seen12(kind), 6)
  PROVE  LET t == ReadBy(s, r)
         IN  /\ Updated(s, t, s.phase, tr, ServerKey(kind), ClientKey(kind), 0, s.sendSeq, s.got)
             /\ t.recvOn = s.recvOn /\ t.rejects = s.rejects
<1> DEFINE u == [s EXCEPT !.transcript = Append(@, "ClientKeyExchange")]
<1>1. ReadBy(s, r) = [u EXCEPT !.recvKey = <<"c 12", Secret12(u)>>, !.sendKey = <<"s 12", Secret12(u)>>]
  BY DEF ReadBy, Cke, Msg
<1>2. u = [s EXCEPT !.transcript = tr] /\ u.transcript = tr
  BY DEF IsServer
<1> HIDE DEF u
<1>3. Secret12(u) = Secret(kind)
  <2> DEFINE v == UpTo(Seen12(kind), 6)
  <2>1. DOMAIN v = 1..6 /\ v[2] = kind /\ v[1] = "ClientHello" /\ v[3] = "Certificate12"
        /\ v[4] = "ServerKeyExchange" /\ v[5] = "ServerHelloDone" /\ v[6] = "ClientKeyExchange"
    BY DEF UpTo, Seen12
  <2> HIDE DEF v
  <2>2. ("ServerHello12Ems" \in {v[i] : i \in DOMAIN v}) <=> kind = "ServerHello12Ems"
    <3>1. CASE kind = "ServerHello12Ems"
      <4>1. 2 \in DOMAIN v /\ v[2] = "ServerHello12Ems"
        BY <2>1, <3>1
      <4> QED BY <3>1, <4>1, Zenon
    <3>2. CASE kind = "ServerHello12"
      <4>1. ASSUME NEW i \in DOMAIN v PROVE v[i] # "ServerHello12Ems"
        <5>1. i = 1 \/ i = 2 \/ i = 3 \/ i = 4 \/ i = 5 \/ i = 6
          BY <2>1
        <5>2. v[2] = "ServerHello12"
          BY <2>1, <3>2
        <5> QED BY <2>1, <5>1, <5>2
      <4>2. kind # "ServerHello12Ems"
        BY <3>2
      <4> QED BY <4>1, <4>2, Zenon
    <3> QED BY <3>1, <3>2 DEF Kinds12
  <2>3. u.transcript = v
    BY <1>2 DEF v
  <2>4. Secret(kind) = IF kind = "ServerHello12Ems" THEN v ELSE <<>>
    BY DEF Secret, v
  <2> QED BY <2>2, <2>3, <2>4, Zenon DEF Secret12
<1>4. kind # "1.3"
  BY DEF Kinds12
<1>5. ServerKey(kind) = <<"s 12", Secret(kind)>> /\ ClientKey(kind) = <<"c 12", Secret(kind)>>
  BY <1>4, Zenon DEF ServerKey, ClientKey
<1> DEFINE t == ReadBy(s, r)
<1>6. t = [[s EXCEPT !.transcript = tr] EXCEPT !.recvKey = ClientKey(kind), !.sendKey = ServerKey(kind)]
  BY <1>1, <1>2, <1>3, <1>5, Zenon
<1> HIDE DEF t
<1> DEFINE v(a, b) == Update(s, s.phase, tr, a, b, s.recvSeq, s.sendSeq, s.got, s.recvOn, s.rejects)
<1>7. t = v(ServerKey(kind), ClientKey(kind))
  <2>1. \A a, b : [[s EXCEPT !.transcript = tr] EXCEPT !.recvKey = a, !.sendKey = b] = v(b, a)
    BY UpdateSays, Zenon
  <2> HIDE DEF v
  <2> QED BY <1>6, <2>1, Zenon
<1>8. s.phase \in Phases /\ s.sendSeq \in Nat
  BY DEF IsServer, Phases
<1>9. s.recvOn \in BOOLEAN
  BY Zenon DEF IsServer
<1>10. ASSUME NEW a, NEW b
       PROVE  /\ Updated(s, v(a, b), s.phase, tr, a, b, s.recvSeq, s.sendSeq, s.got)
              /\ v(a, b).recvOn = s.recvOn /\ v(a, b).rejects = s.rejects
  <2>1. UpdateTo(s, s.phase, tr, a, b, s.recvSeq, s.sendSeq, s.got, s.recvOn, s.rejects)
    BY <1>8, <1>9, UpdateToIs, Zenon
  <2> QED BY <2>1, Zenon DEF UpdateTo
<1> HIDE DEF v
<1>11. /\ Updated(s, t, s.phase, tr, ServerKey(kind), ClientKey(kind), s.recvSeq, s.sendSeq, s.got)
       /\ t.recvOn = s.recvOn /\ t.rejects = s.rejects
  BY <1>7, <1>10, Zenon
<1> QED BY <1>11, Zenon DEF t

LEMMA ReadFinished ==
  ASSUME NEW s, IsServer(s), s.recvSeq \in Nat, NEW q, q = s.recvSeq + 1, NEW r, Heard(s, r), r.type = "hs",
         r.body.type = "ClientFinished", r.body.th = s.transcript,
         NEW tr, tr = Append(s.transcript, "ClientFinished"),
         NEW k, NEW x, s.version = "1.3" => k = <<"c ap", s.transcript>> /\ x = 0,
         s.version # "1.3" => k = s.recvKey /\ x = q
  PROVE  LET t == ReadBy(s, r)
         IN  /\ Updated(s, t, "ready", tr, s.sendKey, k, x, s.sendSeq, s.got)
             /\ t.recvOn = s.recvOn /\ ~t.rejects
<1> DEFINE u == [s EXCEPT !.recvSeq = @ + 1]
           rej == r.body.th # u.transcript
<1>1. ReadBy(s, r) = Finishes(u, r.body)
  BY DEF ReadBy, Heard
<1>2. Updated(s, u, s.phase, s.transcript, s.sendKey, s.recvKey, q, s.sendSeq, s.got)
      /\ u.recvOn = s.recvOn /\ u.rejects = s.rejects
  BY Unsealing
<1> HIDE DEF u
<1>3. /\ IsServer(u) /\ u.transcript = s.transcript /\ u.version = s.version /\ u.recvKey = s.recvKey
      /\ u.recvSeq = q
  BY <1>2, Zenon DEF Updated
<1>4. ~rej
  BY <1>3
<1>5. Append(u.transcript, "ClientFinished") = tr
  BY <1>3
<1>6. (IF u.version = "1.3" THEN <<"c ap", u.transcript>> ELSE u.recvKey) = k
      /\ (IF u.version = "1.3" THEN 0 ELSE u.recvSeq) = x
  BY <1>3
<1>7. Finishes(u, r.body) = Readied(u, rej, "ready", Append(u.transcript, "ClientFinished"),
               IF u.version = "1.3" THEN <<"c ap", u.transcript>> ELSE u.recvKey,
               IF u.version = "1.3" THEN 0 ELSE u.recvSeq)
  BY <1>3, Zenon DEF Finishes, Readied
<1> HIDE DEF rej
<1>8. ReadBy(s, r) = Readied(u, rej, "ready", tr, k, x)
  BY <1>1, <1>5, <1>6, <1>7, Zenon
<1> DEFINE v == Update(u, "ready", tr, u.sendKey, k, x, u.sendSeq, u.got, u.recvOn, rej)
           t == ReadBy(s, r)
<1>9. t = v
  <2>2. \A j, p, y, rk, z :
               Readied(u, j, p, y, rk, z) = Update(u, p, y, u.sendKey, rk, z, u.sendSeq, u.got, u.recvOn, j)
    BY <1>3, UpdateSays, Zenon
  <2>1. Readied(u, rej, "ready", tr, k, x) = v
    BY <2>2, Zenon
  <2> QED BY <1>8, <2>1, Zenon
<1>10. Updated(u, v, "ready", tr, u.sendKey, k, x, u.sendSeq, u.got)
       /\ v.recvOn = u.recvOn /\ v.rejects = rej
  <2>1. "ready" \in Phases
    BY DEF Phases
  <2>2. u.sendSeq \in Nat
    BY <1>3 DEF IsServer
  <2>3. u.recvOn \in BOOLEAN
    BY <1>3, Zenon DEF IsServer
  <2>4. UpdateTo(u, "ready", tr, u.sendKey, k, x, u.sendSeq, u.got, u.recvOn, rej)
    BY <1>3, <2>1, <2>2, <2>3, UpdateToIs, Zenon
  <2> QED BY <2>4, Zenon DEF UpdateTo
<1> HIDE DEF v, t
<1>11. Updated(u, t, "ready", tr, u.sendKey, k, x, u.sendSeq, u.got)
       /\ t.recvOn = u.recvOn /\ t.rejects = rej
  BY <1>9, <1>10, Zenon
<1>12. Updated(s, t, "ready", tr, s.sendKey, k, x, s.sendSeq, s.got)
       /\ t.recvOn = s.recvOn /\ ~t.rejects
  BY <1>2, <1>4, <1>11, Zenon DEF Updated
<1> QED BY <1>12 DEF t

(* What comes next to a server that has read n records of the client.        *)
Coming(n) ==
    LET u == Tail(up) \o client.out
        kind == Kind(server)
    IN  /\ n \in Nat /\ HasRead(server, n)
        /\ n + 1 \in 0..SentBy(client, kind)
        /\ IsNth(Head(up), kind, n + 1)
        /\ Len(u) = SentBy(client, kind) - (n + 1)
        /\ \A i \in 1..Len(u) : IsNth(u[i], kind, (n + 1) + i)

LEMMA NextComes ==
  ASSUME IsClient(client), IsSeq(up), up # <<>>, OnItsWay(client, up \o client.out, server),
         server.phase \in {"answered", "ready"}
  PROVE  \E n : Coming(n)
<1> DEFINE w == up \o client.out
           u == Tail(up) \o client.out
           kind == Kind(server)
           b == SentBy(client, kind)
<1>1. PICK n \in 0..b : HasRead(server, n) /\ Len(w) = b - n /\ \A i \in 1..Len(w) : IsNth(w[i], kind, n + i)
  BY DEF OnItsWay
<1>2. b \in Nat
  BY DEF SentBy, IsClient
<1>3. IsSeq(client.out)
  BY Zenon DEF IsClient
<1>4. /\ IsSeq(Tail(up)) /\ Len(up) > 0 /\ Len(Tail(up)) = Len(up) - 1 /\ Head(up) = up[1]
      /\ \A i \in 1..Len(Tail(up)) : Tail(up)[i] = up[i + 1]
      /\ Len(up) \in Nat /\ Len(client.out) \in Nat
  BY <1>3, TailOf, IsSeqFacts
<1>5. /\ Len(w) = Len(up) + Len(client.out)
      /\ \A i \in 1..Len(up) : w[i] = up[i]
      /\ \A i \in 1..Len(client.out) : w[Len(up) + i] = client.out[i]
  BY <1>3, Joined
<1>6. /\ Len(u) = Len(Tail(up)) + Len(client.out)
      /\ \A i \in 1..Len(Tail(up)) : u[i] = Tail(up)[i]
      /\ \A i \in 1..Len(client.out) : u[Len(Tail(up)) + i] = client.out[i]
  BY <1>3, <1>4, Joined
<1> HIDE DEF u, w, b, kind
<1>7. n \in Nat /\ n + 1 \in 0..b /\ Len(u) = b - (n + 1) /\ Len(w) = Len(u) + 1
  <2>1. Len(w) = b - n /\ n \in 0..b
    BY <1>1
  <2>2. Len(up) > 0 /\ Len(Tail(up)) = Len(up) - 1 /\ Len(up) \in Nat /\ Len(client.out) \in Nat
    BY <1>4
  <2>3. Len(w) = Len(up) + Len(client.out) /\ Len(u) = Len(Tail(up)) + Len(client.out)
    BY <1>5, <1>6
  <2> QED BY <1>2, <2>1, <2>2, <2>3
<1>8. IsNth(Head(up), kind, n + 1)
  <2>1. 1 \in 1..Len(w) /\ 1 \in 1..Len(up)
    BY <1>4, <1>5
  <2>2. w[1] = Head(up)
    BY <1>4, <1>5, <2>1
  <2>3. IsNth(w[1], kind, n + 1)
    BY <1>1, <2>1
  <2> QED BY <2>2, <2>3, Zenon
<1>9. ASSUME NEW i \in 1..Len(u) PROVE IsNth(u[i], kind, (n + 1) + i)
  <2>1. u[i] = w[i + 1]
    <3>1. CASE i \in 1..Len(Tail(up))
      <4>1. i + 1 \in 1..Len(up)
        BY <1>4, <3>1
      <4>2. u[i] = up[i + 1]
        BY <1>4, <1>6, <3>1
      <4>3. w[i + 1] = up[i + 1]
        BY <1>5, <4>1
      <4> QED BY <4>2, <4>3
    <3>2. CASE i \notin 1..Len(Tail(up))
      <4> DEFINE j == i - Len(Tail(up))
      <4>1. j \in 1..Len(client.out) /\ i = Len(Tail(up)) + j /\ i + 1 = Len(up) + j
        BY <1>4, <1>6, <3>2
      <4> HIDE DEF j
      <4>2. u[Len(Tail(up)) + j] = client.out[j] /\ w[Len(up) + j] = client.out[j]
        BY <1>5, <1>6, <4>1
      <4> QED BY <4>1, <4>2
    <3> QED BY <3>1, <3>2
  <2>2. i + 1 \in 1..Len(w) /\ n + (i + 1) = (n + 1) + i
    BY <1>1, <1>7
  <2>3. IsNth(w[i + 1], kind, n + (i + 1))
    BY <1>1, <2>2
  <2> QED BY <2>1, <2>2, <2>3, Zenon
<1>10. Coming(n)
  BY <1>1, <1>7, <1>8, <1>9 DEF Coming, u, kind, b
<1> QED BY <1>10

LEMMA ReadOn ==
  ASSUME NEW n, Coming(n), NEW t, Kind(t) = Kind(server), HasRead(t, n + 1)
  PROVE  OnItsWay(client, Tail(up) \o client.out, t)
<1>1. \E m \in 0..SentBy(client, Kind(t)) :
            /\ HasRead(t, m)
            /\ Len(Tail(up) \o client.out) = SentBy(client, Kind(t)) - m
            /\ \A i \in 1..Len(Tail(up) \o client.out) : IsNth((Tail(up) \o client.out)[i], Kind(t), m + i)
  BY Zenon DEF Coming
<1> QED BY <1>1, Zenon DEF OnItsWay

Live == {"answered", "ready", "peer closed"}

(* A step of the server that writes nothing.                                 *)
LEMMA ServerHears ==
  ASSUME ConversationOK, call # "none", UNCHANGED <<client, call, pending, wanted, delivered, trusted, wire, fin>>,
         ~fin, ServerOK(server'), server'.phase # "new", Kind(server') = Kind(server),
         server'.version = server.version, server'.halves = server.halves,
         server'.sent = server.sent, ServerStage(server') = ServerStage(server),
         IsSeq(up'), OnItsWay(client, up' \o client.out, server')
  PROVE  ConversationOK'
<1>1. Setting /\ IsClient(client) /\ IsSeq(wire) /\ CallOK
  BY Parts, Zenon
<1>2. /\ pending \in Seq(Nat) /\ delivered \in Seq(Nat) /\ wanted \in Nat /\ trusted \in BOOLEAN
  BY Zenon DEF ConversationOK
<1>3. CallOK'
  <2>1. Synced(client) => Synced(client)'
    BY Zenon DEF Synced
  <2> QED BY <1>1, <2>1 DEF CallOK
<1>4. GivenUp => GivenUp'
  BY DEF GivenUp, Broken
<1>5. Progress => Progress'
  <2> SUFFICES ASSUME Progress PROVE Progress'
    OBVIOUS
  <2>1. PICK at : /\ Path(at, wire, server)
                  /\ ClientAt(client, at[0])
                  /\ delivered \o pending \o client.appData = Numbers(at[0].data)
                  /\ client.appKeys => at[0].seg \in {"post", "alerted"}
    BY DEF Progress
  <2>2. Path(at, wire, server')
    BY <2>1, Zenon DEF Path
  <2> QED BY <2>1, <2>2 DEF Progress
<1>6. IsClient(client') /\ OnItsWay(client', up' \o client'.out, server') /\ IsSeq(wire')
  BY <1>1
<1> QED BY <1>2, <1>3, <1>4, <1>5, <1>6 DEF ConversationOK

LEMMA StillOK ==
  ASSUME NEW s, ServerOK(s), NEW t, NEW p, NEW tr, NEW sk, NEW rk, NEW q, NEW m, NEW g,
         Updated(s, t, p, tr, sk, rk, q, m, g), ~t.rejects, p \in Live,
         s.version # "", Len(g) \in Nat, g = Numbers(Len(g)),
         s.version = "1.3" => sk = ServerKey("1.3"),
         s.version = "1.2" => /\ Kind(t) \in Kinds12
                              /\ p # "answered" => sk = ServerKey(Kind(t))
                              /\ p = "answered" => s.sent = 0
  PROVE  ServerOK(t)
<1>1. /\ IsServer(t) /\ t.phase = p /\ t.sendKey = sk /\ t.got = g
      /\ t.version = s.version /\ t.halves = s.halves /\ t.sent = s.sent
  BY Zenon DEF Updated
<1>2. t.phase # "new" /\ t.version # ""
  BY <1>1 DEF Live
<1>3. s.version \in {"1.2", "1.3"} => s.halves > 0
  BY DEF ServerOK
<1>4. t.version = "1.3" => t.phase # "new" /\ t.sendKey = ServerKey("1.3") /\ t.halves > 0
  BY <1>1, <1>2, <1>3
<1>5. t.version = "1.2" =>
          /\ t.phase # "new" /\ Kind(t) \in Kinds12 /\ t.halves > 0
          /\ t.phase # "answered" => t.sendKey = ServerKey(Kind(t))
          /\ t.phase = "answered" => t.sent = 0
  BY <1>1, <1>2, <1>3
<1>6. Len(t.got) \in Nat /\ t.got = Numbers(Len(t.got))
  BY <1>1, Zenon
<1> QED BY <1>1, <1>2, <1>4, <1>5, <1>6, Zenon DEF ServerOK

LEMMA StillThere ==
  ASSUME NEW s, NEW t, NEW p, NEW tr, NEW sk, NEW rk, NEW q, NEW g,
         Updated(s, t, p, tr, sk, rk, q, s.sendSeq, g), Kind(t) = Kind(s), s.version # "",
         s.phase \in Live, p \in Live,
         s.version = "1.2" => (p = "answered" <=> s.phase = "answered")
  PROVE  ServerStage(t) = ServerStage(s)
<1>1. /\ t.phase = p /\ t.sendSeq = s.sendSeq /\ t.version = s.version /\ t.sent = s.sent
  BY Zenon DEF Updated
<1>2. CASE s.version = "1.2" /\ p = "answered"
  BY <1>1, <1>2 DEF ServerStage
<1>3. CASE ~(s.version = "1.2" /\ p = "answered")
  BY <1>1, <1>3 DEF ServerStage, Live
<1> QED BY <1>2, <1>3

LEMMA ReadsQuietly ==
  ASSUME ConversationOK, ServerReads, NEW n, Coming(n), NEW t, t = ReadBy(server, Head(up)),
         NEW p, NEW tr, NEW sk, NEW rk, NEW q, NEW g,
         Updated(server, t, p, tr, sk, rk, q, server.sendSeq, g), ~t.rejects, p \in Live,
         Kind(t) = Kind(server), server.version # "", Len(g) \in Nat, g = Numbers(Len(g)),
         server.version = "1.3" => sk = ServerKey("1.3"),
         server.version = "1.2" => /\ p = "answered" <=> server.phase = "answered"
                                   /\ p # "answered" => sk = server.sendKey,
         p = "peer closed" \/ HasRead(t, n + 1)
  PROVE  ConversationOK' /\ server'.sent = server.sent
<1>1. Setting /\ IsClient(client) /\ IsSeq(wire) /\ CallOK /\ ServerOK(server) /\ IsSeq(up)
  BY Parts, Zenon DEF Setting
<1>2. /\ server.phase \in {"answered", "ready"} /\ up # <<>> /\ up' = Tail(up)
      /\ UNCHANGED <<client, call, pending, wanted, delivered, trusted, fin>>
  BY DEF ServerReads
<1>3. call # "none" /\ ~fin
  BY <1>1, <1>2 DEF CallOK
<1>4. t.phase = p /\ t.version = server.version /\ t.halves = server.halves /\ t.sent = server.sent
  BY Zenon DEF Updated
<1>5. server' = t /\ wire' = wire
  <2>1. ~(t.version = "1.2" /\ t.phase = "ready" /\ server.phase = "answered")
    BY <1>4
  <2>2. Write(t, <<>>)
    BY <2>1, Zenon DEF ServerReads
  <2>3. wire \o <<>> = wire
    BY <1>1, JoinedEmpty
  <2> QED BY <2>2, <2>3, Zenon DEF Write
<1>6. ServerOK(t)
  <2>1. server.version = "1.2" => /\ Kind(t) \in Kinds12
                                  /\ p # "answered" => sk = ServerKey(Kind(t))
                                  /\ p = "answered" => server.sent = 0
    <3> SUFFICES ASSUME server.version = "1.2"
                 PROVE  /\ Kind(t) \in Kinds12
                        /\ p # "answered" => sk = ServerKey(Kind(t))
                        /\ p = "answered" => server.sent = 0
      OBVIOUS
    <3>1. /\ Kind(server) \in Kinds12
          /\ server.phase # "answered" => server.sendKey = ServerKey(Kind(server))
          /\ server.phase = "answered" => server.sent = 0
      BY <1>1, Zenon DEF ServerOK
    <3> QED BY <3>1, Zenon
  <2> QED BY <1>1, <2>1, StillOK, Zenon
<1>7. ServerStage(t) = ServerStage(server)
  <2>1. server.phase \in Live
    BY <1>2 DEF Live
  <2>2. server.version = "1.2" => (p = "answered" <=> server.phase = "answered")
    OBVIOUS
  <2> QED BY <2>1, <2>2, StillThere, Zenon
<1>8. IsSeq(up')
  BY <1>1, <1>2, TailOf
<1>9. OnItsWay(client, up' \o client.out, t)
  <2>1. CASE p = "peer closed"
    BY <1>4, <2>1 DEF OnItsWay
  <2>2. CASE HasRead(t, n + 1)
    BY <1>2, <2>2, ReadOn
  <2> QED BY <2>1, <2>2
<1>10. t.phase # "new"
  BY <1>4 DEF Live
<1>11. ConversationOK'
  BY <1>2, <1>3, <1>4, <1>5, <1>6, <1>7, <1>8, <1>9, <1>10, ServerHears
<1>12. server'.sent = server.sent
  BY <1>4, <1>5, Zenon
<1> QED BY <1>11, <1>12, Zenon

LEMMA OneNumberMore ==
  ASSUME NEW m \in Nat, NEW j, j = m + 1
  PROVE  Append(Numbers(m), j) = Numbers(j) /\ Len(Numbers(j)) = j /\ j \in Nat
<1>1. Numbers(m) \in Seq(Nat) /\ Len(Numbers(m)) = m /\ Numbers(j) \in Seq(Nat) /\ Len(Numbers(j)) = j
  BY NumbersSeq
<1>2. \A i \in 1..m : Numbers(m)[i] = i
  BY DEF Numbers
<1>3. \A i \in 1..j : Numbers(j)[i] = i
  BY DEF Numbers
<1> DEFINE s == Append(Numbers(m), j)
<1>4. s \in Seq(Nat) /\ Len(s) = j /\ s[j] = j /\ \A i \in 1..m : s[i] = Numbers(m)[i]
  BY <1>1
<1> HIDE DEF s
<1>5. ASSUME NEW i \in 1..j PROVE s[i] = Numbers(j)[i]
  <2>1. i \in 1..m \/ i = j
    OBVIOUS
  <2> QED BY <1>2, <1>3, <1>4, <2>1
<1>6. IsSeq(s) /\ IsSeq(Numbers(j))
  BY <1>1, <1>4, SeqIs
<1>7. s = Numbers(j)
  BY <1>1, <1>4, <1>5, <1>6, SameSeq
<1> QED BY <1>1, <1>7 DEF s

LEMMA Shift ==
  ASSUME NEW n \in Nat, NEW o \in Nat, n >= o
  PROVE  /\ (n + 1) - o \in Nat /\ (n + 1) - o > 0 /\ n + 1 > o
         /\ n = ((n + 1) - o) + (o - 1)
  OBVIOUS

LEMMA Shift1 ==
  ASSUME NEW n \in Nat, n >= 1
  PROVE  (n + 1) - 1 \in Nat /\ (n + 1) - 1 > 0 /\ n = (n + 1) - 1
  OBVIOUS

LEMMA Shift3 ==
  ASSUME NEW n \in Nat, n >= 3
  PROVE  (n + 1) - 3 \in Nat /\ (n + 1) - 3 > 0 /\ n = ((n + 1) - 3) + 2
  OBVIOUS

LEMMA Data13 ==
  ASSUME NEW i \in Nat, i > 0, NEW d, d = 0
  PROVE  i # 0 /\ (i - 1) + d = i - 1
  OBVIOUS

LEMMA Data12 ==
  ASSUME NEW i \in Nat, i > 2, NEW d, d = 1
  PROVE  ~(i < 3) /\ (i - 3) + d = i - 2
  OBVIOUS

LEMMA Turn13 ==
  ASSUME NEW n \in Nat, NEW j \in Nat, j > 0, n = j
  PROVE  (n + 1) - 1 = j /\ n + 1 \in Nat /\ n + 1 > 0 /\ n > 0 /\ n - 1 = j - 1
  OBVIOUS

LEMMA Turn12 ==
  ASSUME NEW n \in Nat, NEW j \in Nat, j > 0, n = j + 2
  PROVE  (n + 1) - 3 = j /\ n + 1 \in Nat /\ n + 1 > 2 /\ n > 2 /\ n - 3 = j - 1
  OBVIOUS

(* The j-th record of data of the client is what the server has read after   *)
(* n + 1 records.                                                            *)
DataTurn(n, j) ==
    /\ n \in Nat /\ j \in Nat /\ j > 0
    /\ server.version = "1.3" => n = j
    /\ server.version # "1.3" => n = j + 2

LEMMA NthData ==
  ASSUME NEW r, NEW k, NEW i, IsNth(r, k, i)
  PROVE  i > Opening(k) => IsData(r, k, i - Opening(k))
  BY Zenon DEF IsNth

LEMMA DataTurns ==
  ASSUME NEW n, Coming(n), ServerOK(server), server.version # "", n >= Opening(Kind(server))
  PROVE  \E j : DataTurn(n, j) /\ IsData(Head(up), Kind(server), j)
<1>1. n \in Nat /\ IsNth(Head(up), Kind(server), n + 1)
  BY DEF Coming
<1> DEFINE k == Kind(server)
<1>2. ASSUME NEW o \in Nat, Opening(k) = o, n >= o PROVE IsData(Head(up), k, (n + 1) - o)
  <2>1. n + 1 > Opening(k) => IsData(Head(up), k, (n + 1) - Opening(k))
    BY <1>1, NthData, Zenon
  <2>2. n + 1 > o
    BY <1>1, <1>2, Shift, Zenon
  <2> QED BY <1>2, <2>1, <2>2, Zenon
<1>3. CASE server.version = "1.3"
  <2>1. k = "1.3"
    BY <1>3 DEF Kind
  <2>2. Opening(k) = 1
    BY <2>1, Zenon DEF Opening
  <2>5. 1 \in Nat
    OBVIOUS
  <2>6. n >= 1
    BY <2>2, Zenon
  <2>3. IsData(Head(up), k, (n + 1) - 1)
    BY <1>2, <2>2, <2>5, <2>6, Zenon
  <2>4. DataTurn(n, (n + 1) - 1)
    BY <1>1, <1>3, <2>6, Shift1, Zenon DEF DataTurn
  <2> QED BY <2>3, <2>4
<1>4. CASE server.version # "1.3"
  <2>1. k # "1.3"
    BY <1>4, KindIs DEF Kinds12
  <2>2. Opening(k) = 3
    BY <2>1, Zenon DEF Opening
  <2>5. 3 \in Nat
    OBVIOUS
  <2>6. n >= 3
    BY <2>2, Zenon
  <2>3. IsData(Head(up), k, (n + 1) - 3)
    BY <1>2, <2>2, <2>5, <2>6, Zenon
  <2>4. DataTurn(n, (n + 1) - 3)
    BY <1>1, <1>4, <2>6, Shift3, Zenon DEF DataTurn
  <2> QED BY <2>3, <2>4
<1> QED BY <1>3, <1>4

(* A server that has read m records of data.                                 *)
DataHeard(t, m) ==
    /\ t.phase = "ready" /\ t.recvOn /\ t.recvKey = ClientKey(Kind(server))
    /\ t.recvSeq = m + DataBase(Kind(server)) /\ Len(t.got) = m

LEMMA HeardSome ==
  ASSUME NEW t, ServerOK(server), server.version # "", t.version = server.version, Kind(t) = Kind(server),
         NEW n, NEW j, DataTurn(n, j)
  PROVE  /\ HasRead(t, n) <=> DataHeard(t, j - 1)
         /\ HasRead(t, n + 1) <=> DataHeard(t, j)
<1>1. j \in Nat /\ j > 0 /\ n \in Nat
  BY DEF DataTurn
<1>2. CASE server.version = "1.3"
  <2>1. Kind(server) = "1.3" /\ Kind(t) = "1.3"
    BY <1>2 DEF Kind
  <2>2. DataBase(Kind(server)) = 0
    BY <2>1, Zenon DEF DataBase
  <2>3. n = j
    BY <1>2 DEF DataTurn
  <2>4. ASSUME NEW i \in Nat, i > 0 PROVE HasRead(t, i) <=> DataHeard(t, i - 1)
    <3>1. i # 0 /\ (i - 1) + DataBase(Kind(server)) = i - 1
      BY <2>2, <2>4, Data13, Zenon
    <3>2. HasRead13(t, i) <=> /\ t.phase = "ready" /\ t.recvKey = ClientKey("1.3")
                              /\ t.recvSeq = i - 1 /\ Len(t.got) = i - 1
      BY <3>1, Zenon DEF HasRead13
    <3>3. HasRead(t, i) <=> t.recvOn /\ HasRead13(t, i)
      BY <1>2, Zenon DEF HasRead
    <3>4. DataHeard(t, i - 1) <=> /\ t.phase = "ready" /\ t.recvOn /\ t.recvKey = ClientKey("1.3")
                                  /\ t.recvSeq = i - 1 /\ Len(t.got) = i - 1
      BY <2>1, <3>1, Zenon DEF DataHeard
    <3> QED BY <3>2, <3>3, <3>4, Zenon
  <2>5. (n + 1) - 1 = j /\ n + 1 \in Nat /\ n + 1 > 0 /\ n > 0 /\ n - 1 = j - 1
    BY <1>1, <2>3, Turn13, Zenon
  <2> QED BY <1>1, <2>4, <2>5, Zenon
<1>3. CASE server.version # "1.3"
  <2>1. Kind(server) # "1.3"
    BY <1>3, KindIs DEF Kinds12
  <2>2. DataBase(Kind(server)) = 1
    BY <2>1, Zenon DEF DataBase
  <2>3. n = j + 2
    BY <1>3 DEF DataTurn
  <2>4. ASSUME NEW i \in Nat, i > 2 PROVE HasRead(t, i) <=> DataHeard(t, i - 3)
    <3>1. ~(i < 3) /\ (i - 3) + DataBase(Kind(server)) = i - 2
      BY <2>2, <2>4, Data12, Zenon
    <3>2. HasRead12(t, Kind(t), i) <=> /\ t.phase = "ready" /\ t.recvOn /\ t.recvKey = ClientKey(Kind(t))
                                       /\ t.recvSeq = i - 2 /\ Len(t.got) = i - 3
      BY <3>1, Zenon DEF HasRead12
    <3>3. HasRead(t, i) <=> HasRead12(t, Kind(t), i)
      BY <1>3, Zenon DEF HasRead
    <3>4. DataHeard(t, i - 3) <=> /\ t.phase = "ready" /\ t.recvOn /\ t.recvKey = ClientKey(Kind(t))
                                  /\ t.recvSeq = i - 2 /\ Len(t.got) = i - 3
      BY <3>1, Zenon DEF DataHeard
    <3> QED BY <3>2, <3>3, <3>4, Zenon
  <2>5. (n + 1) - 3 = j /\ n + 1 \in Nat /\ n + 1 > 2 /\ n > 2 /\ n - 3 = j - 1
    BY <1>1, <2>3, Turn12, Zenon
  <2> QED BY <1>1, <2>4, <2>5, Zenon
<1> QED BY <1>2, <1>3

LEMMA OneNumberLess ==
  ASSUME NEW j \in Nat, j > 0
  PROVE  j - 1 \in Nat /\ j = (j - 1) + 1
OBVIOUS

LEMMA SeqsAdd ==
  ASSUME NEW m \in Nat, NEW b \in {0, 1}, NEW j, j = m + 1
  PROVE  m + b \in Nat /\ (m + b) + 1 = j + b
OBVIOUS

LEMMA KindStays ==
  ASSUME NEW s, NEW t, t.version = s.version, t.transcript = s.transcript
  PROVE  Kind(t) = Kind(s)
BY DEF Kind

LEMMA DataBases ==
  ASSUME NEW kind
  PROVE  DataBase(kind) \in {0, 1}
BY DEF DataBase

(* A record of data that the server reads.                                   *)
DataNext(n, j) ==
    /\ Coming(n) /\ DataTurn(n, j) /\ IsData(Head(up), Kind(server), j)
    /\ server.version # ""

LEMMA DataFacts ==
  ASSUME ConversationOK, ServerReads, NEW n, NEW j, DataNext(n, j)
  PROVE  /\ server.phase = "ready" /\ server.recvOn /\ server.recvKey = ClientKey(Kind(server))
         /\ server.recvSeq \in Nat /\ server.recvSeq = (j - 1) + DataBase(Kind(server))
         /\ server.recvSeq + 1 = j + DataBase(Kind(server))
         /\ server.got = Numbers(j - 1) /\ j - 1 \in Nat /\ j = (j - 1) + 1
         /\ IsServer(server) /\ ~server.rejects /\ ServerOK(server)
<1>1. ServerOK(server)
  BY Parts, Zenon DEF Setting
<1>2. Coming(n) /\ DataTurn(n, j) /\ server.version # ""
  BY Zenon DEF DataNext
<1>3. HasRead(server, n)
  BY <1>2, Zenon DEF Coming
<1>4. DataHeard(server, j - 1)
  BY <1>1, <1>2, <1>3, HeardSome, Zenon
<1>5. j \in Nat /\ j > 0
  BY <1>2, Zenon DEF DataTurn
<1>6. j - 1 \in Nat /\ j = (j - 1) + 1
  BY <1>5, OneNumberLess, Zenon
<1>7. DataBase(Kind(server)) \in {0, 1}
  BY DataBases, Zenon
<1>8. /\ (j - 1) + DataBase(Kind(server)) \in Nat
      /\ ((j - 1) + DataBase(Kind(server))) + 1 = j + DataBase(Kind(server))
  BY <1>6, <1>7, SeqsAdd, Zenon
<1>9. /\ server.phase = "ready" /\ server.recvOn /\ server.recvKey = ClientKey(Kind(server))
      /\ server.recvSeq = (j - 1) + DataBase(Kind(server)) /\ Len(server.got) = j - 1
  BY <1>4, Zenon DEF DataHeard
<1>10. server.got = Numbers(j - 1)
  BY <1>1, <1>9, Zenon DEF ServerOK
<1>11. IsServer(server) /\ ~server.rejects
  BY <1>1, Zenon DEF ServerOK
<1> QED BY <1>1, <1>6, <1>8, <1>9, <1>10, <1>11, Zenon

LEMMA ReadsAppData ==
  ASSUME ConversationOK, ServerReads, NEW n, NEW j, DataNext(n, j),
         Head(up) = Rec("app", ClientKey(Kind(server)), j - 1 + DataBase(Kind(server)), j)
  PROVE  ConversationOK' /\ server'.sent = server.sent
<1> DEFINE r == Head(up)
           t == ReadBy(server, r)
           g == Append(server.got, r.body)
           q == server.recvSeq + 1
<1>1. /\ server.phase = "ready" /\ server.recvOn /\ server.recvKey = ClientKey(Kind(server))
      /\ server.recvSeq \in Nat /\ server.recvSeq = (j - 1) + DataBase(Kind(server))
      /\ server.recvSeq + 1 = j + DataBase(Kind(server))
      /\ server.got = Numbers(j - 1) /\ j - 1 \in Nat /\ j = (j - 1) + 1
      /\ IsServer(server) /\ ~server.rejects /\ ServerOK(server)
  BY DataFacts, Zenon
<1>2. r.type = "app" /\ r.key = ClientKey(Kind(server)) /\ r.seq = j - 1 + DataBase(Kind(server)) /\ r.body = j
  BY DEF Rec
<1>3. Heard(server, r)
  <2>1. r.type # "ccs"
    BY <1>2
  <2> QED BY <1>1, <1>2, <2>1, Zenon DEF Heard
<1> HIDE DEF r, q
<1>4. /\ Updated(server, t, server.phase, server.transcript, server.sendKey, server.recvKey, q, server.sendSeq, g)
      /\ t.recvOn = server.recvOn /\ t.rejects = server.rejects
  BY <1>1, <1>2, <1>3, ReadData, Zenon DEF q
<1>5. g = Numbers(j) /\ Len(Numbers(j)) = j /\ j \in Nat
  BY <1>1, <1>2, OneNumberMore, Zenon
<1> HIDE DEF t, g
<1>6. /\ t.phase = "ready" /\ t.recvOn /\ t.recvKey = ClientKey(Kind(server))
      /\ t.recvSeq = j + DataBase(Kind(server)) /\ t.got = Numbers(j) /\ ~t.rejects
      /\ t.version = server.version /\ t.transcript = server.transcript
  BY <1>1, <1>4, <1>5, Zenon DEF Updated, q
<1>7. Kind(t) = Kind(server)
  BY <1>6, KindStays, Zenon
<1>8. DataHeard(t, j)
  BY <1>5, <1>6, Zenon DEF DataHeard
<1>9. Coming(n) /\ DataTurn(n, j) /\ server.version # ""
  BY Zenon DEF DataNext
<1>10. HasRead(t, n + 1)
  BY <1>1, <1>6, <1>7, <1>8, <1>9, HeardSome, Zenon
<1>11. "ready" \in Live /\ "ready" # "answered"
  BY DEF Live
<1>12. Updated(server, t, "ready", server.transcript, server.sendKey, server.recvKey, q, server.sendSeq, Numbers(j))
  BY <1>1, <1>4, <1>5, Zenon
<1>13. server.version = "1.3" => server.sendKey = ServerKey("1.3")
  BY <1>1, Zenon DEF ServerOK
<1>14. server.version = "1.2" => /\ "ready" = "answered" <=> server.phase = "answered"
                                 /\ "ready" # "answered" => server.sendKey = server.sendKey
  BY <1>1
<1>15. Len(Numbers(j)) \in Nat /\ Numbers(j) = Numbers(Len(Numbers(j)))
  BY <1>5, Zenon
<1>16. t = ReadBy(server, Head(up))
  BY DEF t, r
<1> QED BY <1>6, <1>7, <1>9, <1>10, <1>11, <1>12, <1>13, <1>14, <1>15, <1>16, ReadsQuietly, Zenon

LEMMA ReadsClose ==
  ASSUME ConversationOK, ServerReads, NEW n, NEW j, DataNext(n, j),
         Head(up) = Rec("alert", ClientKey(Kind(server)), j - 1 + DataBase(Kind(server)), "close_notify")
  PROVE  ConversationOK' /\ server'.sent = server.sent
<1> DEFINE r == Head(up)
           t == ReadBy(server, r)
           q == server.recvSeq + 1
<1>1. /\ server.phase = "ready" /\ server.recvOn /\ server.recvKey = ClientKey(Kind(server))
      /\ server.recvSeq \in Nat /\ server.recvSeq = (j - 1) + DataBase(Kind(server))
      /\ server.recvSeq + 1 = j + DataBase(Kind(server))
      /\ server.got = Numbers(j - 1) /\ j - 1 \in Nat /\ j = (j - 1) + 1
      /\ IsServer(server) /\ ~server.rejects /\ ServerOK(server)
  BY DataFacts, Zenon
<1>2. r.type = "alert" /\ r.key = ClientKey(Kind(server)) /\ r.seq = j - 1 + DataBase(Kind(server))
  BY DEF Rec
<1>3. Heard(server, r)
  <2>1. r.type # "ccs"
    BY <1>2
  <2> QED BY <1>1, <1>2, <2>1, Zenon DEF Heard
<1> HIDE DEF r, q
<1>4. /\ Updated(server, t, "peer closed", server.transcript, server.sendKey, server.recvKey, q, server.sendSeq, server.got)
      /\ t.recvOn = server.recvOn /\ t.rejects = server.rejects
  BY <1>1, <1>2, <1>3, ReadClose, Zenon DEF q
<1> HIDE DEF t
<1>6. /\ ~t.rejects /\ t.version = server.version /\ t.transcript = server.transcript
  BY <1>1, <1>4, Zenon DEF Updated
<1>7. Kind(t) = Kind(server)
  BY <1>6, KindStays, Zenon
<1>9. Coming(n) /\ server.version # ""
  BY Zenon DEF DataNext
<1>11. "peer closed" \in Live /\ "peer closed" # "answered"
  BY DEF Live
<1>13. server.version = "1.3" => server.sendKey = ServerKey("1.3")
  BY <1>1, Zenon DEF ServerOK
<1>14. server.version = "1.2" => /\ "peer closed" = "answered" <=> server.phase = "answered"
                                 /\ "peer closed" # "answered" => server.sendKey = server.sendKey
  BY <1>1
<1>15. Len(server.got) \in Nat /\ server.got = Numbers(Len(server.got))
  BY <1>1, Zenon DEF ServerOK
<1>16. t = ReadBy(server, Head(up))
  BY DEF t, r
<1> QED BY <1>4, <1>6, <1>7, <1>9, <1>11, <1>13, <1>14, <1>15, <1>16, ReadsQuietly, Zenon

LEMMA FirstRecords ==
  ASSUME NEW r, NEW kind
  PROVE  /\ kind = "1.3" /\ IsNth(r, kind, 1) =>
               r = Rec("hs", ClientFlightKey, 0, Msg("ClientFinished", UpTo(Seen13, 6)))
         /\ kind # "1.3" /\ IsNth(r, kind, 1) => r = Rec("hs", Plain, 0, Msg("ClientKeyExchange", <<>>))
         /\ kind # "1.3" /\ IsNth(r, kind, 2) => r = Ccs
         /\ kind # "1.3" /\ IsNth(r, kind, 3) =>
               r = Rec("hs", ClientKey(kind), 0, Msg("ClientFinished", UpTo(Seen12(kind), 6)))
<1>1. ASSUME kind = "1.3", IsNth(r, kind, 1)
      PROVE  r = Rec("hs", ClientFlightKey, 0, Msg("ClientFinished", UpTo(Seen13, 6)))
  <2>1. ~(1 > Opening(kind))
    BY <1>1 DEF Opening
  <2> QED BY <1>1, <2>1, Zenon DEF IsNth
<1> DEFINE v == << Rec("hs", Plain, 0, Msg("ClientKeyExchange", <<>>)), Ccs,
                Rec("hs", ClientKey(kind), 0, Msg("ClientFinished", UpTo(Seen12(kind), 6)))>>
<1>2. ASSUME kind # "1.3", NEW i \in 1..3, IsNth(r, kind, i) PROVE r = v[i]
  <2>1. ~(i > Opening(kind))
    BY <1>2 DEF Opening
  <2> QED BY <1>2, <2>1, Zenon DEF IsNth
<1>3. /\ v[1] = Rec("hs", Plain, 0, Msg("ClientKeyExchange", <<>>))
      /\ v[2] = Ccs
      /\ v[3] = Rec("hs", ClientKey(kind), 0, Msg("ClientFinished", UpTo(Seen12(kind), 6)))
  OBVIOUS
<1> HIDE DEF v
<1>4. 1 \in 1..3 /\ 2 \in 1..3 /\ 3 \in 1..3
  OBVIOUS
<1> QED BY <1>1, <1>2, <1>3, <1>4, Zenon

(* A record of the handshake that the server reads, after n others.          *)
HandshakeNext(n) ==
    /\ Coming(n) /\ server.version # ""
    /\ ServerOK(server)

LEMMA HandshakeFacts ==
  ASSUME NEW n, HandshakeNext(n)
  PROVE  /\ IsServer(server) /\ ~server.rejects /\ HasRead(server, n)
         /\ IsNth(Head(up), Kind(server), n + 1)
         /\ Len(server.got) \in Nat /\ server.got = Numbers(Len(server.got))
         /\ server.version = "1.3" => Kind(server) = "1.3" /\ server.sendKey = ServerKey("1.3")
         /\ server.version # "1.3" => Kind(server) \in Kinds12 /\ Kind(server) # "1.3" /\ server.version = "1.2"
<1>1. HasRead(server, n) /\ IsNth(Head(up), Kind(server), n + 1) /\ server.version # "" /\ ServerOK(server)
  BY Zenon DEF HandshakeNext, Coming
<1>2. /\ IsServer(server) /\ ~server.rejects /\ Len(server.got) \in Nat /\ server.got = Numbers(Len(server.got))
      /\ server.version = "1.3" => server.sendKey = ServerKey("1.3")
  BY <1>1, Zenon DEF ServerOK
<1>3. /\ server.version = "1.3" => Kind(server) = "1.3"
      /\ server.version # "1.3" => Kind(server) \in Kinds12 /\ server.version = "1.2"
  BY <1>1, KindIs
<1>4. "1.3" \notin Kinds12
  BY DEF Kinds12
<1> QED BY <1>1, <1>2, <1>3, <1>4, Zenon

LEMMA NoBytes ==
  ASSUME NEW g, g = <<>>
  PROVE  Len(g) = 0
OBVIOUS

LEMMA ReadsFinished13 ==
  ASSUME ConversationOK, ServerReads, NEW n, n = 0, HandshakeNext(n), server.version = "1.3"
  PROVE  ConversationOK' /\ server'.sent = server.sent
<1> DEFINE r == Head(up)
           t == ReadBy(server, r)
           tr == Append(server.transcript, "ClientFinished")
           q == server.recvSeq + 1
           g == server.got
<1>1. /\ IsServer(server) /\ ~server.rejects /\ HasRead(server, n) /\ IsNth(Head(up), Kind(server), n + 1)
      /\ Len(server.got) \in Nat /\ server.got = Numbers(Len(server.got))
      /\ Kind(server) = "1.3" /\ server.sendKey = ServerKey("1.3")
  BY HandshakeFacts, Zenon
<1>2. n + 1 = 1
  OBVIOUS
<1>3. server.recvOn /\ HasRead13(server, n)
  BY <1>1, Zenon DEF HasRead
<1>4. /\ server.phase = "answered" /\ server.recvKey = ClientFlightKey /\ server.recvSeq = 0
      /\ server.transcript = UpTo(Seen13, 6) /\ server.got = <<>>
  BY <1>3, Zenon DEF HasRead13
<1>5. r = Rec("hs", ClientFlightKey, 0, Msg("ClientFinished", UpTo(Seen13, 6)))
  BY <1>1, <1>2, FirstRecords, Zenon
<1>6. /\ r.type = "hs" /\ r.key = ClientFlightKey /\ r.seq = 0
      /\ r.body.type = "ClientFinished" /\ r.body.th = UpTo(Seen13, 6)
  BY <1>5 DEF Rec, Msg
<1>7. r.type # "ccs" /\ 0 \in Nat
  BY <1>6
<1> HIDE DEF r
<1>8. Heard(server, r) /\ server.recvSeq \in Nat /\ r.body.th = server.transcript
  BY <1>3, <1>4, <1>6, <1>7, Zenon DEF Heard
<1> HIDE DEF q, tr
<1>9. /\ Updated(server, t, "ready", tr, server.sendKey, ClientKey("1.3"), 0, server.sendSeq, server.got)
      /\ t.recvOn = server.recvOn /\ ~t.rejects
  <2>1. server.version = "1.3" => ClientKey("1.3") = <<"c ap", server.transcript>> /\ 0 = 0
    BY <1>4, Zenon DEF ClientKey
  <2>2. server.version # "1.3" => ClientKey("1.3") = server.recvKey /\ 0 = q
    OBVIOUS
  <2> QED BY <1>1, <1>6, <1>8, <2>1, <2>2, ReadFinished, Zenon DEF q, tr
<1> HIDE DEF t
<1>10. /\ t.phase = "ready" /\ t.recvKey = ClientKey("1.3") /\ t.recvSeq = 0 /\ t.got = <<>>
       /\ t.version = "1.3" /\ t.recvOn
  BY <1>3, <1>4, <1>9, Zenon DEF Updated
<1>11. Kind(t) = Kind(server)
  BY <1>1, <1>10 DEF Kind
<1>12. HasRead(t, n + 1)
  <2>1. Len(t.got) = 0
    BY <1>10, NoBytes, Zenon
  <2>2. 1 # 0 /\ 1 - 1 = 0
    OBVIOUS
  <2>3. HasRead13(t, 1)
    BY <1>10, <2>1, <2>2, Zenon DEF HasRead13
  <2> QED BY <1>2, <1>10, <2>3, Zenon DEF HasRead
<1>13. "ready" \in Live
  BY DEF Live
<1>14. Coming(n) /\ server.version # ""
  BY Zenon DEF HandshakeNext
<1>15. ~(server.version = "1.2")
  OBVIOUS
<1>16. t = ReadBy(server, Head(up))
  BY DEF t, r
<1> QED BY <1>1, <1>9, <1>11, <1>12, <1>13, <1>14, <1>15, <1>16, ReadsQuietly, Zenon

LEMMA KindOther ==
  ASSUME NEW s, s.version # "", s.version # "1.3"
  PROVE  Kind(s) = s.transcript[2]
BY DEF Kind

LEMMA ReadsKeyExchange ==
  ASSUME ConversationOK, ServerReads, NEW n, n = 0, HandshakeNext(n), server.version # "1.3"
  PROVE  ConversationOK' /\ server'.sent = server.sent
<1> DEFINE r == Head(up)
           t == ReadBy(server, r)
           kind == Kind(server)
           tr == Append(server.transcript, "ClientKeyExchange")
<1>1. /\ IsServer(server) /\ ~server.rejects /\ HasRead(server, n) /\ IsNth(Head(up), kind, n + 1)
      /\ Len(server.got) \in Nat /\ server.got = Numbers(Len(server.got))
      /\ kind \in Kinds12 /\ kind # "1.3" /\ server.version = "1.2"
  BY HandshakeFacts, Zenon
<1>2. n + 1 = 1 /\ n < 3 /\ ~(n = 2) /\ 1 < 3 /\ ~(1 = 2) /\ 1 # 0 /\ 1 > 0
  OBVIOUS
<1> HIDE DEF kind
<1>3. HasRead12(server, kind, n)
  BY <1>1, Zenon DEF HasRead, kind
<1>4. /\ server.phase = "answered" /\ server.recvOn = (n = 2) /\ server.recvSeq = 0 /\ server.got = <<>>
      /\ server.transcript = UpTo(Seen12(kind), 5)
  BY <1>2, <1>3, Zenon DEF HasRead12
<1>5. r = Rec("hs", Plain, 0, Cke)
  BY <1>1, <1>2, FirstRecords, Zenon DEF Cke
<1>6. r.type = "hs" /\ r.key = Plain /\ r.seq = 0 /\ r.body = Cke
  BY <1>5 DEF Rec
<1>7. ~server.recvOn
  BY <1>2, <1>4, Zenon
<1> HIDE DEF r
<1>8. tr = UpTo(Seen12(kind), 6)
  BY <1>1, <1>4, Grows12, Zenon
<1> HIDE DEF tr
<1>9. /\ Updated(server, t, server.phase, tr, ServerKey(kind), ClientKey(kind), 0, server.sendSeq, server.got)
      /\ t.recvOn = server.recvOn /\ t.rejects = server.rejects
  BY <1>1, <1>4, <1>6, <1>7, <1>8, ReadCke, Zenon DEF tr
<1> HIDE DEF t
<1>10. /\ t.phase = "answered" /\ t.recvKey = ClientKey(kind) /\ t.sendKey = ServerKey(kind)
       /\ t.recvSeq = 0 /\ t.got = <<>>
       /\ t.version = "1.2" /\ t.transcript = UpTo(Seen12(kind), 6)
  BY <1>1, <1>4, <1>8, <1>9, Zenon DEF Updated
<1>11. ~t.recvOn /\ ~t.rejects
  BY <1>1, <1>7, <1>9, Zenon
<1>12. Kind(t) = kind
  <2>1. UpTo(Seen12(kind), 6)[2] = kind
    BY DEF UpTo, Seen12
  <2>2. t.version # "" /\ t.version # "1.3"
    BY <1>10
  <2>3. t.transcript[2] = kind
    BY <1>10, <2>1, Zenon
  <2> QED BY <2>2, <2>3, KindOther, Zenon
<1>13. HasRead(t, n + 1)
  <2>1. t.recvOn = (1 = 2)
    <3>1. (1 = 2) = FALSE /\ (n = 2) = FALSE
      OBVIOUS
    <3> QED BY <1>4, <1>9, <3>1, Zenon
  <2>2. HasRead12(t, kind, 1)
    BY <1>2, <1>10, <2>1, Zenon DEF HasRead12
  <2>3. t.version # "1.3"
    BY <1>10
  <2> QED BY <1>2, <1>12, <2>2, <2>3, Zenon DEF HasRead
<1>14. "answered" \in Live
  BY DEF Live
<1>15. Coming(n) /\ server.version # ""
  BY Zenon DEF HandshakeNext
<1>16. t = ReadBy(server, Head(up))
  BY DEF t, r
<1>17. Updated(server, t, "answered", tr, ServerKey(kind), ClientKey(kind), 0, server.sendSeq, server.got)
  BY <1>4, <1>9, Zenon
<1>18. ~(server.version = "1.3")
  OBVIOUS
<1> QED BY <1>1, <1>4, <1>11, <1>12, <1>13, <1>14, <1>15, <1>16, <1>17, <1>18, ReadsQuietly, Zenon DEF kind

LEMMA ReadsChange ==
  ASSUME ConversationOK, ServerReads, NEW n, n = 1, HandshakeNext(n), server.version # "1.3"
  PROVE  ConversationOK' /\ server'.sent = server.sent
<1> DEFINE r == Head(up)
           t == ReadBy(server, r)
           kind == Kind(server)
<1>1. /\ IsServer(server) /\ ~server.rejects /\ HasRead(server, n) /\ IsNth(Head(up), kind, n + 1)
      /\ Len(server.got) \in Nat /\ server.got = Numbers(Len(server.got))
      /\ kind \in Kinds12 /\ kind # "1.3" /\ server.version = "1.2"
  BY HandshakeFacts, Zenon
<1>2. n + 1 = 2 /\ n < 3 /\ 2 < 3 /\ 2 # 0 /\ n # 0 /\ n > 0 /\ 2 > 0
  OBVIOUS
<1> HIDE DEF kind
<1>3. HasRead12(server, kind, n)
  BY <1>1, Zenon DEF HasRead, kind
<1>4. /\ server.phase = "answered" /\ server.recvSeq = 0 /\ server.got = <<>>
      /\ server.transcript = UpTo(Seen12(kind), 6)
      /\ server.recvKey = ClientKey(kind) /\ server.sendKey = ServerKey(kind)
  BY <1>2, <1>3, Zenon DEF HasRead12
<1>5. r = Ccs
  BY <1>1, <1>2, FirstRecords, Zenon
<1>6. r.type = "ccs"
  BY <1>5 DEF Rec, Ccs
<1> HIDE DEF r
<1>9. /\ Updated(server, t, server.phase, server.transcript, server.sendKey, server.recvKey, 0, server.sendSeq, server.got)
      /\ t.recvOn = TRUE /\ t.rejects = server.rejects
  BY <1>1, <1>6, ReadCcs, Zenon
<1> HIDE DEF t
<1>10. /\ t.phase = "answered" /\ t.recvKey = ClientKey(kind) /\ t.sendKey = ServerKey(kind)
       /\ t.recvSeq = 0 /\ t.got = <<>>
       /\ t.version = server.version /\ t.transcript = UpTo(Seen12(kind), 6)
       /\ t.transcript = server.transcript
  BY <1>4, <1>9, Zenon DEF Updated
<1>11. t.recvOn /\ ~t.rejects
  BY <1>1, <1>9, Zenon
<1>12. Kind(t) = kind
  BY <1>10, KindStays, Zenon DEF kind
<1>13. HasRead(t, n + 1)
  <2>1. t.recvOn = (2 = 2)
    BY <1>9, Zenon
  <2>2. HasRead12(t, kind, 2)
    BY <1>2, <1>10, <2>1, Zenon DEF HasRead12
  <2> QED BY <1>2, <1>10, <1>12, <2>2, Zenon DEF HasRead
<1>14. "answered" \in Live
  BY DEF Live
<1>15. Coming(n) /\ server.version # ""
  BY Zenon DEF HandshakeNext
<1>16. t = ReadBy(server, Head(up))
  BY DEF t, r
<1>17. Updated(server, t, "answered", server.transcript, server.sendKey, server.recvKey, 0, server.sendSeq, server.got)
  BY <1>4, <1>9, Zenon
<1>18. ~(server.version = "1.3")
  OBVIOUS
<1> QED BY <1>1, <1>4, <1>11, <1>12, <1>13, <1>14, <1>15, <1>16, <1>17, <1>18, ReadsQuietly, Zenon DEF kind

Wrote(s, x, y) == [s EXCEPT !.transcript = x, !.sendSeq = y]

LEMMA UpdateWrites ==
  ASSUME NEW s, IsServer(s), NEW x, NEW y
  PROVE  Wrote(s, x, y) =
         Update(s, s.phase, x, s.sendKey, s.recvKey, s.recvSeq, y, s.got, s.recvOn, s.rejects)
BY DEF IsServer, Update, Wrote

WroteAs(s, x, y) ==
    LET t == Wrote(s, x, y)
    IN  /\ Updated(s, t, s.phase, x, s.sendKey, s.recvKey, s.recvSeq, y, s.got)
        /\ t.recvOn = s.recvOn /\ t.rejects = s.rejects

LEMMA WroteIs ==
  ASSUME NEW s, IsServer(s), s.phase \in Phases, NEW x, NEW y \in Nat
  PROVE  WroteAs(s, x, y)
<1>1. Wrote(s, x, y) = Update(s, s.phase, x, s.sendKey, s.recvKey, s.recvSeq, y, s.got, s.recvOn, s.rejects)
  BY UpdateWrites, Zenon
<1>2. s.recvOn \in BOOLEAN
  BY Zenon DEF IsServer
<1>3. ASSUME NEW p, p \in Phases, NEW on, on \in BOOLEAN, NEW rej
      PROVE  UpdateTo(s, p, x, s.sendKey, s.recvKey, s.recvSeq, y, s.got, on, rej)
  BY <1>3, UpdateToIs, Zenon
<1>4. UpdateTo(s, s.phase, x, s.sendKey, s.recvKey, s.recvSeq, y, s.got, s.recvOn, s.rejects)
  BY <1>2, <1>3, Zenon
<1> QED BY <1>1, <1>4, Zenon DEF UpdateTo, WroteAs

LEMMA FinishedKind ==
  ASSUME NEW kind
  PROVE  /\ UpTo(Seen12(kind), 7)[2] = kind
         /\ Append(UpTo(Seen12(kind), 7), "Finished12")[2] = kind
BY DEF UpTo, Seen12

(* The Finished of a 1.2 client: the server answers with its own.            *)
LEMMA ReadsFinished12 ==
  ASSUME ConversationOK, ServerReads, NEW n, n = 2, HandshakeNext(n), server.version # "1.3"
  PROVE  ConversationOK' /\ server'.sent = server.sent
<1> DEFINE r == Head(up)
           t == ReadBy(server, r)
           kind == Kind(server)
           tr == Append(server.transcript, "ClientFinished")
           q == server.recvSeq + 1
           k == server.halves
           recs == Records(Finished12(kind), ServerKey(kind), k)
           m == Len(recs)
           done == Append(tr, "Finished12")
           s == Wrote(t, done, m)
<1>1. /\ IsServer(server) /\ ~server.rejects /\ HasRead(server, n) /\ IsNth(Head(up), kind, n + 1)
      /\ Len(server.got) \in Nat /\ server.got = Numbers(Len(server.got))
      /\ kind \in Kinds12 /\ kind # "1.3" /\ server.version = "1.2"
  BY HandshakeFacts, Zenon
<1>2. n + 1 = 3 /\ n < 3 /\ n # 0 /\ n > 0 /\ ~(3 < 3) /\ 3 - 2 = 1 /\ 3 - 3 = 0
  OBVIOUS
<1>3. ServerOK(server) /\ k \in Nat /\ k > 0 /\ Setting /\ CallOK /\ IsSeq(up) /\ IsSeq(wire)
  <2>1. Setting /\ CallOK /\ IsSeq(wire)
    BY Parts, Zenon
  <2>2. ServerOK(server) /\ IsSeq(up)
    BY <2>1, Zenon DEF Setting
  <2>3. k > 0
    BY <1>1, <2>2, Zenon DEF ServerOK
  <2>4. k \in Nat
    BY <1>1, Zenon DEF IsServer
  <2> QED BY <2>1, <2>2, <2>3, <2>4, Zenon
<1> HIDE DEF kind, k
<1>4. HasRead12(server, kind, n)
  BY <1>1, Zenon DEF HasRead, kind
<1>5. /\ server.phase = "answered" /\ server.recvOn = (n = 2) /\ server.recvSeq = 0 /\ server.got = <<>>
      /\ server.transcript = UpTo(Seen12(kind), 6)
      /\ server.recvKey = ClientKey(kind) /\ server.sendKey = ServerKey(kind)
  BY <1>2, <1>4, Zenon DEF HasRead12
<1>6. r = Rec("hs", ClientKey(kind), 0, Msg("ClientFinished", UpTo(Seen12(kind), 6)))
  BY <1>1, <1>2, FirstRecords, Zenon
<1>7. /\ r.type = "hs" /\ r.type # "ccs" /\ r.key = ClientKey(kind) /\ r.seq = 0
      /\ r.body.type = "ClientFinished" /\ r.body.th = UpTo(Seen12(kind), 6)
  BY <1>6 DEF Rec, Msg
<1>8. server.recvOn /\ 0 \in Nat
  BY <1>5, Zenon
<1> HIDE DEF r
<1>9. Heard(server, r) /\ server.recvSeq \in Nat /\ r.body.th = server.transcript
  BY <1>5, <1>7, <1>8, Zenon DEF Heard
<1>10. q = 1
  BY <1>5
<1>11. tr = UpTo(Seen12(kind), 7)
  BY <1>1, <1>5, Grows12, Zenon
<1> HIDE DEF q, tr, recs, m, s
<1>12. /\ Updated(server, t, "ready", tr, server.sendKey, server.recvKey, q, server.sendSeq, server.got)
       /\ t.recvOn = server.recvOn /\ ~t.rejects
  BY <1>1, <1>7, <1>9, ReadFinished, Zenon DEF q, tr
<1> HIDE DEF t
<1>13. /\ IsServer(t) /\ t.phase = "ready" /\ t.transcript = UpTo(Seen12(kind), 7) /\ t.sendKey = ServerKey(kind)
       /\ t.recvKey = ClientKey(kind) /\ t.recvSeq = 1 /\ t.got = server.got
       /\ t.version = "1.2" /\ t.halves = k /\ t.sent = server.sent
  BY <1>1, <1>5, <1>10, <1>11, <1>12, Zenon DEF Updated, k
<1>14. t.recvOn /\ ~t.rejects
  BY <1>8, <1>12, Zenon
<1>15. /\ up # <<>> /\ up' = Tail(up)
       /\ UNCHANGED <<client, call, pending, wanted, delivered, trusted, fin>>
       /\ server' = s /\ wire' = wire \o (<<Ccs>> \o recs)
  <2>1. up # <<>> /\ up' = Tail(up) /\ UNCHANGED <<client, call, pending, wanted, delivered, trusted, fin>>
    BY DEF ServerReads
  <2>2. t = ReadBy(server, Head(up))
    BY DEF t, r
  <2>3. Records(<<Msg("Finished12", t.transcript)>>, t.sendKey, t.halves) = recs
    BY <1>13, Zenon DEF recs, Finished12
  <2>4. Write([t EXCEPT !.transcript = Append(@, "Finished12"), !.sendSeq = Len(recs)], <<Ccs>> \o recs)
    BY <1>5, <1>13, <2>2, <2>3, Zenon DEF ServerReads
  <2>5. [t EXCEPT !.transcript = Append(@, "Finished12"), !.sendSeq = Len(recs)] = s
    BY <1>11, <1>13, Zenon DEF s, m, done, Wrote
  <2> QED BY <2>1, <2>4, <2>5, Zenon DEF Write
<1>16. /\ IsSeq(WrittenFin(kind, k)) /\ m \in Nat
       /\ RouteFrom(WrittenFin(kind, k), kind, k, 0,
                    Stage("plain", kind, 8, 0, 0), Stage("post", kind, 0, m, 0))
  BY <1>1, <1>3, RouteFin, Zenon DEF m, recs
<1>17. <<Ccs>> \o recs = WrittenFin(kind, k)
  BY DEF WrittenFin, recs
<1> HIDE DEF done
<1>18. /\ Updated(t, s, "ready", done, ServerKey(kind), ClientKey(kind), 1, m, server.got)
       /\ s.recvOn = t.recvOn /\ s.rejects = t.rejects
  <2>1. t.phase \in Phases
    BY <1>13 DEF Phases
  <2>2. WroteAs(t, done, m)
    BY <1>13, <1>16, <2>1, WroteIs, Zenon
  <2>3. /\ Updated(t, s, t.phase, done, t.sendKey, t.recvKey, t.recvSeq, m, t.got)
        /\ s.recvOn = t.recvOn /\ s.rejects = t.rejects
    BY <2>2, Zenon DEF WroteAs, s
  <2> QED BY <1>13, <2>3, Zenon
<1>19. /\ IsServer(s) /\ s.phase = "ready" /\ s.transcript = done /\ s.sendKey = ServerKey(kind)
       /\ s.recvKey = ClientKey(kind) /\ s.recvSeq = 1 /\ s.got = server.got /\ s.sendSeq = m
       /\ s.version = "1.2" /\ s.halves = k /\ s.sent = server.sent
  BY <1>13, <1>18, Zenon DEF Updated
<1>20. s.recvOn /\ ~s.rejects
  BY <1>14, <1>18, Zenon
<1>21. Updated(server, s, "ready", done, ServerKey(kind), ClientKey(kind), 1, m, server.got)
  BY <1>1, <1>19, Zenon DEF Updated, k
<1>22. Kind(s) = kind
  <2>1. done[2] = kind
    BY <1>11, FinishedKind, Zenon DEF done
  <2>2. s.version # "" /\ s.version # "1.3"
    BY <1>19
  <2>3. s.transcript[2] = kind
    BY <1>19, <2>1, Zenon
  <2> QED BY <2>2, <2>3, KindOther, Zenon
<1>23. "ready" \in Live /\ "ready" # "answered" /\ server.version # ""
  BY <1>1 DEF Live
<1>24. server.sent = 0
  BY <1>1, <1>3, <1>5, Zenon DEF ServerOK
<1>25. ServerOK(s)
  <2>1. server.version = "1.2" => /\ Kind(s) \in Kinds12
                                  /\ "ready" # "answered" => ServerKey(kind) = ServerKey(Kind(s))
                                  /\ "ready" = "answered" => server.sent = 0
    BY <1>1, <1>22, <1>24, Zenon
  <2>2. ~(server.version = "1.3")
    OBVIOUS
  <2> QED BY <1>1, <1>3, <1>20, <1>21, <1>23, <2>1, <2>2, StillOK, Zenon
<1>26. ServerStage(server) = Stage("plain", kind, 8, 0, 0)
  BY <1>1, <1>5 DEF ServerStage, kind
<1>27. ServerStage(s) = Stage("post", kind, 0, m, 0)
  <2>1. s.phase # "new" /\ s.phase # "alerted" /\ ~(s.phase = "answered" /\ s.version = "1.2")
    BY <1>19
  <2>2. ServerStage(s) = Stage("post", Kind(s), 0, s.sendSeq, s.sent)
    BY <2>1 DEF ServerStage
  <2> QED BY <1>19, <1>22, <1>24, <2>2, Zenon
<1>28. HasRead(s, n + 1)
  <2>1. Len(s.got) = 0
    BY <1>5, <1>19, NoBytes, ZenonT(40)
  <2>2. HasRead12(s, kind, 3)
    BY <1>2, <1>19, <1>20, <2>1, Zenon DEF HasRead12
  <2>3. s.version # "1.3"
    BY <1>19
  <2> QED BY <1>2, <1>22, <2>2, <2>3, Zenon DEF HasRead
<1>29. Coming(n)
  BY Zenon DEF HandshakeNext
<1>30. OnItsWay(client, up' \o client.out, s)
  BY <1>15, <1>22, <1>28, <1>29, ReadOn, Zenon DEF kind
<1>31. IsSeq(up')
  BY <1>3, <1>15, TailOf
<1>32. call # "none" /\ ~fin
  BY <1>3, <1>5, <1>15 DEF CallOK
<1>33. s.phase # "new"
  BY <1>19
<1>34. server.sent <= s.sent
  BY <1>19, <1>24
<1>35. RouteFrom(WrittenFin(kind, k), Kind(s), s.halves, s.sent, ServerStage(server), ServerStage(s))
  BY <1>16, <1>19, <1>22, <1>24, <1>26, <1>27, Zenon
<1>36. wire' = wire \o WrittenFin(kind, k)
  BY <1>15, <1>17, Zenon
<1>37. s.version = server.version /\ s.halves = server.halves
  BY <1>1, <1>19, Zenon DEF k
<1>38. Kind(s) = Kind(server)
  BY <1>22 DEF kind
<1>39. ~fin'
  BY <1>15, <1>32
<1> DEFINE w == WrittenFin(kind, k)
<1>40. IsSeq(w) /\ wire' = wire \o w /\ RouteFrom(w, Kind(s), s.halves, s.sent, ServerStage(server), ServerStage(s))
  BY <1>16, <1>35, <1>36, Zenon
<1> HIDE DEF w
<1>41. server' = s /\ UNCHANGED <<client, call, pending, wanted, delivered, trusted>>
  BY <1>15
<1>42. /\ ServerOK(server') /\ server'.phase # "new" /\ Kind(server') = Kind(server)
       /\ server'.version = server.version /\ server'.halves = server.halves /\ server.sent <= server'.sent
       /\ RouteFrom(w, Kind(server'), server'.halves, server'.sent, ServerStage(server), ServerStage(server'))
       /\ OnItsWay(client, up' \o client.out, server')
  BY <1>25, <1>30, <1>33, <1>34, <1>37, <1>38, <1>40, <1>41, Zenon
<1>43. ConversationOK'
  BY <1>31, <1>32, <1>39, <1>40, <1>41, <1>42, ServerWrites
<1>44. server'.sent = server.sent
  BY <1>15, <1>19, Zenon
<1> QED BY <1>43, <1>44, Zenon

LEMMA FewRecords ==
  ASSUME NEW n \in Nat, NEW o, o \in {1, 3}, ~(n >= o)
  PROVE  /\ n \in {0, 1, 2}
         /\ o = 1 => n = 0
OBVIOUS

LEMMA ReadsSomething ==
  ASSUME ConversationOK, ServerReads
  PROVE  ConversationOK' /\ server'.sent = server.sent
<1>1. Setting /\ IsClient(client)
  BY Parts, Zenon
<1>2. ServerOK(server) /\ IsSeq(up)
  BY <1>1, Zenon DEF Setting
<1>3. server.phase \in {"answered", "ready"} /\ up # <<>>
  BY Zenon DEF ServerReads
<1>4. OnItsWay(client, up \o client.out, server)
  BY Zenon DEF ConversationOK
<1>5. PICK n : Coming(n)
  BY <1>1, <1>2, <1>3, <1>4, NextComes, Zenon
<1>6. server.version # ""
  <2>1. server.version = "" => server.phase \in {"new", "alerted"}
    BY <1>2, Zenon DEF ServerOK
  <2> QED BY <1>3, <2>1
<1>7. CASE n >= Opening(Kind(server))
  <2>1. PICK j : DataTurn(n, j) /\ IsData(Head(up), Kind(server), j)
    BY <1>2, <1>5, <1>6, <1>7, DataTurns, Zenon
  <2>2. DataNext(n, j)
    BY <1>5, <1>6, <2>1, Zenon DEF DataNext
  <2>3. \/ Head(up) = Rec("app", ClientKey(Kind(server)), j - 1 + DataBase(Kind(server)), j)
        \/ Head(up) = Rec("alert", ClientKey(Kind(server)), j - 1 + DataBase(Kind(server)), "close_notify")
    BY <2>1, Zenon DEF IsData
  <2> QED BY <2>2, <2>3, ReadsAppData, ReadsClose, Zenon
<1>8. CASE ~(n >= Opening(Kind(server)))
  <2>1. n \in Nat
    BY <1>5, Zenon DEF Coming
  <2>2. /\ Opening(Kind(server)) \in {1, 3}
        /\ server.version = "1.3" => Opening(Kind(server)) = 1
    BY DEF Opening, Kind
  <2>3. n \in {0, 1, 2} /\ (server.version = "1.3" => n = 0)
    BY <1>8, <2>1, <2>2, FewRecords, Zenon
  <2>4. HandshakeNext(n)
    BY <1>2, <1>5, <1>6, Zenon DEF HandshakeNext
  <2>5. CASE server.version = "1.3"
    BY <2>3, <2>4, <2>5, ReadsFinished13, Zenon
  <2>6. CASE server.version # "1.3"
    <3>1. n = 0 \/ n = 1 \/ n = 2
      BY <2>3, Zenon
    <3> QED BY <2>4, <2>6, <3>1, ReadsKeyExchange, ReadsChange, ReadsFinished12, Zenon
  <2> QED BY <2>5, <2>6
<1> QED BY <1>7, <1>8

LEMMA ServerReadsOK == ConversationOK /\ ServerReads => ConversationOK'
BY ReadsSomething, Zenon

-----------------------------------------------------------------------------
LEMMA OneStage ==
  ASSUME NEW S, NEW a, a \in S
  PROVE  LET at == [i \in 0..0 |-> a]
         IN  at \in [0..0 -> S] /\ at[0] = a /\ \A i \in 0..0 : at[i] = a
OBVIOUS

LEMMA NothingHeld ==
  ASSUME NEW a, a.pos \in {0, 8}
  PROVE  HeldHalf(a) = <<>>
<1>1. \A p \in {0, 8} : ~(p % 2 = 1)
  OBVIOUS
<1>2. ~(a.pos % 2 = 1)
  BY <1>1, Zenon
<1> QED BY <1>2, Zenon DEF HeldHalf

LEMMA FreshStands ==
  ASSUME NEW c, c.state = "Fresh", NEW a, a.seg = "start"
  PROVE  Stands(c, a)
BY DEF Stands

LEMMA ConversationStarts == TlsInit => ConversationOK
<1> SUFFICES ASSUME TlsInit PROVE ConversationOK
  OBVIOUS
<1>1. /\ client = NewClient /\ call = "none" /\ pending = <<>> /\ wanted = 0 /\ delivered = <<>>
      /\ trusted \in BOOLEAN /\ wire = <<>> /\ up = <<>> /\ ~fin /\ server = NewServer
  BY DEF TlsInit
<1>2. IsSeq(<<>>) /\ <<>> \in Seq(Nat) /\ <<>> \o <<>> = <<>>
  <2>1. \A e : e = <<>> => IsSeq(e) /\ e \o e = e /\ e \in Seq(Nat)
    BY DEF IsSeq
  <2> QED BY <2>1
<1>3. IsClient(client)
  BY <1>1, <1>2 DEF NewClient, IsClient
<1>4. /\ server.phase = "new" /\ server.version = "" /\ server.sent = 0 /\ ~server.rejects
      /\ server.got = <<>> /\ Kind(server) = ""
  BY <1>1 DEF NewServer, Kind
<1>5. Numbers(0) = <<>>
  BY DEF Numbers
<1>6. ServerOK(server)
  <2>1. IsServer(server)
    BY <1>1 DEF NewServer, IsServer
  <2>2. Len(server.got) = 0
    BY <1>4
  <2>3. server.got = Numbers(Len(server.got)) /\ Len(server.got) \in Nat
    BY <1>4, <1>5, <2>2
  <2>4. server.version # "1.3" /\ server.version # "1.2"
    BY <1>4
  <2>5. server.phase \in {"new", "alerted"}
    BY <1>4
  <2> QED BY <1>1, <1>4, <2>1, <2>3, <2>4, <2>5, Zenon DEF ServerOK
<1>7. OnItsWay(client, up \o client.out, server)
  BY <1>4 DEF OnItsWay
<1>8. /\ client.state = "Fresh" /\ client.out = <<>> /\ client.hs = <<>> /\ client.half = 0
      /\ client.appData = <<>> /\ ~client.appKeys
  BY <1>1 DEF NewClient
<1>9. CallOK
  <2>1. /\ call = "none" /\ call # "connect" /\ call # "closed" /\ call \notin {"idle", "recv"} /\ call # "recv"
        /\ call \in {"none", "connect", "idle", "recv", "closed"}
    BY <1>1
  <2>2. Synced(client)
    BY <1>8, Zenon DEF Synced
  <2> QED BY <1>1, <1>4, <1>8, <2>1, <2>2, Zenon DEF CallOK
<1>10. Progress
  <2> DEFINE a == Stage("start", "", 0, 0, 0)
             at == [i \in 0..0 |-> a]
  <2>1. Len(wire) = 0
    BY <1>1
  <2>2. a \in Stages("") /\ a.data = 0 /\ a.seg = "start" /\ a.pos = 0
    <3>1. "start" \in Segments("")
      BY DEF Segments
    <3>2. a \in Stages("")
      BY <3>1, StageOf, Zenon
    <3>3. a.data = 0 /\ a.seg = "start" /\ a.pos = 0
      BY DEF Stage
    <3> QED BY <3>2, <3>3
  <2>3. ServerStage(server) = a
    BY <1>4 DEF ServerStage
  <2> HIDE DEF a
  <2>4. at \in [0..0 -> Stages("")] /\ at[0] = a /\ \A i \in 0..0 : at[i] = a
    BY <2>2, OneStage, Zenon
  <2> HIDE DEF at
  <2>5. \A i \in 0..0 : at[i].data <= 0
    <3>1. 0 <= 0
      OBVIOUS
    <3> QED BY <2>2, <2>4, <3>1, Zenon
  <2>6. Path(at, wire, server)
    <3>1. \A i \in 1..0 : Takes(wire[i], at[i - 1], at[i], server.halves)
      OBVIOUS
    <3> QED BY <1>4, <2>1, <2>3, <2>4, <2>5, <3>1, Zenon DEF Path
  <2>7. ClientAt(client, at[0])
    <3>1. Stands(client, a)
      BY <1>8, <2>2, FreshStands, Zenon
    <3>2. HeldHalf(a) = <<>>
      <4>1. a.pos \in {0, 8}
        BY <2>2
      <4>2. \A b : b.pos \in {0, 8} => HeldHalf(b) = <<>>
        BY NothingHeld
      <4> QED BY <4>1, <4>2
    <3> QED BY <1>8, <2>4, <3>1, <3>2, Zenon DEF ClientAt
  <2>8. delivered \o pending \o client.appData = Numbers(at[0].data)
    BY <1>1, <1>2, <1>5, <1>8, <2>2, <2>4
  <2> QED BY <1>8, <2>6, <2>7, <2>8 DEF Progress
<1>11. wanted \in Nat
  BY <1>1
<1> QED BY <1>1, <1>2, <1>3, <1>6, <1>7, <1>9, <1>10, <1>11, Zenon DEF ConversationOK

LEMMA ConversationStutters ==
  ASSUME ConversationOK, UNCHANGED tlsVars
  PROVE  ConversationOK'
BY ZenonT(40) DEF tlsVars, ConversationOK, CallOK, Progress, GivenUp, Broken, Synced

LEMMA ConversationGoesOn == ConversationOK /\ [TlsNext]_tlsVars => ConversationOK'
<1> SUFFICES ASSUME ConversationOK, [TlsNext]_tlsVars PROVE ConversationOK'
  OBVIOUS
<1>1. CASE UNCHANGED tlsVars
  BY <1>1, ConversationStutters
<1>2. CASE ClientNext
  BY <1>2, ConnectOK, ConnectPumpOK, ConnectGivesUpOK, SendOK, RecvAtOnceOK, RecvStartsOK, RecvPumpOK,
     RecvEndsOK, CloseOK, Zenon DEF ClientNext
<1>3. CASE ServerNext
  BY <1>3, ServerAnswersOK, ServerReadsOK, ServerSendsOK, ServerTicketOK, ServerClosesOK,
     ServerAlertOK, ServerFinOK, Zenon DEF ServerNext
<1> QED BY <1>1, <1>2, <1>3, Zenon DEF TlsNext

(* The two sides are in step: the path on the wire leads from the client's   *)
(* stage to the server's, what is on its way to the server is what it has    *)
(* not read, and what was sent up to the client's stage has been handed out  *)
(* or is at hand; or the client has given up, in tls.connect.                *)
THEOREM TlsConversation == TlsSpec => []ConversationOK
BY ConversationStarts, ConversationGoesOn, PTL DEF TlsSpec

AllSegments == {"start", "hello", "flight", "plain", "fin", "post", "alerted"}

LEMMA NotStage ==
  ASSUME NEW a, NEW g, a.seg # g
  PROVE  \A kind, p, q, d : a # Stage(g, kind, p, q, d)
BY DEF Stage

LEMMA NothingAfterAlert ==
  ASSUME NEW r, NEW a, NEW b, NEW k, a.seg = "alerted"
  PROVE  ~Takes(r, a, b, k)
<1>1. ~Piece(r, a, b, k) /\ ~Later(r, a, b)
  <2>1. a.seg \notin {"hello", "flight", "plain", "fin"} /\ a.seg # "post"
    OBVIOUS
  <2> QED BY <2>1, Zenon DEF Piece, Later
<1>2. ~Change(r, a, b) /\ ~Refusal(r, a, b)
  <2>1. a.seg # "hello" /\ a.seg # "plain" /\ a.seg # "start"
    OBVIOUS
  <2>2. /\ a # Stage("hello", "1.3", 2, 0, 0) /\ a # Stage("plain", a.kind, 8, 0, 0)
        /\ a # Stage("start", "", 0, 0, 0)
    BY <2>1, NotStage, Zenon
  <2> QED BY <2>2, Zenon DEF Change, Refusal
<1> QED BY <1>1, <1>2, Zenon DEF Takes

LEMMA SegmentOf ==
  ASSUME NEW kind, NEW a \in Stages(kind)
  PROVE  a.seg \in AllSegments /\ a.data \in Nat /\ a.kind = kind
<1>1. a.seg \in Segments(kind) /\ a.data \in Nat /\ a.kind = kind
  BY DEF Stages
<1>2. Segments(kind) \subseteq AllSegments
  BY DEF Segments, AllSegments
<1> QED BY <1>1, <1>2

(* Only an alert makes the client fail where it is in step.                  *)
LEMMA StandsWell ==
  ASSUME NEW c, NEW a, a.seg \in AllSegments, Stands(c, a), c.state = "Fresh" => c.fail = "None"
  PROVE  /\ a.seg # "alerted" => c.fail = "None"
         /\ a.seg = "alerted" => c.state = "Failed" /\ c.fail = "AlertReceived"
<1>1. Greeting(c) => c.fail = "None"
  BY Zenon DEF Greeting, Waiting
<1>2. \A k : Talking(c, k) => c.fail = "None"
  BY Zenon DEF Talking
<1>3. \A n, q : In13(c, n, q) => c.fail = "None"
  BY <1>2, Zenon DEF In13, Waiting
<1>4. \A k, n : In12(c, k, n) => c.fail = "None"
  BY <1>1, Zenon DEF In12, Waiting
<1>5. \A k, q : Finishing12(c, k, q) => c.fail = "None"
  BY Zenon DEF Finishing12, Waiting
<1>6. CASE a.seg = "start"
  BY <1>1, <1>6 DEF Stands
<1>7. CASE a.seg = "hello"
  BY <1>1, <1>3, <1>7 DEF Stands
<1>8. CASE a.seg = "flight"
  BY <1>3, <1>8 DEF Stands
<1>9. CASE a.seg = "plain"
  BY <1>4, <1>9 DEF Stands
<1>10. CASE a.seg = "fin"
  BY <1>5, <1>10 DEF Stands
<1>11. CASE a.seg = "post"
  BY <1>2, <1>11 DEF Stands
<1>12. CASE a.seg = "alerted"
  BY <1>12 DEF Stands
<1> QED BY <1>6, <1>7, <1>8, <1>9, <1>10, <1>11, <1>12 DEF AllSegments

(* A conversation that has not been given up.                                *)
LEMMA ProgressHas ==
  ASSUME NEW at, Path(at, wire, server), ClientAt(client, at[0]), IsSeq(wire)
  PROVE  /\ wire = <<>> => at[0] = ServerStage(server)
         /\ at[0].seg = "alerted" => server.phase = "alerted"
<1>1. /\ Len(wire) \in Nat /\ at[Len(wire)] = ServerStage(server)
      /\ \A i \in 1..Len(wire) : Takes(wire[i], at[i - 1], at[i], server.halves)
  BY IsSeqFacts DEF Path
<1>2. wire = <<>> => at[0] = ServerStage(server)
  BY <1>1
<1>3. ASSUME at[0].seg = "alerted" PROVE server.phase = "alerted"
  <2>1. Len(wire) = 0
    <3> SUFFICES ASSUME Len(wire) # 0 PROVE FALSE
      OBVIOUS
    <3>1. 1 \in 1..Len(wire) /\ 1 - 1 = 0
      BY <1>1
    <3>2. Takes(wire[1], at[0], at[1], server.halves)
      BY <1>1, <3>1
    <3> QED BY <1>3, <3>2, NothingAfterAlert, Zenon
  <2>2. ServerStage(server).seg = "alerted"
    BY <1>1, <1>3, <2>1
  <2> QED BY <2>2 DEF ServerStage, Stage
<1> QED BY <1>2, <1>3

LEMMA PlainEnds ==
  ASSUME NEW c, NEW a, a.seg = "plain", a.pos = 8, Stands(c, a)
  PROVE  c.state = "WaitFinished"
<1>1. In12(c, a.kind, 1 + (a.pos \div 2))
  BY DEF Stands
<1>2. 1 + (8 \div 2) = 5 /\ 5 # 1 /\ ~(5 < 5)
  OBVIOUS
<1>3. In12(c, a.kind, 5)
  BY <1>1, <1>2, Zenon
<1> QED BY <1>2, <1>3, Zenon DEF In12

LEMMA PostTalks ==
  ASSUME NEW c, NEW a, a.seg = "post", Stands(c, a)
  PROVE  c.state = "Connected"
<1>1. Talking(c, a.kind)
  BY DEF Stands
<1> QED BY <1>1, Zenon DEF Talking

(* At the stage the client has reached.                                      *)
AtStage(at) ==
    /\ Path(at, wire, server) /\ ClientAt(client, at[0])
    /\ delivered \o pending \o client.appData = Numbers(at[0].data)
    /\ client.appKeys => at[0].seg \in {"post", "alerted"}

LEMMA AtStageHas ==
  ASSUME ConversationOK, NEW at, AtStage(at)
  PROVE  /\ at[0] \in Stages(Kind(server)) /\ at[0].seg \in AllSegments
         /\ at[0].data \in Nat /\ at[0].data <= server.sent
         /\ wire = <<>> => at[0] = ServerStage(server)
         /\ at[0].seg = "alerted" => server.phase = "alerted"
         /\ client.state = "Fresh" => client.fail = "None"
<1>1. IsSeq(wire) /\ CallOK
  BY Zenon DEF ConversationOK
<1>2. /\ wire = <<>> => at[0] = ServerStage(server)
      /\ at[0].seg = "alerted" => server.phase = "alerted"
  BY <1>1, ProgressHas, Zenon DEF AtStage
<1>3. at[0] \in Stages(Kind(server)) /\ at[0].data <= server.sent
  <2>1. Len(wire) \in Nat
    BY <1>1, IsSeqFacts
  <2>2. 0 \in 0..Len(wire)
    BY <2>1
  <2> QED BY <2>2 DEF AtStage, Path
<1>4. at[0].seg \in AllSegments /\ at[0].data \in Nat
  BY <1>3, SegmentOf, Zenon
<1>5. client.state = "Fresh" => client.fail = "None"
  BY <1>1 DEF CallOK, NewClient
<1> QED BY <1>2, <1>3, <1>4, <1>5, Zenon

LEMMA PeersDoAgree == ConversationOK => PeersAgreeUndisturbed
<1> SUFFICES ASSUME ConversationOK, ~Mixed PROVE PeersAgree
  BY DEF PeersAgreeUndisturbed
<1>1. ServerOK(server) /\ (Progress \/ GivenUp)
  BY Zenon DEF ConversationOK
<1>2. ~server.rejects
  BY <1>1, Zenon DEF ServerOK
<1>3. server.got = [i \in 1..Len(server.got) |-> i]
  BY <1>1, Zenon DEF ServerOK, Numbers
<1>4. /\ client.fail \in {"None", "AlertReceived", "CertificateRejected"}
      /\ client.fail = "AlertReceived" => server.phase = "alerted"
  <2>1. CASE Progress
    <3>1. PICK at : AtStage(at)
      BY <2>1, Zenon DEF Progress, AtStage
    <3>2. /\ at[0].seg \in AllSegments /\ (at[0].seg = "alerted" => server.phase = "alerted")
          /\ client.state = "Fresh" => client.fail = "None"
      BY <3>1, AtStageHas, Zenon
    <3>3. Stands(client, at[0])
      BY <3>1, Zenon DEF AtStage, ClientAt
    <3>4. /\ at[0].seg # "alerted" => client.fail = "None"
          /\ at[0].seg = "alerted" => client.fail = "AlertReceived"
      BY <3>2, <3>3, StandsWell, Zenon
    <3> QED BY <3>2, <3>4
  <2>2. CASE GivenUp
    <3>1. client.fail = "CertificateRejected" \/ Mixed
      BY <2>2, Zenon DEF GivenUp, Broken, Mixed
    <3> QED BY <3>1
  <2> QED BY <1>1, <2>1, <2>2
<1> QED BY <1>2, <1>3, <1>4, Zenon DEF PeersAgree

(* However the server cuts its messages into records, TCP the records into   *)
(* segments, and the script its calls: nothing but the server's alert or its *)
(* certificate makes the client fail, and the server can open, and agrees    *)
(* with, every record of the client.  The exception is Mixed.                *)
THEOREM PeersAlwaysAgree == TlsSpec => []PeersAgreeUndisturbed
BY TlsConversation, PeersDoAgree, PTL

LEMMA NothingIsLeft == ConversationOK => NothingLeftBehindUndisturbed
<1> SUFFICES ASSUME ConversationOK, ~Mixed, wire = <<>>, client.state # "Failed"
             PROVE  /\ client.half = 0 /\ client.hs = <<>>
                    /\ server.phase = "answered" /\ server.version = "1.2" => client.state = "WaitFinished"
                    /\ server.phase = "answered" /\ server.version = "1.3" => client.state = "Connected"
                    /\ server.phase = "ready" => client.state = "Connected"
  BY DEF NothingLeftBehindUndisturbed
<1>1. ServerOK(server) /\ (Progress \/ GivenUp) /\ CallOK
  BY Zenon DEF ConversationOK
<1>2. client.half = 0
  BY <1>1, Zenon DEF CallOK
<1>3. ~GivenUp
  BY Zenon DEF GivenUp, Broken
<1>4. PICK at : AtStage(at)
  BY <1>1, <1>3, Zenon DEF Progress, AtStage
<1> DEFINE here == at[0]
<1>5. /\ here.seg \in AllSegments /\ (here.seg = "alerted" => server.phase = "alerted")
      /\ client.state = "Fresh" => client.fail = "None"
      /\ here = ServerStage(server)
  BY <1>4, AtStageHas, Zenon
<1>6. Stands(client, here) /\ (here.seg # "alerted" => client.hs = HeldHalf(here))
  BY <1>4, Zenon DEF AtStage, ClientAt
<1>7. here.seg # "alerted"
  BY <1>5, <1>6, StandsWell, Zenon
<1> HIDE DEF here
<1>8. /\ here.pos \in {0, 8}
      /\ server.phase = "answered" /\ server.version = "1.2" => here.seg = "plain" /\ here.pos = 8
      /\ server.phase = "answered" /\ server.version = "1.3" => here.seg = "post"
      /\ server.phase = "ready" => here.seg = "post"
  <2>2. /\ server.phase = "answered" /\ server.version = "1.2" => here = Stage("plain", Kind(server), 8, 0, 0)
        /\ ~(server.phase = "answered" /\ server.version = "1.2") /\ server.phase \notin {"new", "alerted"} =>
              here = Stage("post", Kind(server), 0, server.sendSeq, server.sent)
        /\ server.phase = "new" => here = Stage("start", "", 0, 0, 0)
        /\ server.phase = "alerted" => here = Stage("alerted", Kind(server), 0, 0, server.sent)
    BY <1>5 DEF ServerStage
  <2>3. CASE server.phase = "answered" /\ server.version = "1.2"
    <3>1. here.seg = "plain" /\ here.pos = 8
      <4>1. here = Stage("plain", Kind(server), 8, 0, 0)
        BY <2>2, <2>3, Zenon
      <4> QED BY <4>1 DEF Stage
    <3>2. server.phase # "ready" /\ server.version # "1.3" /\ 8 \in {0, 8}
      BY <2>3
    <3> QED BY <3>1, <3>2, Zenon
  <2>4. CASE ~(server.phase = "answered" /\ server.version = "1.2") /\ server.phase \notin {"new", "alerted"}
    <3>1. here.seg = "post" /\ here.pos = 0
      <4>1. here = Stage("post", Kind(server), 0, server.sendSeq, server.sent)
        BY <2>2, <2>4, Zenon
      <4> QED BY <4>1 DEF Stage
    <3>2. 0 \in {0, 8}
      OBVIOUS
    <3> QED BY <2>4, <3>1, <3>2, Zenon
  <2>5. CASE server.phase = "new" \/ server.phase = "alerted"
    <3>1. here.pos = 0
      <4>1. \E g, k, q, d : here = Stage(g, k, 0, q, d)
        BY <2>2, <2>5, Zenon
      <4>2. PICK g, k, q, d : here = Stage(g, k, 0, q, d)
        BY <4>1, Zenon
      <4> QED BY <4>2 DEF Stage
    <3>2. server.phase # "ready" /\ server.phase # "answered" /\ 0 \in {0, 8}
      BY <2>5
    <3> QED BY <3>1, <3>2, Zenon
  <2> QED BY <2>3, <2>4, <2>5
<1>9. client.hs = <<>>
  <2>1. \A b : b.pos \in {0, 8} => HeldHalf(b) = <<>>
    BY NothingHeld
  <2> QED BY <1>6, <1>7, <1>8, <2>1
<1>10. here.seg = "plain" /\ here.pos = 8 => client.state = "WaitFinished"
  BY <1>6, PlainEnds, Zenon
<1>11. here.seg = "post" => client.state = "Connected"
  BY <1>6, PostTalks, Zenon
<1> QED BY <1>2, <1>8, <1>9, <1>10, <1>11, Zenon

(* Whenever all that the server wrote has been read, the client holds no     *)
(* part of a record or message, and is where the server's last message takes *)
(* it: it never waits for what has already come.  The exception is Mixed.    *)
THEOREM NothingIsLeftBehind == TlsSpec => []NothingLeftBehindUndisturbed
BY TlsConversation, NothingIsLeft, PTL

(* The calls of recv have returned the first numbers of the server's.        *)
DeliveredOK ==
    /\ server.sent \in Nat
    /\ Len(delivered) \in Nat /\ Len(delivered) <= server.sent
    /\ delivered = Numbers(Len(delivered))
    /\ call = "recv" /\ wire = <<>> /\ fin => delivered = Numbers(server.sent)

LEMMA Beginning ==
  ASSUME NEW s, NEW t, IsSeq(s), IsSeq(t), NEW n \in Nat, s \o t = Numbers(n)
  PROVE  s = Numbers(Len(s)) /\ Len(s) <= n /\ Len(s) \in Nat
<1>1. /\ Len(s) \in Nat /\ Len(t) \in Nat /\ Len(s \o t) = Len(s) + Len(t)
      /\ \A i \in 1..Len(s) : (s \o t)[i] = s[i]
  BY Joined, IsSeqFacts
<1>2. Numbers(n) \in Seq(Nat) /\ Len(Numbers(n)) = n /\ \A i \in 1..n : Numbers(n)[i] = i
  BY NumbersSeq
<1>3. Len(s) <= n
  BY <1>1, <1>2
<1>4. /\ Numbers(Len(s)) \in Seq(Nat) /\ Len(Numbers(Len(s))) = Len(s)
      /\ \A i \in 1..Len(s) : Numbers(Len(s))[i] = i
  BY <1>1, NumbersSeq
<1>5. ASSUME NEW i \in 1..Len(s) PROVE s[i] = Numbers(Len(s))[i]
  <2>1. i \in 1..n
    BY <1>1, <1>3
  <2> QED BY <1>1, <1>2, <1>4, <2>1
<1>6. IsSeq(Numbers(Len(s)))
  BY <1>4, SeqIs
<1>7. s = Numbers(Len(s))
  BY <1>4, <1>5, <1>6, SameSeq
<1> QED BY <1>1, <1>3, <1>7, Zenon

Joins(x, y, z) == (x \o y) \o z = x \o (y \o z)

LEMMA JoinsAll ==
  ASSUME NEW x, NEW y, NEW z, IsSeq(x), IsSeq(y), IsSeq(z)
  PROVE  Joins(x, y, z)
BY JoinedThree DEF Joins

LEMMA NoData == Numbers(0) = <<>>
BY DEF Numbers

LEMMA IsDelivered == ConversationOK => DeliveredOK
<1> SUFFICES ASSUME ConversationOK PROVE DeliveredOK
  OBVIOUS
<1>1. /\ IsClient(client) /\ ServerOK(server) /\ CallOK
      /\ pending \in Seq(Nat) /\ delivered \in Seq(Nat) /\ (Progress \/ GivenUp)
  BY Zenon DEF ConversationOK
<1>2. server.sent \in Nat /\ client.appData \in Seq(Nat)
  BY <1>1, Zenon DEF ServerOK, IsServer, IsClient
<1>3. CASE GivenUp
  <2>1. delivered = <<>> /\ call = "closed"
    BY <1>3, Zenon DEF GivenUp
  <2>2. Len(delivered) = 0 /\ call # "recv" /\ 0 \in Nat
    BY <2>1
  <2>3. 0 <= server.sent
    BY <1>2
  <2> QED BY <1>2, <2>1, <2>2, <2>3, NoData, Zenon DEF DeliveredOK
<1>4. CASE Progress
  <2>1. PICK at : AtStage(at)
    BY <1>4, Zenon DEF Progress, AtStage
  <2> DEFINE here == at[0]
             rest == pending \o client.appData
  <2>2. /\ here.data \in Nat /\ here.data <= server.sent
        /\ wire = <<>> => here = ServerStage(server)
    BY <2>1, AtStageHas, Zenon
  <2>3. /\ delivered \o pending \o client.appData = Numbers(here.data)
        /\ client.appKeys => here.seg \in {"post", "alerted"}
    BY <2>1, Zenon DEF AtStage
  <2> HIDE DEF here
  <2>4. delivered \o rest = Numbers(here.data) /\ rest \in Seq(Nat)
    <3>1. rest \in Seq(Nat)
      BY <1>1, <1>2
    <3>2. IsSeq(delivered) /\ IsSeq(pending) /\ IsSeq(client.appData)
      BY <1>1, <1>2, SeqIs
    <3>3. Joins(delivered, pending, client.appData)
      BY <3>2, JoinsAll, Zenon
    <3>4. rest = pending \o client.appData
      BY Zenon DEF rest
    <3> HIDE DEF rest
    <3> QED BY <2>3, <3>1, <3>3, <3>4, Zenon DEF Joins
  <2> HIDE DEF rest
  <2>5. IsSeq(delivered) /\ IsSeq(rest)
    BY <1>1, <2>4, SeqIs
  <2>6. delivered = Numbers(Len(delivered)) /\ Len(delivered) <= here.data /\ Len(delivered) \in Nat
    BY <2>2, <2>4, <2>5, Beginning
  <2>7. Len(delivered) <= server.sent
    BY <1>2, <2>2, <2>6
  <2>8. ASSUME call = "recv", wire = <<>>, fin PROVE delivered = Numbers(server.sent)
    <3>1. client.appKeys /\ server.phase \in {"closed", "alerted"} /\ pending = <<>> /\ client.appData = <<>>
      BY <1>1, <2>8 DEF CallOK
    <3>2. here = ServerStage(server)
      BY <2>2, <2>8, Zenon
    <3>3. ServerStage(server).data = server.sent
      <4>1. CASE server.phase = "alerted"
        <5>1. ServerStage(server) = Stage("alerted", Kind(server), 0, 0, server.sent)
          BY <4>1 DEF ServerStage
        <5> QED BY <5>1 DEF Stage
      <4>2. CASE server.phase = "closed"
        <5>1. ServerStage(server) = Stage("post", Kind(server), 0, server.sendSeq, server.sent)
          BY <4>2 DEF ServerStage
        <5> QED BY <5>1 DEF Stage
      <4> QED BY <3>1, <4>1, <4>2
    <3>4. rest = <<>>
      BY <3>1 DEF rest
    <3>5. delivered \o rest = delivered
      BY <2>5, <3>4, JoinedEmpty
    <3> QED BY <2>4, <3>2, <3>3, <3>5, Zenon
  <2> QED BY <1>2, <2>6, <2>7, <2>8, Zenon DEF DeliveredOK
<1> QED BY <1>1, <1>3, <1>4

(* What a step does to the stream: the server's part does not shrink, and    *)
(* what recv has returned does not either.                                   *)
StreamStep ==
    \/ UNCHANGED <<delivered, sawEnd, server>>
    \/ UNCHANGED <<delivered, sawEnd>> /\ server.sent <= server'.sent
    \/ UNCHANGED <<sawEnd, server>> /\ Len(delivered) <= Len(delivered')
    \/ UNCHANGED <<delivered, server>> /\ call = "recv" /\ wire = <<>> /\ fin /\ sawEnd' = TRUE

LEMMA HandsOut ==
  ASSUME delivered \in Seq(Nat), NEW data \in Seq(Nat), NEW max \in Nat, HandOut(data, max)
  PROVE  Len(delivered) <= Len(delivered')
<1> DEFINE v == IF Len(data) > max THEN SubSeq(data, 1, max) ELSE data
<1>1. v \in Seq(Nat)
  BY DEF HandOut
<1>2. delivered' = delivered \o v
  BY DEF HandOut
<1> HIDE DEF v
<1>3. Len(delivered \o v) = Len(delivered) + Len(v) /\ Len(v) \in Nat /\ Len(delivered) \in Nat
  BY <1>1
<1> QED BY <1>2, <1>3

LEMMA SentAfter ==
  ASSUME NEW s, IsServer(s), NEW q, NEW n, NEW p, NEW b, NEW t, t = SentOne(s, q, n, p, b)
  PROVE  t.sent = n
BY DEF IsServer, SentOne

LEMMA ServerSendsMore ==
  ASSUME ConversationOK, ServerSends \/ ServerTicket \/ ServerCloses \/ ServerAlert \/ ServerFin
  PROVE  server.sent <= server'.sent
<1>1. IsServer(server) /\ server.sent \in Nat
  BY Zenon DEF ConversationOK, ServerOK, IsServer
<1> DEFINE q == server.sendSeq + 1
<1>2. CASE ServerSends
  <2>1. server' = [ServerSent EXCEPT !.sent = server.sent + 2]
    BY <1>1, <1>2 DEF ServerSends, Write, ServerSent, IsServer
  <2>2. server' = SentOne(server, q, server.sent + 2, server.phase, server.ticket)
    BY <1>1, <2>1, SentOneSays DEF ServerSent
  <2>3. server'.sent = server.sent + 2
    BY <1>1, <2>2, SentAfter
  <2> QED BY <1>1, <2>3
<1>3. CASE ServerTicket
  <2>1. server' = [ServerSent EXCEPT !.ticket = TRUE]
    BY <1>3 DEF ServerTicket, Write
  <2>2. \A b : [ServerSent EXCEPT !.ticket = b] = SentOne(server, q, server.sent, server.phase, b)
    BY <1>1, SentOneSays, ZenonT(40) DEF ServerSent
  <2>3. server' = SentOne(server, q, server.sent, server.phase, TRUE)
    BY <2>1, <2>2, Zenon
  <2>4. server'.sent = server.sent
    <3>1. \A b : server' = SentOne(server, q, server.sent, server.phase, b) => server'.sent = server.sent
      BY <1>1, SentAfter
    <3> QED BY <2>3, <3>1, Zenon
  <2> QED BY <1>1, <2>4
<1>4. CASE ServerCloses \/ ServerAlert
  <2>1. PICK p : server' = [ServerSent EXCEPT !.phase = p]
    BY <1>4 DEF ServerCloses, ServerAlert, Write
  <2>2. server' = SentOne(server, q, server.sent, p, server.ticket)
    BY <1>1, <2>1, SentOneSays, Zenon DEF ServerSent
  <2>3. server'.sent = server.sent
    BY <1>1, <2>2, SentAfter
  <2> QED BY <1>1, <2>3
<1>6. CASE ServerFin
  BY <1>1, <1>6 DEF ServerFin
<1> QED BY <1>2, <1>3, <1>4, <1>6

LEMMA ServerAnswersMore ==
  ASSUME ConversationOK, ServerAnswers
  PROVE  server.sent <= server'.sent
<1>1. server = NewServer
  BY NewIs, Zenon DEF ServerAnswers
<1>2. server.sent = 0
  BY <1>1, NewServerIs, Zenon DEF Fresh
<1>3. ConversationOK'
  BY ServerAnswersOK, Zenon
<1>4. server'.sent \in Nat
  BY <1>3, Zenon DEF ConversationOK, ServerOK, IsServer
<1> QED BY <1>2, <1>4

LEMMA ServerReadsMore ==
  ASSUME ConversationOK, ServerReads
  PROVE  server.sent <= server'.sent
<1>1. server'.sent = server.sent
  BY ReadsSomething, Zenon
<1>2. server.sent \in Nat
  BY Zenon DEF ConversationOK, ServerOK, IsServer
<1> QED BY <1>1, <1>2

LEMMA Streams ==
  ASSUME ConversationOK, [TlsNext]_tlsVars
  PROVE  StreamStep
<1>1. /\ delivered \in Seq(Nat) /\ pending \in Seq(Nat) /\ client.appData \in Seq(Nat) /\ wanted \in Nat
  BY Zenon DEF ConversationOK, IsClient
<1>2. CASE UNCHANGED tlsVars
  BY <1>2 DEF tlsVars, StreamStep
<1>3. CASE Connect \/ ConnectPump \/ ConnectGivesUp \/ Send \/ RecvStarts \/ RecvTimesOut \/ Close
  BY <1>3 DEF Connect, ConnectPump, ConnectGivesUp, Send, RecvStarts, RecvTimesOut, Close, StreamStep
<1>4. CASE RecvEnds
  BY <1>4 DEF RecvEnds, StreamStep
<1>5. CASE RecvAtOnce
  <2>1. PICK max \in MaxBytes : HandOut(pending, max) \/ HandOut(client.appData, max)
    BY <1>5, Zenon DEF RecvAtOnce
  <2>2. max \in Nat
    BY TlsAssumption
  <2>3. Len(delivered) <= Len(delivered')
    BY <1>1, <2>1, <2>2, HandsOut, Zenon
  <2>4. UNCHANGED <<sawEnd, server>>
    BY <1>5 DEF RecvAtOnce
  <2> QED BY <2>3, <2>4, Zenon DEF StreamStep
<1>6. CASE RecvPump
  <2>1. UNCHANGED <<sawEnd, server>>
    BY <1>6 DEF RecvPump
  <2>2. PICK n \in Receivable : TakeFromWire(n) /\ (UNCHANGED delivered \/ HandOut(Feed(client, n).appData, wanted))
    BY <1>6, Zenon DEF RecvPump
  <2>3. CASE UNCHANGED delivered
    BY <2>1, <2>3, Zenon DEF StreamStep
  <2>4. CASE HandOut(Feed(client, n).appData, wanted)
    <3> DEFINE data == Feed(client, n).appData
    <3>1. data \in Seq(Nat)
      <4>1. call = "recv" /\ TakeFromWire(n)
        BY <1>6, <2>2 DEF RecvPump
      <4>3. call \in {"connect", "recv"}
        BY <4>1
      <4>2. Received(Feed(client, n))
        BY <4>1, <4>3, PumpReceives, Zenon
      <4> QED BY <4>2, Zenon DEF Received, IsClient
    <3> HIDE DEF data
    <3>2. HandOut(data, wanted)
      BY <2>4, Zenon DEF data
    <3>3. Len(delivered) <= Len(delivered')
      BY <1>1, <3>1, <3>2, HandsOut, Zenon
    <3> QED BY <2>1, <3>3, Zenon DEF StreamStep
  <2> QED BY <2>2, <2>3, <2>4
<1>7. CASE ServerNext
  <2>1. UNCHANGED <<delivered, sawEnd>>
    BY <1>7 DEF ServerNext, ServerAnswers, ServerReads, ServerSends, ServerTicket, ServerCloses, ServerAlert, ServerFin
  <2>2. server.sent <= server'.sent
    BY <1>7, ServerSendsMore, ServerAnswersMore, ServerReadsMore, Zenon DEF ServerNext
  <2> QED BY <2>1, <2>2, Zenon DEF StreamStep
<1> QED BY <1>2, <1>3, <1>4, <1>5, <1>6, <1>7, Zenon DEF TlsNext, ClientNext

LEMMA FirstOnes ==
  ASSUME NEW u \in Seq(Nat), NEW m \in Nat, m <= Len(u)
  PROVE  /\ SubSeq(u, 1, m) \in Seq(Nat) /\ Len(SubSeq(u, 1, m)) = m
         /\ \A i \in 1..m : SubSeq(u, 1, m)[i] = u[i]
<1>1. \A i \in 1..m : u[i] \in Nat
  OBVIOUS
<1> QED BY <1>1, SubSeqProperties

LEMMA SmallerNumbers ==
  ASSUME NEW m \in Nat, NEW n \in Nat, m <= n
  PROVE  /\ Len(Numbers(m)) = m /\ Len(Numbers(n)) = n
         /\ SubSeq(Numbers(n), 1, m) = Numbers(m)
<1>1. /\ Numbers(m) \in Seq(Nat) /\ Len(Numbers(m)) = m /\ \A i \in 1..m : Numbers(m)[i] = i
      /\ Numbers(n) \in Seq(Nat) /\ Len(Numbers(n)) = n /\ \A i \in 1..n : Numbers(n)[i] = i
  BY NumbersSeq
<1> DEFINE u == Numbers(n)
           s == SubSeq(u, 1, m)
           t == Numbers(m)
<1>2. s \in Seq(Nat) /\ Len(s) = m /\ \A i \in 1..m : s[i] = u[i]
  <2> HIDE DEF u
  <2>1. u \in Seq(Nat) /\ Len(u) = n
    BY <1>1 DEF u
  <2>2. m <= Len(u)
    BY <2>1
  <2> QED BY <2>1, <2>2, FirstOnes, Zenon
<1>3. IsSeq(s) /\ IsSeq(t)
  BY <1>1, <1>2, SeqIs
<1> HIDE DEF s, t, u
<1>4. Len(s) = Len(t)
  BY <1>1, <1>2 DEF t
<1>5. ASSUME NEW i \in 1..Len(s) PROVE s[i] = t[i]
  <2>1. i \in 1..m /\ i \in 1..n
    BY <1>2
  <2> QED BY <1>1, <1>2, <2>1 DEF t, u
<1>6. s = t
  BY <1>3, <1>4, <1>5, SameSeq
<1> QED BY <1>1, <1>6 DEF s, t

StreamVars == <<Numbers(server.sent), delivered, sawEnd>>
StreamMoves == Stream!Write \/ Stream!Read \/ Stream!ReadEnd

LEMMA StreamStarts ==
  ASSUME TlsInit
  PROVE  Stream!StreamInit
<1>1. server.sent = 0
  BY DEF TlsInit, NewServer
<1> QED BY <1>1, NoData DEF TlsInit, Stream!StreamInit

LEMMA StreamGoesOn ==
  ASSUME DeliveredOK, DeliveredOK', StreamStep
  PROVE  StreamMoves \/ UNCHANGED StreamVars
<1>1. /\ server.sent \in Nat /\ server'.sent \in Nat
      /\ Len(delivered) \in Nat /\ Len(delivered) <= server.sent
      /\ Len(delivered') \in Nat /\ Len(delivered') <= server'.sent
      /\ delivered = Numbers(Len(delivered)) /\ delivered' = Numbers(Len(delivered'))
  BY DEF DeliveredOK
<1>2. CASE UNCHANGED <<delivered, sawEnd, server>>
  BY <1>2 DEF StreamVars
<1>3. CASE UNCHANGED <<delivered, sawEnd>> /\ server.sent <= server'.sent
  <2>1. CASE server.sent = server'.sent
    BY <1>3, <2>1 DEF StreamVars
  <2>2. CASE server.sent # server'.sent
    <3>1. server.sent < server'.sent
      BY <1>1, <1>3, <2>2
    <3>2. /\ Len(Numbers(server.sent)) = server.sent /\ Len(Numbers(server'.sent)) = server'.sent
          /\ SubSeq(Numbers(server'.sent), 1, server.sent) = Numbers(server.sent)
      BY <1>1, <1>3, SmallerNumbers
    <3>3. Stream!Write
      BY <1>3, <3>1, <3>2 DEF Stream!Write
    <3> QED BY <3>3 DEF StreamMoves
  <2> QED BY <2>1, <2>2
<1>4. CASE UNCHANGED <<sawEnd, server>> /\ Len(delivered) <= Len(delivered')
  <2>1. CASE Len(delivered) = Len(delivered')
    <3>1. delivered' = delivered
      BY <1>1, <2>1
    <3> QED BY <1>4, <3>1 DEF StreamVars
  <2>2. CASE Len(delivered) # Len(delivered')
    <3>1. Len(delivered) < Len(delivered') /\ Len(delivered') <= server.sent
      BY <1>1, <1>4, <2>2
    <3>2. SubSeq(delivered', 1, Len(delivered)) = delivered
      BY <1>1, <1>4, SmallerNumbers
    <3>3. /\ Len(Numbers(server.sent)) = server.sent
          /\ SubSeq(Numbers(server.sent), 1, Len(delivered')) = delivered'
      BY <1>1, <3>1, SmallerNumbers
    <3>4. Stream!Read
      BY <1>4, <3>1, <3>2, <3>3 DEF Stream!Read
    <3> QED BY <3>4 DEF StreamMoves
  <2> QED BY <2>1, <2>2
<1>5. CASE UNCHANGED <<delivered, server>> /\ call = "recv" /\ wire = <<>> /\ fin /\ sawEnd' = TRUE
  <2>1. delivered = Numbers(server.sent)
    BY <1>5, Zenon DEF DeliveredOK
  <2>2. Stream!ReadEnd
    BY <1>5, <2>1, Zenon DEF Stream!ReadEnd
  <2> QED BY <2>2 DEF StreamMoves
<1> QED BY <1>2, <1>3, <1>4, <1>5 DEF StreamStep

(* recv returns the data that the server wrote, each unit once and in order, *)
(* whatever the sizes of records, segments and arguments, and the empty      *)
(* string only after the last of it, at the end of the stream.               *)
THEOREM RecvImplementsStream == TlsSpec => RecvIsStream
<1>1. TlsInit => Stream!StreamInit
  BY StreamStarts
<1>2. ConversationOK /\ [TlsNext]_tlsVars => StreamStep
  BY Streams
<1>3. DeliveredOK /\ DeliveredOK' /\ StreamStep =>
        [Stream!Write \/ Stream!Read \/ Stream!ReadEnd]_<<Numbers(server.sent), delivered, sawEnd>>
  BY StreamGoesOn DEF StreamMoves, StreamVars
<1> QED BY <1>1, <1>2, <1>3, TlsConversation, IsDelivered, PTL DEF TlsSpec, RecvIsStream, Stream!StreamSpec

=============================================================================
