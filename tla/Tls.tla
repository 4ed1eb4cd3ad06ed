-------------------------------- MODULE Tls --------------------------------
(* A TLS socket (lib/tls/tls_module.cpp over TlsClient.cpp and TcpStream.cpp)*)
(* in a conversation with a server that follows the protocol: the record     *)
(* layer, the handshakes of TLS 1.3 and 1.2, and the calls connect, send,    *)
(* recv and close.  TCP cuts the server's bytes anywhere; the server cuts    *)
(* and joins handshake messages into records as it likes.  Keys, hashes and  *)
(* signatures are the transcripts they are computed from.                    *)
EXTENDS Integers, Sequences

CONSTANTS RecordHalves,  \* how many half messages a server puts into a record
          MaxData,       \* records of data each side sends
          MaxBytes       \* arguments of recv

ASSUME TlsAssumption ==
    /\ RecordHalves \subseteq Nat \ {0} /\ MaxBytes \subseteq Nat \ {0} /\ MaxData \in Nat

VARIABLES client,     \* TlsClient
          call,       \* the call that is running: "none", "connect", "recv", "idle", "closed"
          pending,    \* SocketWrapper::pending
          wanted,     \* max_bytes of the running recv
          delivered,  \* history: what the calls of recv have returned
          sawEnd,     \* history: recv has returned the empty string
          trusted,    \* the certificate chain verifies
          wire,       \* records on their way to the client
          up,         \* records on their way to the server
          fin,        \* the server has closed its end of the TCP connection
          server      \* the server

tlsVars == <<client, call, pending, wanted, delivered, sawEnd, trusted, wire, up, fin, server>>

Plain == <<>>

(* Handshake messages; th is the transcript that a Finished, a signature or  *)
(* a key exchange was computed over.                                         *)
Msg(type, th) == [type |-> type, th |-> th]

Types(msgs) == [i \in DOMAIN msgs |-> msgs[i].type]

Rec(type, key, seq, body) == [type |-> type, key |-> key, seq |-> seq, body |-> body]

-----------------------------------------------------------------------------
(* TlsClient.                                                                *)
NewClient ==
    [state |-> "Fresh", fail |-> "None", tls12 |-> FALSE, half |-> 0, hs |-> <<>>,
     transcript |-> <<>>, sendKey |-> Plain, recvKey |-> Plain, sendSeq |-> 0, recvSeq |-> 0,
     sendOn |-> FALSE, recvOn |-> FALSE, appKeys |-> FALSE, appData |-> <<>>,
     peerClosed |-> FALSE, ems |-> FALSE, sent |-> 0, out |-> <<>>]

NewServer ==
    [phase |-> "new", version |-> "", halves |-> 0, transcript |-> <<>>, sendKey |-> Plain,
     recvKey |-> Plain, sendSeq |-> 0, recvSeq |-> 0, recvOn |-> FALSE, sent |-> 0, got |-> <<>>,
     ticket |-> FALSE, rejects |-> FALSE]

Fail(c, why) == IF c.fail = "None" THEN [c EXCEPT !.fail = why, !.state = "Failed"] ELSE c

(* sealRecord and sealRecord12.                                              *)
SealRecord(c, type, body) ==
    IF c.sendOn
    THEN [c EXCEPT !.out = Append(@, Rec(type, c.sendKey, c.sendSeq, body)), !.sendSeq = @ + 1]
    ELSE [c EXCEPT !.out = Append(@, Rec(type, Plain, 0, body))]

Note(c, m) == [c EXCEPT !.transcript = Append(@, m.type)]

Start(c) ==
    SealRecord(Note([c EXCEPT !.state = "WaitServerHello"], Msg("ClientHello", <<>>)),
               "hs", Msg("ClientHello", <<>>))

InstallHandshakeKeys(c) ==
    [c EXCEPT !.sendKey = <<"c hs", c.transcript>>, !.recvKey = <<"s hs", c.transcript>>,
              !.sendSeq = 0, !.recvSeq = 0, !.sendOn = TRUE]

(* onServerHello, with onServerHello12 when no version is negotiated.        *)
OnServerHello(c, m) ==
    IF m.type = "ServerHello12" \/ m.type = "ServerHello12Ems"
    THEN [Note(c, m) EXCEPT !.tls12 = TRUE, !.ems = m.type = "ServerHello12Ems",
                            !.state = "WaitCertificate"]
    ELSE [InstallHandshakeKeys(Note(c, m)) EXCEPT
              !.recvOn = TRUE, !.state = "WaitEncryptedExtensions"]

OnEncryptedExtensions(c, m) == [Note(c, m) EXCEPT !.state = "WaitCertificate"]

(* The list of a 1.2 message has no context: it does not parse here.         *)
OnCertificate(c, m) ==
    IF m.type = "Certificate12" THEN Fail(Note(c, m), "RecordMalformed")
    ELSE [Note(c, m) EXCEPT !.state = "WaitCertificateVerify"]

OnCertificateVerify(c, m) ==
    IF m.th # c.transcript THEN Fail(c, "BadCertificateVerify")
    ELSE IF ~trusted THEN Fail(Note(c, m), "CertificateRejected")
    ELSE [Note(c, m) EXCEPT !.state = "WaitFinished"]

InstallApplicationKeys(c, th) ==
    [c EXCEPT !.sendKey = <<"c ap", th>>, !.recvKey = <<"s ap", th>>,
              !.sendSeq = 0, !.recvSeq = 0, !.appKeys = TRUE]

(* Mutant of OnFinished: the keys are installed before Finished is sealed.   *)
OnFinishedKeysFirst(c, m) ==
    IF m.th # c.transcript THEN Fail(c, "BadFinished")
    ELSE LET seen == Note(c, m)
             own == Msg("ClientFinished", seen.transcript)
         IN  [SealRecord(InstallApplicationKeys(Note(seen, own), seen.transcript), "hs", own)
                EXCEPT !.state = "Connected"]

(* The keys for data are derived from the transcript up to the server's      *)
(* Finished; the client's own is still sealed with the handshake keys.       *)
OnFinished(c, m) ==
    IF m.th # c.transcript THEN Fail(c, "BadFinished")
    ELSE LET seen == Note(c, m)
             own == Msg("ClientFinished", seen.transcript)
         IN  [InstallApplicationKeys(SealRecord(Note(seen, own), "hs", own), seen.transcript)
                EXCEPT !.state = "Connected"]

(* handleHandshake: no message is expected in a particular state.            *)
HandleHandshake(c, m) ==
    CASE m.type \in {"ServerHello13", "ServerHello12", "ServerHello12Ems"} -> OnServerHello(c, m)
      [] m.type = "EncryptedExtensions" -> OnEncryptedExtensions(c, m)
      [] m.type \in {"Certificate", "Certificate12"} -> OnCertificate(c, m)
      [] m.type = "CertificateVerify" -> OnCertificateVerify(c, m)
      [] m.type \in {"Finished", "Finished12"} -> OnFinished(c, m)
      [] m.type = "NewSessionTicket" -> c
      [] OTHER -> Fail(c, "UnexpectedMessage")

OnServerKeyExchange12(c, m) == IF trusted THEN c ELSE Fail(c, "CertificateRejected")

DeriveTls12Keys(c) ==
    LET secret == IF c.ems THEN c.transcript ELSE <<>>
    IN  [c EXCEPT !.sendKey = <<"c 12", secret>>, !.recvKey = <<"s 12", secret>>]

(* onServerHelloDone12: ClientKeyExchange in the clear, ChangeCipherSpec,    *)
(* and Finished as the first record that is encrypted.                       *)
OnServerHelloDone12(c) ==
    LET cke == Msg("ClientKeyExchange", <<>>)
        keyed == SealRecord(DeriveTls12Keys(Note(c, cke)), "hs", cke)
        own == Msg("ClientFinished", keyed.transcript)
        ccs == [Note(keyed, own) EXCEPT !.out = Append(@, Rec("ccs", Plain, 0, <<>>)),
                                        !.sendOn = TRUE, !.sendSeq = 0]
    IN  [SealRecord(ccs, "hs", own) EXCEPT !.state = "WaitFinished"]

OnCcs12(c) == [c EXCEPT !.recvSeq = 0, !.recvOn = TRUE]

OnFinished12(c, m) ==
    IF m.th # c.transcript THEN Fail(c, "BadFinished")
    ELSE [Note(c, m) EXCEPT !.appKeys = TRUE, !.state = "Connected"]

HandleHandshake12(c, m) ==
    CASE m.type = "Certificate12" -> Note(c, m)
      [] m.type = "ServerKeyExchange" -> OnServerKeyExchange12(Note(c, m), m)
      [] m.type = "ServerHelloDone" -> OnServerHelloDone12(Note(c, m))
      [] m.type = "Finished12" -> OnFinished12(c, m)
      [] m.type = "NewSessionTicket" -> c
      [] OTHER -> Fail(c, "UnexpectedMessage")

OnAlert(c, description) ==
    IF description = "close_notify" THEN [c EXCEPT !.peerClosed = TRUE]
    ELSE Fail(c, "AlertReceived")

(* Mutant of Ready: one message per record.                                  *)
ReadyOne(halves) == IF Len(halves) >= 2 THEN 1 ELSE 0

(* The number of messages of which both halves are there.                    *)
Ready(halves) == Len(halves) \div 2

Complete(halves) == [i \in 1..Ready(halves) |-> halves[2 * i]]
Rest(halves) == SubSeq(halves, 2 * Ready(halves) + 1, Len(halves))

(* hsBuffer_: a message may come in several records.                         *)
Reassemble(c, body) == [c EXCEPT !.hs = Rest(@ \o body)]

HandleMessage(tls12, c, m) ==
    IF c.state = "Failed" THEN c
    ELSE IF tls12 THEN HandleHandshake12(c, m) ELSE HandleHandshake(c, m)

(* The loop of handleRecord: which of the two handshakes it is is asked once *)
(* per record.                                                               *)
HandleMessages(c, msgs) ==
    LET after[i \in 0..Len(msgs)] ==
          IF i = 0 THEN c ELSE HandleMessage(c.tls12, after[i - 1], msgs[i])
    IN  after[Len(msgs)]

HandleRecord(c, r) ==
    CASE r.type = "alert" -> OnAlert(c, r.body)
      [] r.type = "app" -> [c EXCEPT !.appData = @ \o r.body]
      [] r.type = "hs" -> HandleMessages(Reassemble(c, r.body), Complete(c.hs \o r.body))

(* One turn of the loop of feed; openRecord12 and the 1.3 record layer both  *)
(* authenticate the key and the sequence number.                             *)
FeedRecord(c, r) ==
    IF c.state = "Failed" THEN c
    ELSE CASE r.type = "ccs" -> IF c.tls12 THEN OnCcs12(c) ELSE c
           [] r.type # "ccs" /\ c.recvOn ->
                IF r.key = c.recvKey /\ r.seq = c.recvSeq
                THEN HandleRecord([c EXCEPT !.recvSeq = @ + 1], r)
                ELSE Fail(c, "DecryptFailed")
           [] OTHER -> IF r.key = Plain THEN HandleRecord(c, r) ELSE Fail(c, "UnexpectedMessage")

FeedRecords(c, n) ==
    LET after[i \in 0..n] == IF i = 0 THEN c ELSE FeedRecord(after[i - 1], wire[i])
    IN  after[n]

(* feed, given n half records.                                               *)
Feed(c, n) == FeedRecords([c EXCEPT !.half = (c.half + n) % 2], (c.half + n) \div 2)

TakeFromWire(n) == wire' = SubSeq(wire, (client.half + n) \div 2 + 1, Len(wire))

(* What feed returned goes to the server.                                    *)
Flush(c) == client' = [c EXCEPT !.out = <<>>] /\ up' = up \o c.out

-----------------------------------------------------------------------------
(* The socket: tls.connect, send, recv, close (tls_module.cpp).              *)
TlsInit ==
    /\ client = NewClient
    /\ call = "none"
    /\ pending = <<>>
    /\ wanted = 0
    /\ delivered = <<>>
    /\ sawEnd = FALSE
    /\ trusted \in BOOLEAN
    /\ wire = <<>>
    /\ up = <<>>
    /\ fin = FALSE
    /\ server = NewServer

(* tls.connect: the TCP connection stands, the ClientHello is sent.          *)
Connect ==
    /\ call = "none"
    /\ call' = "connect"
    /\ Flush(Start(client))
    /\ UNCHANGED <<pending, wanted, delivered, sawEnd, trusted, wire, fin, server>>

Receivable == 1..(2 * Len(wire) - client.half)

(* The loop of tls.connect; a failure deletes the socket.                    *)
ConnectPump ==
    /\ call = "connect"
    /\ \E n \in Receivable :
         LET c == Feed(client, n)
         IN  /\ TakeFromWire(n)
             /\ IF c.state = "Failed"
                THEN client' = c /\ call' = "closed" /\ UNCHANGED up
                ELSE /\ Flush(c)
                     /\ call' = IF c.state = "Connected" THEN "idle" ELSE "connect"
    /\ UNCHANGED <<pending, wanted, delivered, sawEnd, trusted, fin, server>>

(* The server closed, or nothing came within timeoutMs.                      *)
ConnectGivesUp ==
    /\ call = "connect" /\ wire = <<>>
    /\ call' = "closed"
    /\ UNCHANGED <<client, pending, wanted, delivered, sawEnd, trusted, wire, up, fin, server>>

(* tls_send.  The model tags data with its number.                           *)
Send ==
    /\ call = "idle" /\ client.appKeys /\ client.sent < MaxData
    /\ Flush([SealRecord(client, "app", client.sent + 1) EXCEPT !.sent = @ + 1])
    /\ UNCHANGED <<call, pending, wanted, delivered, sawEnd, trusted, wire, fin, server>>

(* Mutant of HandOut: what exceeds max_bytes is dropped.                     *)
HandOutDrops(data, max) ==
    /\ delivered' = delivered \o (IF Len(data) > max THEN SubSeq(data, 1, max) ELSE data)
    /\ pending' = <<>>

(* The end of tls_recv: what exceeds max_bytes is kept for the next call.    *)
HandOut(data, max) ==
    /\ delivered' = delivered \o (IF Len(data) > max THEN SubSeq(data, 1, max) ELSE data)
    /\ pending' = IF Len(data) > max THEN SubSeq(data, max + 1, Len(data)) ELSE <<>>

(* tls_recv with something at hand: first what an earlier call left, then    *)
(* what was decrypted before.                                                *)
RecvAtOnce ==
    /\ call = "idle" /\ pending \o client.appData # <<>>
    /\ \E max \in MaxBytes :
         IF pending # <<>> THEN HandOut(pending, max) /\ UNCHANGED client
         ELSE HandOut(client.appData, max) /\ client' = [client EXCEPT !.appData = <<>>]
    /\ UNCHANGED <<call, wanted, sawEnd, trusted, wire, up, fin, server>>

(* tls_recv with nothing at hand reads from the connection.                  *)
RecvStarts ==
    /\ call = "idle" /\ pending = <<>> /\ client.appData = <<>> /\ ~sawEnd
    /\ call' = "recv"
    /\ wanted' \in MaxBytes
    /\ UNCHANGED <<client, pending, delivered, sawEnd, trusted, wire, up, fin, server>>

(* pumpIn: a failure is thrown, data ends the call, all else is read on.     *)
RecvPump ==
    /\ call = "recv"
    /\ \E n \in Receivable :
         LET c == Feed(client, n)
         IN  /\ TakeFromWire(n)
             /\ IF c.state = "Failed"
                THEN client' = c /\ call' = "idle" /\ UNCHANGED <<up, pending, delivered>>
                ELSE /\ Flush([c EXCEPT !.appData = <<>>])
                     /\ HandOut(c.appData, wanted)
                     /\ call' = IF c.appData = <<>> THEN "recv" ELSE "idle"
    /\ UNCHANGED <<wanted, sawEnd, trusted, fin, server>>

(* TcpStream::recv returns 0: recv returns the empty string.                 *)
RecvEnds ==
    /\ call = "recv" /\ wire = <<>> /\ fin
    /\ call' = "idle"
    /\ sawEnd' = TRUE
    /\ UNCHANGED <<client, pending, wanted, delivered, trusted, wire, up, fin, server>>

(* It returns -1 after timeoutMs: recv throws, and may be called again.      *)
RecvTimesOut ==
    /\ call = "recv" /\ wire = <<>> /\ ~fin
    /\ call' = "idle"
    /\ UNCHANGED <<client, pending, wanted, delivered, sawEnd, trusted, wire, up, fin, server>>

CloseNotify(c) == IF c.sendOn THEN SealRecord(c, "alert", "close_notify") ELSE c

(* tls_close.                                                                *)
Close ==
    /\ call = "idle"
    /\ call' = "closed"
    /\ Flush(CloseNotify(client))
    /\ UNCHANGED <<pending, wanted, delivered, sawEnd, trusted, wire, fin, server>>

ClientNext ==
    \/ Connect \/ ConnectPump \/ ConnectGivesUp \/ Send
    \/ RecvAtOnce \/ RecvStarts \/ RecvPump \/ RecvEnds \/ RecvTimesOut \/ Close

-----------------------------------------------------------------------------
(* The server (external).  It writes every message of a flight with the same *)
(* number of half messages per record.                                       *)
Write(s, recs) == wire' = wire \o recs /\ server' = s

ServerSeal(type, body) == Rec(type, server.sendKey, server.sendSeq, body)
ServerSent == [server EXCEPT !.sendSeq = @ + 1]

MessageHalves(msgs) == [i \in 1..(2 * Len(msgs)) |-> msgs[(i + 1) \div 2]]

Records(msgs, key, k) ==
    LET all == MessageHalves(msgs)
    IN  [i \in 1..((Len(all) + k - 1) \div k) |->
           Rec("hs", key, IF key = Plain THEN 0 ELSE i - 1,
               SubSeq(all, k * (i - 1) + 1, IF k * i < Len(all) THEN k * i ELSE Len(all)))]

Ccs == Rec("ccs", Plain, 0, <<>>)

(* The answer of a 1.3 server: its whole flight; it may send data next.      *)
Answer13(k) ==
    LET hello == <<"ClientHello", "ServerHello13">>
        cert == hello \o <<"EncryptedExtensions", "Certificate">>
        verify == Append(cert, "CertificateVerify")
        done == Append(verify, "Finished")
        msgs == <<Msg("EncryptedExtensions", <<>>), Msg("Certificate", <<>>),
                  Msg("CertificateVerify", cert), Msg("Finished", verify)>>
    IN  Write([server EXCEPT !.phase = "answered", !.version = "1.3", !.halves = k,
                             !.transcript = done, !.sendKey = <<"s ap", done>>, !.sendSeq = 0,
                             !.recvKey = <<"c hs", hello>>, !.recvOn = TRUE],
              Records(<<Msg("ServerHello13", <<>>)>>, Plain, k) \o <<Ccs>>
              \o Records(msgs, <<"s hs", hello>>, k))

(* The answer of a 1.2 server, with or without extended master secret.       *)
Answer12(k, hello) ==
    LET msgs == <<Msg(hello, <<>>), Msg("Certificate12", <<>>), Msg("ServerKeyExchange", <<>>),
                  Msg("ServerHelloDone", <<>>)>>
    IN  Write([server EXCEPT !.phase = "answered", !.version = "1.2", !.halves = k,
                             !.transcript = <<"ClientHello">> \o Types(msgs)],
              Records(msgs, Plain, k))

ServerAnswers ==
    /\ server.phase = "new" /\ up # <<>>
    /\ up' = Tail(up)
    /\ \E k \in RecordHalves :
         Answer13(k) \/ Answer12(k, "ServerHello12") \/ Answer12(k, "ServerHello12Ems")
    /\ UNCHANGED <<client, call, pending, wanted, delivered, sawEnd, trusted, fin>>

Secret12(s) == IF "ServerHello12Ems" \in {s.transcript[i] : i \in DOMAIN s.transcript}
               THEN s.transcript ELSE <<>>

Finishes(s, m) ==
    [s EXCEPT !.rejects = m.th # s.transcript, !.phase = "ready",
              !.transcript = Append(@, "ClientFinished"),
              !.recvKey = IF s.version = "1.3" THEN <<"c ap", s.transcript>> ELSE @,
              !.recvSeq = IF s.version = "1.3" THEN 0 ELSE @]

(* What the server makes of a record of the client.                          *)
ReadBy(s, r) ==
    CASE r.type = "ccs" -> [s EXCEPT !.recvOn = TRUE, !.recvSeq = 0]
      [] r.type # "ccs" /\ (r.key # (IF s.recvOn THEN s.recvKey ELSE Plain) \/ r.seq # s.recvSeq) ->
           [s EXCEPT !.rejects = TRUE]
      [] OTHER ->
           LET t == IF s.recvOn THEN [s EXCEPT !.recvSeq = @ + 1] ELSE s
           IN  CASE r.type = "app" -> [t EXCEPT !.got = Append(@, r.body)]
                 [] r.type = "alert" -> [t EXCEPT !.phase = "peer closed"]
                 [] r.type = "hs" /\ r.body.type = "ClientKeyExchange" ->
                      LET u == [t EXCEPT !.transcript = Append(@, "ClientKeyExchange")]
                      IN  [u EXCEPT !.recvKey = <<"c 12", Secret12(u)>>,
                                    !.sendKey = <<"s 12", Secret12(u)>>]
                 [] r.type = "hs" /\ r.body.type = "ClientFinished" -> Finishes(t, r.body)

ServerReads ==
    /\ server.phase \in {"answered", "ready"} /\ up # <<>>
    /\ up' = Tail(up)
    /\ LET s == ReadBy(server, Head(up))
       IN  IF s.version = "1.2" /\ s.phase = "ready" /\ server.phase = "answered"
           THEN LET recs == Records(<<Msg("Finished12", s.transcript)>>, s.sendKey, s.halves)
                IN  Write([s EXCEPT !.transcript = Append(@, "Finished12"), !.sendSeq = Len(recs)],
                          <<Ccs>> \o recs)
           ELSE Write(s, <<>>)
    /\ UNCHANGED <<client, call, pending, wanted, delivered, sawEnd, trusted, fin>>

MaySendData == server.phase = "ready" \/ (server.phase = "answered" /\ server.version = "1.3")

(* Two numbers per record of data.                                           *)
ServerSends ==
    /\ MaySendData /\ server.sent < 2 * MaxData
    /\ Write([ServerSent EXCEPT !.sent = @ + 2],
             <<ServerSeal("app", <<server.sent + 1, server.sent + 2>>)>>)
    /\ UNCHANGED <<client, call, pending, wanted, delivered, sawEnd, trusted, up, fin>>

(* A session ticket, once, after a 1.3 handshake.                            *)
ServerTicket ==
    /\ server.phase = "ready" /\ server.version = "1.3" /\ ~server.ticket
    /\ LET m == Msg("NewSessionTicket", <<>>)
       IN  Write([ServerSent EXCEPT !.ticket = TRUE], <<ServerSeal("hs", <<m, m>>)>>)
    /\ UNCHANGED <<client, call, pending, wanted, delivered, sawEnd, trusted, up, fin>>

(* close_notify, or a fatal alert at any time, and the end of TCP after it.  *)
ServerCloses ==
    /\ MaySendData \/ server.phase = "peer closed"
    /\ Write([ServerSent EXCEPT !.phase = "closed"], <<ServerSeal("alert", "close_notify")>>)
    /\ UNCHANGED <<client, call, pending, wanted, delivered, sawEnd, trusted, up, fin>>

ServerAlert ==
    /\ server.phase \in {"answered", "ready"} \/ (server.phase = "new" /\ up # <<>>)
    /\ server.version = "1.2" => server.phase = "ready"
    /\ Write([ServerSent EXCEPT !.phase = "alerted"], <<ServerSeal("alert", "fatal")>>)
    /\ UNCHANGED <<client, call, pending, wanted, delivered, sawEnd, trusted, up, fin>>

ServerFin ==
    /\ server.phase \in {"closed", "alerted"} /\ ~fin
    /\ fin' = TRUE
    /\ UNCHANGED <<client, call, pending, wanted, delivered, sawEnd, trusted, wire, up, server>>

ServerNext ==
    \/ ServerAnswers \/ ServerReads \/ ServerSends \/ ServerTicket
    \/ ServerCloses \/ ServerAlert \/ ServerFin

TlsNext == ClientNext \/ ServerNext

TlsSpec == TlsInit /\ [][TlsNext]_tlsVars

-----------------------------------------------------------------------------
(* A 1.2 server that puts another message into its first record, after the   *)
(* ServerHello: handleRecord goes on with the handlers of 1.3.               *)
Mixed == server.version = "1.2" /\ server.halves > 3

(* With a server that follows the protocol nothing but its own alert or its  *)
(* certificate makes the client fail, and the server can open and agrees     *)
(* with every record of the client: the two sides change keys, sequence      *)
(* numbers and transcripts at the same records.                              *)
PeersAgree ==
    /\ client.fail \in {"None", "AlertReceived", "CertificateRejected"}
    /\ client.fail = "AlertReceived" => server.phase = "alerted"
    /\ ~server.rejects
    /\ server.got = [i \in 1..Len(server.got) |-> i]

PeersAgreeUndisturbed == ~Mixed => PeersAgree

(* When all that the server wrote has been read nothing is left in between:  *)
(* no half record, no half message, and the client is where the last message *)
(* of the server takes it.                                                   *)
NothingLeftBehindUndisturbed ==
    ~Mixed /\ wire = <<>> /\ client.state # "Failed" =>
        /\ client.half = 0 /\ client.hs = <<>>
        /\ server.phase = "answered" /\ server.version = "1.2" => client.state = "WaitFinished"
        /\ server.phase = "answered" /\ server.version = "1.3" => client.state = "Connected"
        /\ server.phase = "ready" => client.state = "Connected"

Numbers(n) == [i \in 1..n |-> i]

Stream == INSTANCE ByteStream
    WITH sent <- Numbers(server.sent), received <- delivered, atEnd <- sawEnd

(* The calls of recv return what the server wrote, in order, whatever the    *)
(* sizes of records, TCP segments and arguments, and the empty string only   *)
(* at its end: the socket implements the stream.                             *)
RecvIsStream == Stream!StreamSpec
=============================================================================
