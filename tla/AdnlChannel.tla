----------------------------- MODULE AdnlChannel -----------------------------
(***************************************************************************)
(* One ADNL connection over TCP: the handshake of AdnlPeer                 *)
(* (wrappers/peer.rs, primitives/handshake.rs), the packets of AdnlCodec   *)
(* (primitives/codec.rs), the reader of tokio_util's Framed around it      *)
(* (external), and a byte stream that splits and joins writes as it likes, *)
(* may damage a byte and may be cut.                                       *)
(*                                                                         *)
(* A byte on the wire remembers which packet and offset it belongs to and  *)
(* the keystream bytes that were XORed into it: XOR is its own inverse, so *)
(* applying keystream byte k adds k to the mask or removes it, and a byte  *)
(* reads as what was written when its mask is empty.  A packet whose bytes *)
(* do not all read as written fails the SHA-256 check.                     *)
(*                                                                         *)
(* The sizes of the format are constants, so that small ones can be        *)
(* checked: in the code HEADER = 4, NONCE = HASH = 32, MAXLEN = 2^24.      *)
(***************************************************************************)
EXTENDS Integers, Sequences, FiniteSets

CONSTANTS HEADER, NONCE, HASH, MAXLEN,
          PayloadSizes,  \* sizes of the payloads the ends send
          MaxPackets,    \* bound on the packets an end sends
          MaxFaults,     \* bound on damaged bytes and cut streams
          KnownKeys,     \* the keys the server's keypair_selector may return
          DialledKeys    \* the server keys a client may have been given

ASSUME ChannelAssumption ==
  /\ {HEADER, NONCE, HASH} \subseteq Nat \ {0}
  /\ MAXLEN \in Nat /\ MAXLEN >= NONCE + HASH
  /\ PayloadSizes \subseteq Nat
  /\ MaxPackets \in Nat \ {0}    \* the server's empty packet is one
  /\ MaxFaults \in Nat

VARIABLES
  phase,      \* phase[r]: how far end r is
  codec,      \* codec[r]: the AdnlCodec of end r
  wire,       \* wire[r]: the bytes sent by r that the other end has not read
  shut,       \* shut[r]: nothing will follow the bytes in wire[r]
  buf,        \* buf[r]: the read buffer of the Framed of r
  framed,     \* framed[r]: the state of that Framed
  sent,       \* sent[r]: the packets r sent
  delivered,  \* delivered[r]: the packets the reader of r returned
  broken,     \* broken[r]: the reader of r has returned an error
  faults      \* damaged bytes and cut streams so far

vars == <<phase, codec, wire, shut, buf, framed, sent, delivered, broken,
          faults>>

Roles == {"client", "server"}
Peer(r) == IF r = "client" THEN "server" ELSE "client"

OVERHEAD == NONCE + HASH
Packets == [id : 1 .. MaxPackets, len : PayloadSizes \cup {0}]

\* The receiver, sender, hash and parameters of a handshake packet, one byte
\* of the wire each.
HandshakeFields == <<"receiver", "sender", "hash", "params">>
HANDSHAKE == Len(HandshakeFields)

\* The session parameters: one key and nonce for either direction, named from
\* the client's side.
AesParams == [rx |-> "rx", tx |-> "tx"]

NoCodec == [rx |-> "none", tx |-> "none", rxpos |-> 0, txpos |-> 0,
            last_readed_length |-> -1]

client(params) == [NoCodec EXCEPT !.rx = params.rx, !.tx = params.tx]

\* Mutant: the server's side does not swap the two keys.
server_unswapped(params) ==
  [NoCodec EXCEPT !.rx = params.rx, !.tx = params.tx]

server(params) == [NoCodec EXCEPT !.rx = params.tx, !.tx = params.rx]

FramedNew == [readable |-> FALSE, eof |-> FALSE, errored |-> FALSE]

Init ==
  /\ phase = [r \in Roles |-> "new"]
  /\ codec = [r \in Roles |-> NoCodec]
  /\ wire = [r \in Roles |-> <<>>]
  /\ shut = [r \in Roles |-> FALSE]
  /\ buf = [r \in Roles |-> <<>>]
  /\ framed = [r \in Roles |-> FramedNew]
  /\ sent = [r \in Roles |-> <<>>]
  /\ delivered = [r \in Roles |-> <<>>]
  /\ broken = [r \in Roles |-> FALSE]
  /\ faults = 0

-----------------------------------------------------------------------------
\* Bytes and keystreams.

\* Byte `off` of packet `pkt` (0: the handshake), in the clear.
Byte(pkt, off) == [pkt |-> pkt, off |-> off, mask |-> {}, bad |-> FALSE]

SymDiff(A, B) == (A \ B) \cup (B \ A)

\* apply_keystream on the first n bytes, the keystream being at position pos.
apply_keystream(bytes, n, key, pos) ==
  [i \in 1 .. Len(bytes) |->
     IF i <= n
     THEN [bytes[i] EXCEPT !.mask = SymDiff(@, {<<key, pos + i>>})]
     ELSE bytes[i]]

Reads(b, pkt, off) == b.pkt = pkt /\ b.off = off /\ b.mask = {} /\ ~b.bad

Size(p) == p.len + OVERHEAD

-----------------------------------------------------------------------------
\* AdnlCodec::encode: the bytes and the codec after it.

\* Mutant: the limit on a packet forgets the nonce and the hash.
fits_payload(p) == p.len <= MAXLEN

fits(p) == p.len <= MAXLEN - OVERHEAD

encode(c, p) ==
  LET n == HEADER + Size(p)
  IN  [bytes |-> apply_keystream([i \in 1 .. n |-> Byte(p.id, i)],
                                 n, c.tx, c.txpos),
       codec |-> [c EXCEPT !.txpos = @ + n]]

-----------------------------------------------------------------------------
\* AdnlCodec::decode on the buffer b, `from` being what the other end sent:
\* the set of possible results, which has one element unless a length is read
\* from bytes that do not read as written.

Result(out, pkt, b, c) == [out |-> out, pkt |-> pkt, buf |-> b, codec |-> c]

\* The values the header b may have.
Lengths(b, from) ==
  LET h == [i \in 1 .. HEADER |-> b[i]]
      all == 0 .. MAXLEN + 1
      of == {p \in 1 .. Len(from) :
               \A i \in 1 .. HEADER : h[i].pkt = p /\ h[i].off = i
                                      /\ h[i].mask = {}}
  IN  CASE of = {} -> all
        [] of # {} /\ (\E i \in 1 .. HEADER : h[i].bad) ->
             all \ {Size(from[p]) : p \in of}
        [] OTHER -> {Size(from[p]) : p \in of}

\* The packets whose hash the first n bytes of b match.
Matching(b, n, from) ==
  {p \in 1 .. Len(from) :
     /\ n = Size(from[p])
     /\ \A i \in 1 .. n : Reads(b[i], p, HEADER + i)}

\* Mutant: a body that fails the check is dropped before the error is returned.
decode_body_drops(c, b, n, from) ==
  LET plain == apply_keystream(b, n, c.rx, c.rxpos)
      done  == [c EXCEPT !.rxpos = @ + n, !.last_readed_length = -1]
      ok    == Matching(plain, n, from)
      rest  == SubSeq(plain, n + 1, Len(b))
  IN  IF Len(b) < n
      THEN {Result("none", 0, b, [c EXCEPT !.last_readed_length = n])}
      ELSE IF ok = {}
           THEN {Result("IntegrityError", 0, rest, done)}
           ELSE {Result("frame", p, rest, done) : p \in ok}

\* Mutant: a length that was read is not kept while the body is incomplete.
decode_body_forgets(c, b, n, from) ==
  LET plain == apply_keystream(b, n, c.rx, c.rxpos)
      done  == [c EXCEPT !.rxpos = @ + n, !.last_readed_length = -1]
      ok    == Matching(plain, n, from)
  IN  IF Len(b) < n
      THEN {Result("none", 0, b, c)}
      ELSE IF ok = {}
           THEN {Result("IntegrityError", 0, plain, done)}
           ELSE {Result("frame", p, SubSeq(plain, n + 1, Len(b)), done)
                   : p \in ok}

\* A body of n bytes, its header read: wait, fail (the bytes stay in the
\* buffer, decrypted in place), or take it.
decode_body(c, b, n, from) ==
  LET plain == apply_keystream(b, n, c.rx, c.rxpos)
      done  == [c EXCEPT !.rxpos = @ + n, !.last_readed_length = -1]
      ok    == Matching(plain, n, from)
  IN  IF Len(b) < n
      THEN {Result("none", 0, b, [c EXCEPT !.last_readed_length = n])}
      ELSE IF ok = {}
           THEN {Result("IntegrityError", 0, plain, done)}
           ELSE {Result("frame", p, SubSeq(plain, n + 1, Len(b)), done)
                   : p \in ok}

\* Mutant: the length in a header is taken as it is.
decode_header_unchecked(c, b, from) ==
  LET plain  == apply_keystream(b, HEADER, c.rx, c.rxpos)
      passed == [c EXCEPT !.rxpos = @ + HEADER]
  IN  UNION {decode_body(passed, SubSeq(plain, HEADER + 1, Len(b)), n, from)
               : n \in Lengths(plain, from)}

decode_header(c, b, from) ==
  LET plain  == apply_keystream(b, HEADER, c.rx, c.rxpos)
      passed == [c EXCEPT !.rxpos = @ + HEADER]
  IN  UNION {CASE n < OVERHEAD ->
                    {Result("TooShortPacket", 0, plain, passed)}
               [] n > MAXLEN ->
                    {Result("TooLongPacket", 0, plain, passed)}
               [] OTHER ->
                    decode_body(passed, SubSeq(plain, HEADER + 1, Len(b)),
                                n, from)
               : n \in Lengths(plain, from)}

decode(c, b, from) ==
  CASE c.last_readed_length >= 0 ->
         decode_body(c, b, c.last_readed_length, from)
    [] c.last_readed_length < 0 /\ Len(b) < HEADER ->
         {Result("none", 0, b, c)}
    [] OTHER -> decode_header(c, b, from)

-----------------------------------------------------------------------------
\* The handshake.

\* End r drops its transport: the other end reads what is under way, then the
\* end of the stream.
Drop(r) == /\ phase' = [phase EXCEPT ![r] = "closed"]
           /\ shut' = [shut EXCEPT ![r] = TRUE]

\* connect, connect_with_timeout: no TCP connection (refused, or timed out as
\* tcp_connect), or a server key that is no public key (InvalidPublicKey).
ConnectFails ==
  /\ phase["client"] = "new"
  /\ Drop("client")
  /\ UNCHANGED <<codec, wire, buf, framed, sent, delivered, broken, faults>>

\* Mutant: the client does not wait for the server's empty packet.
ClientHandshakes_trusting(key) ==
  /\ phase["client"] = "new"
  /\ phase' = [phase EXCEPT !["client"] = "open"]
  /\ wire' = [wire EXCEPT !["client"] =
                [i \in 1 .. HANDSHAKE |->
                   [Byte(0, i) EXCEPT !.mask = {<<key, 0>>}]]]
  /\ codec' = [codec EXCEPT !["client"] = client(AesParams)]
  /\ UNCHANGED <<shut, buf, framed, sent, delivered, broken, faults>>

\* perform_custom_handshake up to its first await for an answer; `key` is the
\* server key the client was given, the address in the packet.
ClientHandshakes(key) ==
  /\ phase["client"] = "new"
  /\ phase' = [phase EXCEPT !["client"] = "handshaking"]
  /\ wire' = [wire EXCEPT !["client"] =
                [i \in 1 .. HANDSHAKE |->
                   [Byte(0, i) EXCEPT !.mask = {<<key, 0>>}]]]
  /\ codec' = [codec EXCEPT !["client"] = client(AesParams)]
  /\ UNCHANGED <<shut, buf, framed, sent, delivered, broken, faults>>

\* What is under way from r once it has written `bytes`: a connection that is
\* down loses them.
Written(r, bytes) == IF shut[r] THEN wire[r] ELSE wire[r] \o bytes

\* decrypt_from_raw succeeds: the selector's key is the one the packet was
\* made for, and no field was damaged.
DecryptsFromRaw(packet, key) ==
  \A i \in 1 .. HANDSHAKE : packet[i].mask = {<<key, 0>>} /\ ~packet[i].bad

\* handle_handshake: the whole packet has arrived, it decrypts, and the
\* server answers with an empty packet.
ServerAccepts(key) ==
  /\ phase["server"] = "new"
  /\ Len(wire["client"]) >= HANDSHAKE
  /\ DecryptsFromRaw(wire["client"], key)
  /\ phase' = [phase EXCEPT !["server"] = "open"]
  /\ LET e == encode(server(AesParams), [id |-> 1, len |-> 0])
     IN  /\ wire' = [wire EXCEPT
                       !["server"] = Written("server", e.bytes),
                       !["client"] = SubSeq(@, HANDSHAKE + 1, Len(@))]
         /\ codec' = [codec EXCEPT !["server"] = e.codec]
  /\ sent' = [sent EXCEPT !["server"] = <<[id |-> 1, len |-> 0]>>]
  /\ UNCHANGED <<shut, buf, framed, delivered, broken, faults>>

\* handle_handshake fails: UnknownAddr, InvalidPublicKey or IntegrityError
\* for a whole packet, IoError for a stream that ends before it is whole.
ServerRefuses(key) ==
  /\ phase["server"] = "new"
  /\ \/ /\ Len(wire["client"]) >= HANDSHAKE
        /\ ~DecryptsFromRaw(wire["client"], key)
     \/ /\ Len(wire["client"]) < HANDSHAKE
        /\ shut["client"]
  /\ Drop("server")
  /\ UNCHANGED <<codec, wire, buf, framed, sent, delivered, broken, faults>>

\* connect_with_timeout gives the handshake up (adnl_handshake).
HandshakeTimeout ==
  /\ phase["client"] = "handshaking"
  /\ Drop("client")
  /\ UNCHANGED <<codec, wire, buf, framed, sent, delivered, broken, faults>>

-----------------------------------------------------------------------------
\* An established connection.

\* Sink::send of a payload of n bytes; one that does not fit is refused with
\* TooLongPacket and leaves everything as it was.
Send(r, n) ==
  LET p == [id |-> Len(sent[r]) + 1, len |-> n]
      e == encode(codec[r], p)
  IN  /\ phase[r] = "open"
      /\ Len(sent[r]) < MaxPackets
      /\ fits(p)
      /\ wire' = [wire EXCEPT ![r] = Written(r, e.bytes)]
      /\ codec' = [codec EXCEPT ![r] = e.codec]
      /\ sent' = [sent EXCEPT ![r] = Append(@, p)]
      /\ UNCHANGED <<phase, shut, buf, framed, delivered, broken, faults>>

Reading(r) == phase[r] \in {"handshaking", "open"} /\ codec[r] # NoCodec

\* Framed reads 1 or more of the bytes under way.
ReadSome(r, n) ==
  /\ Reading(r)
  /\ ~framed[r].readable /\ ~framed[r].errored
  /\ n \in 1 .. Len(wire[Peer(r)])
  /\ buf' = [buf EXCEPT ![r] = @ \o SubSeq(wire[Peer(r)], 1, n)]
  /\ wire' = [wire EXCEPT ![Peer(r)] = SubSeq(@, n + 1, Len(@))]
  /\ framed' = [framed EXCEPT ![r].readable = TRUE, ![r].eof = FALSE]
  /\ UNCHANGED <<phase, codec, shut, sent, delivered, broken, faults>>

\* Framed reads the end of the stream for the first time: decode_eof follows.
ReadEof(r) ==
  /\ Reading(r)
  /\ ~framed[r].readable /\ ~framed[r].errored /\ ~framed[r].eof
  /\ wire[Peer(r)] = <<>> /\ shut[Peer(r)]
  /\ framed' = [framed EXCEPT ![r].readable = TRUE, ![r].eof = TRUE]
  /\ UNCHANGED <<phase, codec, wire, shut, buf, sent, delivered, broken,
                 faults>>

\* What poll_next returns of a decode result: decode_eof turns "no frame" with
\* bytes left into an error, and "no frame" with an empty buffer into the end.
Polled(out, b, eof) ==
  IF out # "none" THEN out
  ELSE IF ~eof THEN "pending"
       ELSE IF b = <<>> THEN "end" ELSE "IoError"

\* Framed calls the decoder on its buffer.  The first result of a client that
\* is handshaking decides its handshake: a packet opens the connection, an
\* error or the end of the stream (EndOfStream) drops it.
Decode(r) ==
  /\ Reading(r)
  /\ framed[r].readable /\ ~framed[r].errored
  /\ \E d \in decode(codec[r], buf[r], sent[Peer(r)]) :
       LET out == Polled(d.out, d.buf, framed[r].eof)
           failed == out \notin {"pending", "end", "frame"}
       IN  /\ buf' = [buf EXCEPT ![r] = d.buf]
           /\ codec' = [codec EXCEPT ![r] = d.codec]
           /\ framed' = [framed EXCEPT
                           ![r].readable = out \notin {"pending", "end"},
                           ![r].errored = failed]
           /\ broken' = [broken EXCEPT ![r] = @ \/ failed]
           /\ delivered' = IF out = "frame"
                           THEN [delivered EXCEPT
                                   ![r] = Append(@, sent[Peer(r)][d.pkt])]
                           ELSE delivered
           /\ CASE phase[r] = "handshaking" /\ out = "frame" ->
                     /\ phase' = [phase EXCEPT ![r] = "open"]
                     /\ UNCHANGED shut
                [] phase[r] = "handshaking" /\ (failed \/ out = "end") ->
                     Drop(r)
                [] OTHER -> UNCHANGED <<phase, shut>>
  /\ UNCHANGED <<wire, sent, faults>>

\* The poll after an error ends the stream; a reader may poll on after it.
AfterError(r) ==
  /\ Reading(r)
  /\ framed[r].errored
  /\ framed' = [framed EXCEPT ![r].readable = FALSE, ![r].errored = FALSE]
  /\ UNCHANGED <<phase, codec, wire, shut, buf, sent, delivered, broken,
                 faults>>

\* An end drops its AdnlPeer.
Close(r) ==
  /\ phase[r] = "open"
  /\ Drop(r)
  /\ UNCHANGED <<codec, wire, buf, framed, sent, delivered, broken, faults>>

-----------------------------------------------------------------------------
\* The network.

DamageByte(r) ==
  /\ faults < MaxFaults
  /\ faults' = faults + 1
  /\ \E i \in 1 .. Len(wire[r]) : wire' = [wire EXCEPT ![r][i].bad = TRUE]
  /\ UNCHANGED <<phase, codec, shut, buf, framed, sent, delivered, broken>>

\* The connection is lost with bytes under way: an end sees a stream that
\* stops anywhere.
Cut(r) ==
  /\ faults < MaxFaults
  /\ faults' = faults + 1
  /\ ~shut[r]
  /\ shut' = [shut EXCEPT ![r] = TRUE]
  /\ \E n \in 0 .. Len(wire[r]) :
       wire' = [wire EXCEPT ![r] = SubSeq(@, 1, n)]
  /\ UNCHANGED <<phase, codec, buf, framed, sent, delivered, broken>>

Next ==
  \/ ConnectFails
  \/ \E key \in DialledKeys : ClientHandshakes(key)
  \/ \E key \in KnownKeys : ServerAccepts(key) \/ ServerRefuses(key)
  \/ HandshakeTimeout
  \/ \E r \in Roles :
       \/ \E n \in PayloadSizes : Send(r, n)
       \/ \E n \in 1 .. Len(wire[Peer(r)]) : ReadSome(r, n)
       \/ ReadEof(r)
       \/ Decode(r)
       \/ AfterError(r)
       \/ Close(r)
       \/ DamageByte(r)
       \/ Cut(r)

Spec == Init /\ [][Next]_vars

\* Both ends poll their reader as long as they hold the connection, and TCP
\* keeps delivering.
FairSpec ==
  /\ Spec
  /\ \A r \in Roles : WF_vars(\/ \E n \in 1 .. Len(wire[Peer(r)]) : ReadSome(r, n)
                            \/ ReadEof(r) \/ Decode(r) \/ AfterError(r))

-----------------------------------------------------------------------------
\* Properties.

IsByte(b) == /\ b.pkt \in 0 .. MaxPackets /\ b.off \in Nat
             /\ IsFiniteSet(b.mask) /\ b.bad \in BOOLEAN

\* The types of the state: bytes, positions and packets are in range, no end
\* sends more than MaxPackets, and a length that is kept between two calls of
\* decode is one that decode accepts.
TypeOK ==
  /\ phase \in [Roles -> {"new", "handshaking", "open", "closed"}]
  /\ \A r \in Roles :
       /\ codec[r].rxpos \in Nat /\ codec[r].txpos \in Nat
       /\ codec[r].last_readed_length \in {-1} \cup OVERHEAD .. MAXLEN
       /\ \A i \in 1 .. Len(wire[r]) : IsByte(wire[r][i])
       /\ \A i \in 1 .. Len(buf[r]) : IsByte(buf[r][i])
       /\ Len(sent[r]) <= MaxPackets
       /\ \A i \in 1 .. Len(sent[r]) : sent[r][i] \in Packets
       /\ \A i \in 1 .. Len(delivered[r]) : delivered[r][i] \in Packets
  /\ shut \in [Roles -> BOOLEAN]
  /\ framed \in [Roles -> [readable : BOOLEAN, eof : BOOLEAN,
                           errored : BOOLEAN]]
  /\ broken \in [Roles -> BOOLEAN]
  /\ faults \in 0 .. MaxFaults

\* AdnlCodec keeps one keystream per direction across calls and applies it to
\* the header and to the body of a packet at different times: however the
\* stream is split, and whatever was damaged, every byte that is still to be
\* decrypted was encrypted with the keystream byte that decode will apply to
\* it, until the first error.
KeystreamsInStep ==
  \A r \in Roles :
    LET ahead == buf[r] \o wire[Peer(r)]
    IN  codec[r] # NoCodec /\ ~broken[r] =>
          \A i \in 1 .. Len(ahead) :
            ahead[i].mask = {<<codec[r].rx, codec[r].rxpos + i>>}

\* The limits of encode and decode agree, and decode never mistakes an
\* incomplete packet for a bad one: without a damaged byte or a lost
\* connection no reader returns an error.
ErrorsNeedFaults == \A r \in Roles : broken[r] => faults > 0

\* perform_custom_handshake waits for the server's empty packet "to ensure
\* that server knows our AES keys": whenever the client has an established
\* connection, the server has accepted this handshake and its codec mirrors
\* the client's.
EstablishedAgree ==
  phase["client"] = "open" =>
    /\ codec["server"].rx = codec["client"].tx
    /\ codec["server"].tx = codec["client"].rx
    /\ phase["server"] # "new"

\* The connection is a FIFO channel: what AdnlPeer's stream yields is what the
\* other end's sink was given, in order and once, through any splitting of
\* the bytes, and nothing after an error, even for a reader that polls on.
Chan == INSTANCE FifoChannel WITH Ends <- Roles
ImplementsFifoChannel == Chan!ChanSpec

\* Every packet that was sent is delivered, unless its receiver is gone or has met
\* an error, or the connection was at fault: there is always a time when none is
\* under way.
PacketArrives ==
  []<>(\A r \in Roles : \/ Len(delivered[Peer(r)]) = Len(sent[r])
                        \/ phase[Peer(r)] = "closed"
                        \/ broken[Peer(r)]
                        \/ faults > 0)
=============================================================================
