------------------------- MODULE AdnlChannelProofs --------------------------
(***************************************************************************)
(* Proofs about AdnlChannel, for any sizes of the format, any payloads and *)
(* keys, and any number of packets and faults.                             *)
(***************************************************************************)
EXTENDS AdnlChannel, FiniteSetTheorems, SequenceTheorems, TLAPS

KeyNames == DialledKeys \cup {"rx", "tx", "none"}
Masks == {m \in SUBSET (KeyNames \X Nat) : IsFiniteSet(m)}
Bytes == [pkt : 0 .. MaxPackets, off : Nat, mask : Masks, bad : BOOLEAN]
CodecKeys == {"rx", "tx", "none"}
KeptLengths == {-1} \cup OVERHEAD .. MAXLEN
Codecs == [rx : CodecKeys, tx : CodecKeys, rxpos : Nat, txpos : Nat,
           last_readed_length : KeptLengths]

Typed ==
  /\ phase \in [Roles -> {"new", "handshaking", "open", "closed"}]
  /\ codec \in [Roles -> Codecs]
  /\ wire \in [Roles -> Seq(Bytes)] /\ buf \in [Roles -> Seq(Bytes)]
  /\ shut \in [Roles -> BOOLEAN] /\ broken \in [Roles -> BOOLEAN]
  /\ framed \in [Roles -> [readable : BOOLEAN, eof : BOOLEAN, errored : BOOLEAN]]
  /\ sent \in [Roles -> Seq(Packets)] /\ delivered \in [Roles -> Seq(Packets)]
  /\ faults \in 0 .. MaxFaults
  /\ \A r \in Roles : Len(sent[r]) <= MaxPackets
  /\ \A r \in Roles : \A p \in 1 .. Len(sent[r]) : fits(sent[r][p])

\* The server has the keys only after the client, and nothing was sent before:
\* what is under way is the client's handshake, or what is left of it.
Keyed(r) == codec[r].rx # "none"
ClientKeys == codec["client"].rx = "rx" /\ codec["client"].tx = "tx"
ServerKeys == codec["server"].rx = "tx" /\ codec["server"].tx = "rx"

KeysAgree ==
  /\ \A r \in Roles : Keyed(r) \/ framed[r] = FramedNew
  /\ IF Keyed("client") THEN ClientKeys /\ phase["client"] # "new"
     ELSE /\ codec["client"] = NoCodec /\ phase["client"] \in {"new", "closed"}
          /\ wire["client"] = <<>> /\ ~Keyed("server")
  /\ IF Keyed("server") THEN ServerKeys /\ phase["server"] \in {"open", "closed"}
     ELSE /\ codec["server"] = NoCodec /\ phase["server"] \in {"new", "closed"}
          /\ phase["client"] # "open"
          /\ Keyed("client") => codec["client"] = client(AesParams)
          /\ \A r \in Roles : buf[r] = <<>> /\ sent[r] = <<>> /\ delivered[r] = <<>> /\ ~broken[r]
          /\ wire["server"] = <<>> /\ Len(wire["client"]) <= HANDSHAKE

-----------------------------------------------------------------------------
\* A stream, as the receiver has it before it: A is what it has not decoded, c its
\* codec, n the number of packets it has delivered, from what was sent, tx the
\* position of the sender's keystream.

Total(p) == HEADER + Size(p)

\* Every byte is encrypted with the keystream byte that decode will apply to it.
InStep(A, c) == \A i \in 1 .. Len(A) : A[i].mask = {<<c.rx, c.rxpos + i>>}

\* The bytes are those of the packets, each packet in one piece, in order.
OfPackets(A, from) ==
  \A i \in 1 .. Len(A) : A[i].pkt \in 1 .. Len(from) /\ A[i].off \in 1 .. Total(from[A[i].pkt])
OnePiece(A, from) ==
  \A i, j \in 1 .. Len(A) :
    A[i].off + (j - i) \in 1 .. Total(from[A[i].pkt]) =>
      A[j].pkt = A[i].pkt /\ A[j].off = A[i].off + (j - i)
InOrder(A, from) ==
  \A i \in 1 .. Len(A) - 1 :
    A[i].off = Total(from[A[i].pkt]) => A[i + 1].pkt = A[i].pkt + 1 /\ A[i + 1].off = 1

\* It begins with the packet to deliver next, after its header if that was read.
Begins(A, c, n) ==
  Len(A) > 0 => /\ A[1].pkt = n + 1
                /\ A[1].off = IF c.last_readed_length = -1 THEN 1 ELSE HEADER + 1

Flows(A, c, n, from) ==
  InStep(A, c) /\ OfPackets(A, from) /\ OnePiece(A, from) /\ InOrder(A, from) /\ Begins(A, c, n)

\* It ends with the last byte that was sent, as long as the connection is not down.
UpToDate(A, c, n, from, tx) ==
  /\ c.rxpos + Len(A) = tx
  /\ IF Len(A) = 0 THEN n = Len(from) /\ c.last_readed_length = -1
     ELSE A[Len(A)].pkt = Len(from) /\ A[Len(A)].off = Total(from[Len(from)])

\* Without faults every packet in it is whole, and a length that was read is right.
Intact(A, c, from) ==
  /\ \A i \in 1 .. Len(A) : ~A[i].bad /\ i + Total(from[A[i].pkt]) - A[i].off <= Len(A)
  /\ c.last_readed_length # -1 => Len(A) > 0 /\ c.last_readed_length = Size(from[A[1].pkt])

\* The keystream is past every byte: none can be decrypted any more.
Past(A, c) == \A i \in 1 .. Len(A) : \A e \in A[i].mask : e[2] < c.rxpos + i
PastAll(A, c, tx) == tx < c.rxpos + Len(A)

\* One direction of the connection: brk, the receiver has met an error; down, nothing
\* more will arrive; clean, there was no fault; stuck, nothing more will be read.
Stream(A, c, n, from, tx, brk, down, clean, stuck) ==
  /\ ~brk => Flows(A, c, n, from) /\ (~down => UpToDate(A, c, n, from, tx))
  /\ brk => stuck \/ (Past(A, c) /\ (~down => PastAll(A, c, tx)))
  /\ clean => ~brk /\ Intact(A, c, from)

Ahead(r) == buf[r] \o wire[Peer(r)]
Ended(r) == wire[Peer(r)] = <<>> /\ shut[Peer(r)]

\* The stream ended with a part of a packet: nothing will be read any more.
Stuck(r) == framed[r].eof /\ (framed[r].errored \/ ~framed[r].readable) /\ Ended(r)

Direction(r) ==
  Keyed(r) =>
    /\ Stream(Ahead(r), codec[r], Len(delivered[r]), sent[Peer(r)], codec[Peer(r)].txpos,
              broken[r], shut[Peer(r)], faults = 0, Stuck(r))
    /\ framed[r].eof => Ended(r)

Directions == \A r \in Roles : Direction(r)

\* The inductive invariant.
IInv == Typed /\ KeysAgree /\ Directions

-----------------------------------------------------------------------------
\* Sizes: a packet has a header and two bytes at least, and one that fits is one
\* that decode accepts.
LEMMA Sizes ==
  /\ HEADER \in Nat /\ HEADER >= 1
  /\ OVERHEAD \in Nat /\ OVERHEAD >= 2 /\ MAXLEN \in Nat /\ OVERHEAD <= MAXLEN
  /\ MaxPackets \in Nat /\ MaxPackets >= 1 /\ MaxFaults \in Nat
  /\ \A p \in Packets : /\ p.len \in Nat
                        /\ Size(p) \in Nat /\ Size(p) >= OVERHEAD
                        /\ Total(p) \in Nat /\ Total(p) = HEADER + Size(p)
                        /\ fits(p) => Size(p) <= MAXLEN
<1>1. /\ HEADER \in Nat /\ HEADER >= 1
      /\ OVERHEAD \in Nat /\ OVERHEAD >= 2 /\ MAXLEN \in Nat /\ OVERHEAD <= MAXLEN
      /\ MaxPackets \in Nat /\ MaxPackets >= 1 /\ MaxFaults \in Nat
  BY ChannelAssumption DEF OVERHEAD
<1>2. ASSUME NEW p \in Packets
      PROVE  /\ p.len \in Nat
             /\ Size(p) \in Nat /\ Size(p) >= OVERHEAD
             /\ Total(p) \in Nat /\ Total(p) = HEADER + Size(p)
             /\ fits(p) => Size(p) <= MAXLEN
  <2>1. p.len \in Nat
    <3>1. p.len \in PayloadSizes \cup {0}
      BY DEF Packets
    <3>2. \A n \in PayloadSizes : n \in Nat
      BY ChannelAssumption
    <3> QED
      BY <3>1, <3>2
  <2> QED
    BY <1>1, <2>1 DEF Size, Total, fits
<1>3. QED
  BY <1>1, <1>2

\* A keystream byte is added to a mask, or removed from it.
LEMMA MaskToggled ==
  ASSUME NEW m \in Masks, NEW k \in KeyNames, NEW n \in Nat
  PROVE  SymDiff(m, {<<k, n>>}) \in Masks
<1>1. IsFiniteSet(m) /\ m \in SUBSET (KeyNames \X Nat) /\ <<k, n>> \in KeyNames \X Nat
  BY DEF Masks
<1>2. CASE <<k, n>> \in m
  <2>1. SymDiff(m, {<<k, n>>}) = m \ {<<k, n>>}
    BY <1>2 DEF SymDiff
  <2>2. IsFiniteSet(m \ {<<k, n>>})
    BY <1>1, FS_RemoveElement
  <2> QED
    BY <1>1, <2>1, <2>2 DEF Masks
<1>3. CASE <<k, n>> \notin m
  <2>1. SymDiff(m, {<<k, n>>}) = m \cup {<<k, n>>}
    BY <1>3 DEF SymDiff
  <2>2. IsFiniteSet(m \cup {<<k, n>>})
    BY <1>1, FS_AddElement
  <2> QED
    BY <1>1, <2>1, <2>2 DEF Masks
<1>4. QED
  BY <1>2, <1>3

\* x is b with the keystream applied to its first n bytes: their masks change and
\* nothing else does.
Applied(x, b, n, key, pos) ==
  /\ x \in Seq(Bytes) /\ Len(x) = Len(b)
  /\ \A i \in 1 .. Len(b) :
       /\ x[i].pkt = b[i].pkt /\ x[i].off = b[i].off /\ x[i].bad = b[i].bad
       /\ i > n => x[i] = b[i]
       /\ i <= n => x[i].mask = SymDiff(b[i].mask, {<<key, pos + i>>})

\* apply_keystream is that, wherever in the buffer it ends.
LEMMA KeystreamApplied ==
  ASSUME NEW b \in Seq(Bytes), NEW n \in Nat, NEW key \in KeyNames, NEW pos \in Nat
  PROVE  Applied(apply_keystream(b, n, key, pos), b, n, key, pos)
<1> DEFINE x == apply_keystream(b, n, key, pos)
<1>1. Len(b) \in Nat /\ \A i \in 1 .. Len(b) : b[i] \in Bytes
  OBVIOUS
<1>2. x = [i \in 1 .. Len(b) |->
             IF i <= n THEN [b[i] EXCEPT !.mask = SymDiff(b[i].mask, {<<key, pos + i>>})]
                       ELSE b[i]]
  BY DEF apply_keystream
<1>3. ASSUME NEW i \in 1 .. Len(b)
      PROVE  /\ x[i] \in Bytes
             /\ x[i].pkt = b[i].pkt /\ x[i].off = b[i].off /\ x[i].bad = b[i].bad
             /\ i > n => x[i] = b[i]
             /\ i <= n => x[i].mask = SymDiff(b[i].mask, {<<key, pos + i>>})
  <2>1. b[i] \in Bytes /\ i \in Nat /\ pos + i \in Nat /\ b[i].mask \in Masks
    BY <1>1 DEF Bytes
  <2>2. CASE i <= n
    <3>1. x[i] = [b[i] EXCEPT !.mask = SymDiff(b[i].mask, {<<key, pos + i>>})]
      BY <1>2, <2>2
    <3>2. PICK m \in Masks : m = SymDiff(b[i].mask, {<<key, pos + i>>})
      BY <2>1, MaskToggled
    <3>3. x[i] = [b[i] EXCEPT !.mask = m]
      BY <3>1, <3>2
    <3>4. x[i] \in Bytes
      BY <2>1, <3>3 DEF Bytes
    <3>5. x[i].pkt = b[i].pkt /\ x[i].off = b[i].off /\ x[i].bad = b[i].bad /\ x[i].mask = m
      BY <2>1, <3>3 DEF Bytes
    <3> QED
      BY <2>1, <2>2, <3>2, <3>4, <3>5
  <2>3. CASE i > n
    BY <1>2, <2>1, <2>3
  <2> QED
    BY <2>1, <2>2, <2>3
<1>4. x \in Seq(Bytes) /\ Len(x) = Len(b)
  <2>1. x \in [1 .. Len(b) -> Bytes]
    BY <1>2, <1>3
  <2> HIDE DEF x
  <2> QED
    BY <1>1, <2>1
<1>5. QED
  BY <1>3, <1>4 DEF Applied

-----------------------------------------------------------------------------
\* What decode may do to the buffer b: k bytes of header are passed, then a body of
\* n bytes is awaited, taken or refused.

\* x is b without its first k bytes.
Left(x, b, k) == k <= Len(b) /\ Len(x) = Len(b) - k /\ \A i \in 1 .. Len(x) : x[i] = b[k + i]

\* x is b without its first k bytes, the keystream applied to the m that follow.
Toggled(x, b, k, m, c) ==
  /\ k <= Len(b) /\ Len(x) = Len(b) - k
  /\ \A i \in 1 .. Len(x) :
       /\ x[i].pkt = b[k + i].pkt /\ x[i].off = b[k + i].off /\ x[i].bad = b[k + i].bad
       /\ i > m => x[i].mask = b[k + i].mask
       /\ i <= m => x[i].mask = SymDiff(b[k + i].mask, {<<c.rx, c.rxpos + k + i>>})

\* After k bytes, packet p is in b.
BodyIs(b, k, n, c, p, from) ==
  /\ n = Size(from[p])
  /\ \A i \in 1 .. n :
       /\ b[k + i].pkt = p /\ b[k + i].off = HEADER + i /\ ~b[k + i].bad
       /\ SymDiff(b[k + i].mask, {<<c.rx, c.rxpos + k + i>>}) = {}

\* d is c with its receiving side moved.
IsCodecAt(d, c, pos, last) ==
  /\ d \in Codecs /\ d.rx = c.rx /\ d.tx = c.tx /\ d.txpos = c.txpos
  /\ d.rxpos = c.rxpos + pos /\ d.last_readed_length = last
CodecAt(c, pos, last) == [c EXCEPT !.rxpos = c.rxpos + pos, !.last_readed_length = last]
Moved(d, c, pos, last) == d.buf \in Seq(Bytes) /\ IsCodecAt(d.codec, c, pos, last)

Waits(d, c, b, k, n) ==
  d.out = "none" /\ Moved(d, c, k, n) /\ Left(d.buf, b, k) /\ Len(b) - k < n
Takes(d, c, b, k, n, from) ==
  /\ d.out = "frame" /\ Moved(d, c, k + n, -1) /\ Left(d.buf, b, k + n)
  /\ d.pkt \in 1 .. Len(from) /\ BodyIs(b, k, n, c, d.pkt, from)
Refuses(d, c, b, k, n, from) ==
  /\ d.out = "IntegrityError" /\ Moved(d, c, k + n, -1) /\ Toggled(d.buf, b, k, n, c)
  /\ Len(b) - k >= n
  /\ \A p \in 1 .. Len(from) : ~BodyIs(b, k, n, c, p, from)

\* The lengths that a codec may keep.
LEMMA Kept == -1 \in KeptLengths /\ \A n \in OVERHEAD .. MAXLEN : n \in KeptLengths
BY DEF KeptLengths

\* The fields of a codec that decode changes.
LEMMA CodecMoved ==
  ASSUME NEW c \in Codecs, NEW pos \in Nat, NEW last \in KeptLengths
  PROVE  IsCodecAt(CodecAt(c, pos, last), c, pos, last)
<1> DEFINE d == CodecAt(c, pos, last)
<1>1. PICK x \in Nat : x = c.rxpos + pos
  BY DEF Codecs
<1>2. d = [c EXCEPT !.rxpos = x, !.last_readed_length = last]
  BY <1>1 DEF CodecAt
<1> HIDE DEF d
<1>3. d \in Codecs
  BY <1>2 DEF Codecs
<1>4. d.rx = c.rx /\ d.tx = c.tx /\ d.txpos = c.txpos /\ d.rxpos = x /\ d.last_readed_length = last
  BY <1>2 DEF Codecs
<1>5. IsCodecAt(d, c, pos, last)
  BY <1>1, <1>3, <1>4 DEF IsCodecAt
<1>6. QED
  BY <1>5 DEF d

\* The forms that decode gives it.
LEMMA CodecFields ==
  ASSUME NEW c \in Codecs
  PROVE  /\ \A last : [c EXCEPT !.last_readed_length = last] = CodecAt(c, 0, last)
         /\ \A n : [c EXCEPT !.rxpos = @ + n] = CodecAt(c, n, c.last_readed_length)
         /\ \A n : [c EXCEPT !.rxpos = @ + n, !.last_readed_length = -1] = CodecAt(c, n, -1)
<1>1. c.rxpos + 0 = c.rxpos
  BY DEF Codecs
<1>2. QED
  BY <1>1 DEF Codecs, CodecAt

\* The end of a buffer.
LEMMA BufferLeft ==
  ASSUME NEW b \in Seq(Bytes), NEW k \in Nat, k <= Len(b)
  PROVE  SubSeq(b, k + 1, Len(b)) \in Seq(Bytes) /\ Left(SubSeq(b, k + 1, Len(b)), b, k)
<1>1. Len(b) \in Nat /\ \A i \in k + 1 .. Len(b) : b[i] \in Bytes
  OBVIOUS
<1>2. /\ SubSeq(b, k + 1, Len(b)) \in Seq(Bytes)
      /\ Len(SubSeq(b, k + 1, Len(b))) = IF k + 1 <= Len(b) THEN Len(b) - (k + 1) + 1 ELSE 0
      /\ \A i \in 1 .. Len(b) - (k + 1) + 1 : SubSeq(b, k + 1, Len(b))[i] = b[k + 1 + i - 1]
  BY <1>1, SubSeqProperties
<1>3. Len(SubSeq(b, k + 1, Len(b))) = Len(b) - k
  BY <1>1, <1>2
<1>4. \A i \in 1 .. Len(b) - k : SubSeq(b, k + 1, Len(b))[i] = b[k + i]
  BY <1>1, <1>2
<1>5. QED
  BY <1>2, <1>3, <1>4 DEF Left

\* decode_body on a buffer whose header was passed before.
LEMMA BodyDecoded ==
  ASSUME NEW c \in Codecs, NEW b \in Seq(Bytes), NEW n \in OVERHEAD .. MAXLEN,
         NEW from, NEW d \in decode_body(c, b, n, from)
  PROVE  Waits(d, c, b, 0, n) \/ Takes(d, c, b, 0, n, from) \/ Refuses(d, c, b, 0, n, from)
<1> DEFINE plain == apply_keystream(b, n, c.rx, c.rxpos)
           done == [c EXCEPT !.rxpos = @ + n, !.last_readed_length = -1]
           ok == Matching(plain, n, from)
<1>1. /\ n \in Nat /\ n >= 1 /\ c.rx \in KeyNames /\ c.rxpos \in Nat /\ Len(b) \in Nat
      /\ n \in KeptLengths /\ -1 \in KeptLengths
      /\ \A i \in Nat : 0 + i = i /\ c.rxpos + 0 + i = c.rxpos + i
  BY Sizes, Kept DEF Codecs, CodecKeys, KeyNames
<1>2. /\ plain \in Seq(Bytes) /\ Len(plain) = Len(b)
      /\ \A i \in 1 .. Len(b) :
           /\ plain[i].pkt = b[i].pkt /\ plain[i].off = b[i].off /\ plain[i].bad = b[i].bad
           /\ i > n => plain[i] = b[i]
           /\ i <= n => plain[i].mask = SymDiff(b[i].mask, {<<c.rx, c.rxpos + i>>})
  BY <1>1, KeystreamApplied DEF Applied
<1>3. IsCodecAt(done, c, n, -1)
  <2>1. done = CodecAt(c, n, -1)
    BY CodecFields
  <2>2. IsCodecAt(CodecAt(c, n, -1), c, n, -1)
    BY <1>1, CodecMoved
  <2> QED
    BY <2>1, <2>2, Zenon
<1>4. d \in IF Len(b) < n
           THEN {Result("none", 0, b, [c EXCEPT !.last_readed_length = n])}
           ELSE IF ok = {}
                THEN {Result("IntegrityError", 0, plain, done)}
                ELSE {Result("frame", p, SubSeq(plain, n + 1, Len(b)), done) : p \in ok}
  BY DEF decode_body
<1> HIDE DEF plain, done, ok
<1>5. CASE Len(b) < n
  <2>1. d = Result("none", 0, b, [c EXCEPT !.last_readed_length = n])
    BY <1>4, <1>5
  <2>2. d.out = "none" /\ d.buf = b /\ d.codec = [c EXCEPT !.last_readed_length = n]
    BY <2>1 DEF Result
  <2>3. Moved(d, c, 0, n)
    <3>1. d.codec = CodecAt(c, 0, n)
      BY <2>2, CodecFields
    <3>2. IsCodecAt(CodecAt(c, 0, n), c, 0, n)
      BY <1>1, CodecMoved
    <3> QED
      BY <2>2, <3>1, <3>2 DEF Moved
  <2>4. Left(d.buf, b, 0)
    BY <1>1, <2>2 DEF Left
  <2> QED
    BY <1>1, <1>5, <2>2, <2>3, <2>4 DEF Waits
<1>6. ASSUME NEW p \in 1 .. Len(from), Len(b) >= n
      PROVE  p \in ok <=> BodyIs(b, 0, n, c, p, from)
  <2>1. \A i \in 1 .. n : i \in 1 .. Len(b)
    BY <1>1, <1>6
  <2>2. ASSUME NEW i \in 1 .. n
        PROVE  Reads(plain[i], p, HEADER + i) <=>
                 /\ b[0 + i].pkt = p /\ b[0 + i].off = HEADER + i /\ ~b[0 + i].bad
                 /\ SymDiff(b[0 + i].mask, {<<c.rx, c.rxpos + 0 + i>>}) = {}
    <3>1. 0 + i = i /\ c.rxpos + 0 + i = c.rxpos + i /\ i <= n /\ i \in 1 .. Len(b)
      BY <1>1, <2>1
    <3>2. /\ plain[i].pkt = b[i].pkt /\ plain[i].off = b[i].off /\ plain[i].bad = b[i].bad
          /\ plain[i].mask = SymDiff(b[i].mask, {<<c.rx, c.rxpos + i>>})
      BY <1>2, <3>1
    <3> QED
      BY <3>1, <3>2, Zenon DEF Reads
  <2>3. p \in ok <=> n = Size(from[p]) /\ \A i \in 1 .. n : Reads(plain[i], p, HEADER + i)
    BY DEF ok, Matching
  <2> QED
    BY <2>2, <2>3, Zenon DEF BodyIs
<1>7. CASE Len(b) >= n /\ ok = {}
  <2>1. d = Result("IntegrityError", 0, plain, done)
    BY <1>1, <1>4, <1>7
  <2>2. d.out = "IntegrityError" /\ d.buf = plain /\ d.codec = done
    BY <2>1 DEF Result
  <2>3. Moved(d, c, 0 + n, -1)
    BY <1>1, <1>2, <1>3, <2>2 DEF Moved
  <2>4. Toggled(d.buf, b, 0, n, c)
    <3>1. 0 <= Len(b) /\ Len(d.buf) = Len(b) - 0
      BY <1>1, <1>2, <2>2
    <3>2. ASSUME NEW i \in 1 .. Len(d.buf)
          PROVE  /\ d.buf[i].pkt = b[0 + i].pkt /\ d.buf[i].off = b[0 + i].off
                 /\ d.buf[i].bad = b[0 + i].bad
                 /\ i > n => d.buf[i].mask = b[0 + i].mask
                 /\ i <= n => d.buf[i].mask = SymDiff(b[0 + i].mask, {<<c.rx, c.rxpos + 0 + i>>})
      <4>1. i \in 1 .. Len(b) /\ 0 + i = i /\ c.rxpos + 0 + i = c.rxpos + i
        BY <1>1, <1>2, <2>2
      <4> QED
        BY <1>2, <2>2, <4>1, Zenon
    <3> QED
      BY <3>1, <3>2 DEF Toggled
  <2> QED
    BY <1>1, <1>6, <1>7, <2>2, <2>3, <2>4 DEF Refuses
<1>8. CASE Len(b) >= n /\ ok # {}
  <2>1. PICK p \in ok : d = Result("frame", p, SubSeq(plain, n + 1, Len(b)), done)
    BY <1>1, <1>4, <1>8
  <2>2. /\ d.out = "frame" /\ d.pkt = p /\ d.buf = SubSeq(plain, n + 1, Len(b))
        /\ d.codec = done
    BY <2>1 DEF Result
  <2>3. p \in 1 .. Len(from)
    BY <2>1 DEF ok, Matching
  <2>4. d.buf \in Seq(Bytes) /\ Left(d.buf, plain, n)
    <3>1. d.buf = SubSeq(plain, n + 1, Len(plain)) /\ n <= Len(plain)
      BY <1>1, <1>2, <1>8, <2>2
    <3> QED
      BY <1>1, <1>2, <3>1, BufferLeft
  <2>5. Left(d.buf, b, n)
    <3>1. n <= Len(b) /\ Len(d.buf) = Len(b) - n
      BY <1>1, <1>2, <1>8, <2>4 DEF Left
    <3>2. ASSUME NEW i \in 1 .. Len(d.buf)
          PROVE  d.buf[i] = b[n + i]
      <4>1. d.buf[i] = plain[n + i]
        BY <2>4 DEF Left
      <4>2. n + i \in 1 .. Len(b) /\ n + i > n
        BY <1>1, <3>1
      <4> QED
        BY <1>2, <4>1, <4>2
    <3> QED
      BY <3>1, <3>2 DEF Left
  <2>6. Moved(d, c, 0 + n, -1)
    BY <1>1, <1>3, <2>2, <2>4 DEF Moved
  <2>7. BodyIs(b, 0, n, c, p, from)
    BY <1>6, <1>8, <2>1, <2>3
  <2> QED
    BY <1>1, <2>2, <2>3, <2>5, <2>6, <2>7 DEF Takes
<1>9. QED
  BY <1>1, <1>5, <1>7, <1>8

\* A buffer from which two parts were taken.
LEMMA LeftTwice ==
  ASSUME NEW b \in Seq(Bytes), NEW x \in Seq(Bytes), NEW y \in Seq(Bytes),
         NEW k \in Nat, NEW m \in Nat, Left(x, b, k), Left(y, x, m)
  PROVE  Left(y, b, k + m)
<1>1. Len(b) \in Nat /\ Len(x) \in Nat /\ Len(y) \in Nat
  OBVIOUS
<1>2. k + m <= Len(b) /\ Len(y) = Len(b) - (k + m)
  BY <1>1 DEF Left
<1>3. ASSUME NEW i \in 1 .. Len(y)
      PROVE  y[i] = b[(k + m) + i]
  <2>1. y[i] = x[m + i]
    BY DEF Left
  <2>2. m + i \in 1 .. Len(x)
    BY <1>1 DEF Left
  <2>3. x[m + i] = b[k + (m + i)]
    BY <2>2 DEF Left
  <2>4. k + (m + i) = (k + m) + i
    BY <1>1
  <2> QED
    BY <2>1, <2>3, <2>4
<1>4. QED
  BY <1>2, <1>3 DEF Left

\* What decode_body does after a header of h bytes was passed.
LEMMA BodyAfterHeader ==
  ASSUME NEW c \in Codecs, NEW p \in Codecs, NEW b \in Seq(Bytes), NEW x \in Seq(Bytes),
         NEW h \in Nat, NEW last, NEW n \in Nat, NEW from \in Seq(Packets), NEW d,
         IsCodecAt(p, c, h, last), Left(x, b, h)
  PROVE  /\ Waits(d, p, x, 0, n) => Waits(d, c, b, h, n)
         /\ Takes(d, p, x, 0, n, from) => Takes(d, c, b, h, n, from)
         /\ Refuses(d, p, x, 0, n, from) => Refuses(d, c, b, h, n, from)
<1>1. /\ Len(b) \in Nat /\ Len(x) \in Nat /\ Len(x) = Len(b) - h /\ h <= Len(b)
      /\ c.rxpos \in Nat /\ p.rxpos = c.rxpos + h /\ p.rx = c.rx
  BY DEF Left, IsCodecAt, Codecs
<1>2. ASSUME NEW i \in 1 .. Len(x)
      PROVE  /\ x[0 + i] = b[h + i] /\ 0 + i = i
             /\ p.rxpos + 0 + i = c.rxpos + h + i
  <2>1. x[i] = b[h + i]
    BY DEF Left
  <2>2. 0 + i = i /\ p.rxpos + 0 + i = c.rxpos + h + i
    BY <1>1
  <2> QED
    BY <2>1, <2>2
<1>3. ASSUME NEW m \in Nat, NEW l, Moved(d, p, m, l)
      PROVE  Moved(d, c, h + m, l)
  <2>1. p.rxpos + m = c.rxpos + (h + m)
    BY <1>1
  <2> QED
    BY <1>1, <1>3, <2>1 DEF Moved, IsCodecAt
<1>4. ASSUME NEW q \in 1 .. Len(from), n <= Len(x)
      PROVE  BodyIs(x, 0, n, p, q, from) <=> BodyIs(b, h, n, c, q, from)
  <2>1. \A i \in 1 .. n : i \in 1 .. Len(x)
    BY <1>1, <1>4
  <2> QED
    BY <1>1, <1>2, <2>1, Zenon DEF BodyIs
<1>5. ASSUME Waits(d, p, x, 0, n)
      PROVE  Waits(d, c, b, h, n)
  <2>1. Moved(d, c, h + 0, n) /\ h + 0 = h
    BY <1>3, <1>5 DEF Waits
  <2>2. d.buf \in Seq(Bytes) /\ Left(d.buf, x, 0)
    BY <1>5 DEF Waits, Moved
  <2>3. Left(d.buf, b, h + 0)
    BY <2>2, LeftTwice
  <2>4. Len(b) - h < n /\ d.out = "none"
    BY <1>1, <1>5 DEF Waits
  <2> QED
    BY <2>1, <2>3, <2>4 DEF Waits
<1>6. ASSUME Takes(d, p, x, 0, n, from)
      PROVE  Takes(d, c, b, h, n, from)
  <2>0. 0 + n = n
    OBVIOUS
  <2>1. Moved(d, c, h + n, -1)
    BY <1>3, <1>6, <2>0 DEF Takes
  <2>2. d.buf \in Seq(Bytes) /\ Left(d.buf, x, n)
    BY <1>6, <2>0 DEF Takes, Moved
  <2>3. Left(d.buf, b, h + n)
    BY <2>2, LeftTwice
  <2>4. n <= Len(x)
    BY <2>2 DEF Left
  <2>5. d.pkt \in 1 .. Len(from) /\ BodyIs(b, h, n, c, d.pkt, from) /\ d.out = "frame"
    BY <1>4, <1>6, <2>4 DEF Takes
  <2> QED
    BY <2>1, <2>3, <2>5 DEF Takes
<1>7. ASSUME Refuses(d, p, x, 0, n, from)
      PROVE  Refuses(d, c, b, h, n, from)
  <2>0. 0 + n = n
    OBVIOUS
  <2>1. Moved(d, c, h + n, -1)
    BY <1>3, <1>7, <2>0 DEF Refuses
  <2>2. d.out = "IntegrityError" /\ Len(b) - h >= n /\ n <= Len(x)
    BY <1>1, <1>7 DEF Refuses
  <2>3. \A q \in 1 .. Len(from) : ~BodyIs(b, h, n, c, q, from)
    BY <1>4, <1>7, <2>2 DEF Refuses
  <2>4. Toggled(d.buf, b, h, n, c)
    <3>1. Len(d.buf) = Len(b) - h /\ Len(d.buf) = Len(x)
      BY <1>1, <1>7 DEF Refuses, Toggled
    <3>2. ASSUME NEW i \in 1 .. Len(d.buf)
          PROVE  /\ d.buf[i].pkt = b[h + i].pkt /\ d.buf[i].off = b[h + i].off
                 /\ d.buf[i].bad = b[h + i].bad
                 /\ i > n => d.buf[i].mask = b[h + i].mask
                 /\ i <= n => d.buf[i].mask = SymDiff(b[h + i].mask, {<<c.rx, c.rxpos + h + i>>})
      <4>1. i \in 1 .. Len(x)
        BY <3>1
      <4>2. x[0 + i] = b[h + i] /\ p.rxpos + 0 + i = c.rxpos + h + i
        BY <1>2, <4>1
      <4>3. /\ d.buf[i].pkt = x[0 + i].pkt /\ d.buf[i].off = x[0 + i].off
            /\ d.buf[i].bad = x[0 + i].bad
            /\ i > n => d.buf[i].mask = x[0 + i].mask
            /\ i <= n => d.buf[i].mask = SymDiff(x[0 + i].mask, {<<p.rx, p.rxpos + 0 + i>>})
        BY <1>7, Zenon DEF Refuses, Toggled
      <4> QED
        BY <1>1, <4>2, <4>3, Zenon
    <3> QED
      BY <1>1, <3>1, <3>2 DEF Toggled
  <2> QED
    BY <2>1, <2>2, <2>3, <2>4 DEF Refuses
<1>8. QED
  BY <1>5, <1>6, <1>7

\* The values that decode may read from the header of b.
Header(c, b, from) == Lengths(apply_keystream(b, HEADER, c.rx, c.rxpos), from)

\* The length n of the next body is known: it was kept, or it is read from a header.
Known(c, b, from, k, n) ==
  \/ k = 0 /\ c.last_readed_length = n
  \/ /\ k = HEADER /\ c.last_readed_length = -1 /\ HEADER <= Len(b)
     /\ n \in Header(c, b, from)

NoHeader(d, c, b) ==
  /\ d.out = "none" /\ d.buf = b /\ d.codec = c
  /\ c.last_readed_length = -1 /\ Len(b) < HEADER
BadHeader(d, c, b, from) ==
  /\ d.out \in {"TooShortPacket", "TooLongPacket"} /\ Moved(d, c, HEADER, -1)
  /\ Toggled(d.buf, b, 0, HEADER, c) /\ HEADER <= Len(b) /\ c.last_readed_length = -1
  /\ \E n \in Header(c, b, from) : n \notin OVERHEAD .. MAXLEN
BodyOutcome(d, c, b, from, k, n) ==
  /\ Known(c, b, from, k, n)
  /\ Waits(d, c, b, k, n) \/ Takes(d, c, b, k, n, from) \/ Refuses(d, c, b, k, n, from)

\* Every value of a header is a number.
LEMMA HeaderNat ==
  ASSUME NEW c, NEW b, NEW from \in Seq(Packets), NEW n \in Header(c, b, from)
  PROVE  n \in Nat
<1> DEFINE plain == apply_keystream(b, HEADER, c.rx, c.rxpos)
           h == [i \in 1 .. HEADER |-> plain[i]]
           all == 0 .. MAXLEN + 1
           of == {p \in 1 .. Len(from) :
                    \A i \in 1 .. HEADER : h[i].pkt = p /\ h[i].off = i /\ h[i].mask = {}}
<1>1. n \in CASE of = {} -> all
             [] of # {} /\ (\E i \in 1 .. HEADER : h[i].bad) ->
                  all \ {Size(from[p]) : p \in of}
             [] OTHER -> {Size(from[p]) : p \in of}
  BY Zenon DEF Header, Lengths
<1>2. of \subseteq 1 .. Len(from)
  OBVIOUS
<1> HIDE DEF of, h
<1>3. n \in all \/ n \in {Size(from[p]) : p \in of}
  BY <1>1
<1>4. ASSUME NEW p \in of
      PROVE  Size(from[p]) \in Nat
  <2>1. from[p] \in Packets
    BY <1>2
  <2> QED
    BY <2>1, Sizes
<1>5. QED
  BY <1>3, <1>4, Sizes

\* The header of packet p reads as it was written.
HeaderReads(c, b, p) ==
  /\ HEADER <= Len(b)
  /\ \A i \in 1 .. HEADER :
       /\ b[i].pkt = p /\ b[i].off = i /\ ~b[i].bad
       /\ SymDiff(b[i].mask, {<<c.rx, c.rxpos + i>>}) = {}

\* A header that reads as it was written has one value.
LEMMA HeaderRight ==
  ASSUME NEW c \in Codecs, NEW b \in Seq(Bytes), NEW from \in Seq(Packets),
         NEW p \in 1 .. Len(from), HeaderReads(c, b, p)
  PROVE  Header(c, b, from) = {Size(from[p])}
<1> DEFINE plain == apply_keystream(b, HEADER, c.rx, c.rxpos)
           h == [i \in 1 .. HEADER |-> plain[i]]
           all == 0 .. MAXLEN + 1
           of == {q \in 1 .. Len(from) :
                    \A i \in 1 .. HEADER : h[i].pkt = q /\ h[i].off = i /\ h[i].mask = {}}
<1>1. HEADER \in Nat /\ HEADER >= 1 /\ c.rx \in KeyNames /\ c.rxpos \in Nat /\ Len(b) \in Nat
  BY Sizes DEF Codecs, CodecKeys, KeyNames
<1>2. \A i \in 1 .. Len(b) :
           /\ plain[i].pkt = b[i].pkt /\ plain[i].off = b[i].off /\ plain[i].bad = b[i].bad
           /\ i <= HEADER => plain[i].mask = SymDiff(b[i].mask, {<<c.rx, c.rxpos + i>>})
  <2>1. Applied(plain, b, HEADER, c.rx, c.rxpos)
    BY <1>1, KeystreamApplied
  <2> HIDE DEF plain
  <2> QED
    BY <2>1 DEF Applied
<1>3. Header(c, b, from) =
        CASE of = {} -> all
          [] of # {} /\ (\E i \in 1 .. HEADER : h[i].bad) -> all \ {Size(from[q]) : q \in of}
          [] OTHER -> {Size(from[q]) : q \in of}
  BY Zenon DEF Header, Lengths
<1> HIDE DEF plain
<1>4. ASSUME NEW i \in 1 .. HEADER
      PROVE  h[i].pkt = p /\ h[i].off = i /\ h[i].mask = {} /\ ~h[i].bad
  <2>1. i \in 1 .. Len(b) /\ i <= HEADER
    BY <1>1 DEF HeaderReads
  <2> QED
    BY <1>2, <2>1 DEF HeaderReads
<1> HIDE DEF h
<1>5. of = {p}
  <2>1. p \in of
    BY <1>4
  <2>2. ASSUME NEW q \in of
        PROVE  q = p
    <3>1. 1 \in 1 .. HEADER
      BY <1>1
    <3> QED
      BY <1>4, <3>1
  <2> QED
    BY <2>1, <2>2
<1> HIDE DEF of
<1>6. ~(\E i \in 1 .. HEADER : h[i].bad)
  BY <1>4
<1>7. Header(c, b, from) = {Size(from[q]) : q \in of}
  BY <1>3, <1>5, <1>6
<1>8. QED
  BY <1>5, <1>7

\* Everything that decode may do.
LEMMA Decoded ==
  ASSUME NEW c \in Codecs, NEW b \in Seq(Bytes), NEW from \in Seq(Packets),
         NEW d \in decode(c, b, from)
  PROVE  \/ NoHeader(d, c, b)
         \/ BadHeader(d, c, b, from)
         \/ \E k \in {0, HEADER}, n \in OVERHEAD .. MAXLEN : BodyOutcome(d, c, b, from, k, n)
<1> DEFINE plain == apply_keystream(b, HEADER, c.rx, c.rxpos)
           passed == [c EXCEPT !.rxpos = @ + HEADER]
           rest == SubSeq(plain, HEADER + 1, Len(b))
<1>1. /\ HEADER \in Nat /\ HEADER >= 1 /\ c.rx \in KeyNames /\ c.rxpos \in Nat
      /\ Len(b) \in Nat /\ OVERHEAD \in Nat /\ OVERHEAD >= 2 /\ MAXLEN \in Nat
      /\ c.last_readed_length \in KeptLengths
  BY Sizes DEF Codecs, CodecKeys, KeyNames
<1>2. c.last_readed_length = -1 \/ c.last_readed_length \in OVERHEAD .. MAXLEN
  BY <1>1 DEF KeptLengths
<1>3. CASE c.last_readed_length \in OVERHEAD .. MAXLEN
  <2>1. c.last_readed_length >= 0
    BY <1>1, <1>3
  <2>2. PICK n \in OVERHEAD .. MAXLEN : n = c.last_readed_length
    BY <1>3
  <2>3. d \in decode_body(c, b, n, from)
    BY <2>1, <2>2 DEF decode
  <2>4. BodyOutcome(d, c, b, from, 0, n)
    BY <2>2, <2>3, BodyDecoded DEF BodyOutcome, Known
  <2> QED
    BY <2>4
<1>4. CASE c.last_readed_length = -1 /\ Len(b) < HEADER
  <2>1. d = Result("none", 0, b, c)
    BY <1>1, <1>4 DEF decode
  <2> QED
    BY <1>4, <2>1 DEF Result, NoHeader
<1>5. CASE c.last_readed_length = -1 /\ Len(b) >= HEADER
  <2>1. d \in decode_header(c, b, from)
    BY <1>1, <1>5 DEF decode
  <2>2. /\ plain \in Seq(Bytes) /\ Len(plain) = Len(b)
        /\ \A i \in 1 .. Len(b) :
             /\ plain[i].pkt = b[i].pkt /\ plain[i].off = b[i].off /\ plain[i].bad = b[i].bad
             /\ i > HEADER => plain[i] = b[i]
             /\ i <= HEADER => plain[i].mask = SymDiff(b[i].mask, {<<c.rx, c.rxpos + i>>})
    <3>1. Applied(plain, b, HEADER, c.rx, c.rxpos)
      BY <1>1, KeystreamApplied
    <3> HIDE DEF plain
    <3> QED
      BY <3>1 DEF Applied
  <2>3. IsCodecAt(passed, c, HEADER, -1)
    <3>1. passed = CodecAt(c, HEADER, c.last_readed_length)
      BY CodecFields
    <3>2. IsCodecAt(CodecAt(c, HEADER, c.last_readed_length), c, HEADER, c.last_readed_length)
      BY <1>1, CodecMoved
    <3> QED
      BY <1>5, <3>1, <3>2, Zenon
  <2>4. PICK n \in Header(c, b, from) :
          d \in CASE n < OVERHEAD -> {Result("TooShortPacket", 0, plain, passed)}
                  [] n > MAXLEN -> {Result("TooLongPacket", 0, plain, passed)}
                  [] OTHER -> decode_body(passed, rest, n, from)
    BY <2>1, Zenon DEF decode_header, Header
  <2>5. n \in Nat
    BY HeaderNat
  <2> HIDE DEF plain, passed, rest
  <2>6. CASE n < OVERHEAD \/ n > MAXLEN
    <3>1. /\ d.out \in {"TooShortPacket", "TooLongPacket"}
          /\ d.buf = plain /\ d.codec = passed
      <4>1. CASE n < OVERHEAD
        <5>1. d = Result("TooShortPacket", 0, plain, passed)
          BY <1>1, <2>4, <2>5, <4>1, Sizes
        <5> QED
          BY <5>1 DEF Result
      <4>2. CASE n > MAXLEN
        <5>1. ~(n < OVERHEAD)
          BY <1>1, <2>5, <4>2, Sizes
        <5>2. d = Result("TooLongPacket", 0, plain, passed)
          BY <2>4, <4>2, <5>1
        <5> QED
          BY <5>2 DEF Result
      <4> QED
        BY <2>6, <4>1, <4>2
    <3>2. Moved(d, c, HEADER, -1)
      BY <2>2, <2>3, <3>1 DEF Moved
    <3>3. Toggled(d.buf, b, 0, HEADER, c)
      <4>1. 0 <= Len(b) /\ Len(d.buf) = Len(b) - 0
        BY <1>1, <2>2, <3>1
      <4>2. ASSUME NEW i \in 1 .. Len(d.buf)
            PROVE  /\ d.buf[i].pkt = b[0 + i].pkt /\ d.buf[i].off = b[0 + i].off
                   /\ d.buf[i].bad = b[0 + i].bad
                   /\ i > HEADER => d.buf[i].mask = b[0 + i].mask
                   /\ i <= HEADER =>
                        d.buf[i].mask = SymDiff(b[0 + i].mask, {<<c.rx, c.rxpos + 0 + i>>})
        <5>1. i \in 1 .. Len(b) /\ 0 + i = i /\ c.rxpos + 0 + i = c.rxpos + i
          BY <1>1, <4>1
        <5> QED
          BY <2>2, <3>1, <5>1, Zenon
      <4> QED
        BY <4>1, <4>2 DEF Toggled
    <3>4. n \notin OVERHEAD .. MAXLEN
      BY <1>1, <2>5, <2>6
    <3> QED
      BY <1>1, <1>5, <3>1, <3>2, <3>3, <3>4 DEF BadHeader
  <2>7. CASE ~(n < OVERHEAD \/ n > MAXLEN)
    <3>1. d \in decode_body(passed, rest, n, from) /\ n \in OVERHEAD .. MAXLEN
      BY <1>1, <2>4, <2>5, <2>7
    <3>2. rest = SubSeq(plain, HEADER + 1, Len(plain)) /\ HEADER <= Len(plain)
      BY <1>1, <1>5, <2>2 DEF rest
    <3>3. rest \in Seq(Bytes) /\ Left(rest, plain, HEADER)
      BY <1>1, <2>2, <3>2, BufferLeft
    <3>4. Left(rest, b, HEADER)
      <4>1. HEADER <= Len(b) /\ Len(rest) = Len(b) - HEADER
        BY <1>1, <2>2, <3>3 DEF Left
      <4>2. ASSUME NEW i \in 1 .. Len(rest)
            PROVE  rest[i] = b[HEADER + i]
        <5>1. rest[i] = plain[HEADER + i]
          BY <3>3 DEF Left
        <5>2. HEADER + i \in 1 .. Len(b) /\ HEADER + i > HEADER
          BY <1>1, <4>1
        <5> QED
          BY <2>2, <5>1, <5>2
      <4> QED
        BY <4>1, <4>2 DEF Left
    <3>5. passed \in Codecs
      BY <2>3 DEF IsCodecAt
    <3>6. \/ Waits(d, passed, rest, 0, n) \/ Takes(d, passed, rest, 0, n, from)
          \/ Refuses(d, passed, rest, 0, n, from)
      BY <3>1, <3>3, <3>5, BodyDecoded
    <3>7. \/ Waits(d, c, b, HEADER, n) \/ Takes(d, c, b, HEADER, n, from)
          \/ Refuses(d, c, b, HEADER, n, from)
      BY <1>1, <2>3, <2>5, <3>3, <3>4, <3>5, <3>6, BodyAfterHeader
    <3>8. BodyOutcome(d, c, b, from, HEADER, n)
      BY <1>1, <1>5, <2>4, <3>7 DEF BodyOutcome, Known
    <3> QED
      BY <3>1, <3>8
  <2> QED
    BY <2>6, <2>7
<1>6. QED
  BY <1>1, <1>2, <1>3, <1>4, <1>5

-----------------------------------------------------------------------------
\* The stream before a receiver: its buffer b and the bytes w under way.

\* Two parts of a stream.
LEMMA Joined ==
  ASSUME NEW b \in Seq(Bytes), NEW w \in Seq(Bytes)
  PROVE  /\ b \o w \in Seq(Bytes) /\ Len(b) \in Nat /\ Len(w) \in Nat
         /\ Len(b \o w) = Len(b) + Len(w)
         /\ \A i \in 1 .. Len(b) : (b \o w)[i] = b[i]
         /\ \A i \in 1 .. Len(w) : (b \o w)[Len(b) + i] = w[i]
         /\ \A i \in 1 .. Len(b \o w) : (b \o w)[i] \in Bytes
<1>1. /\ b \o w \in Seq(Bytes) /\ Len(b) \in Nat /\ Len(w) \in Nat
      /\ Len(b \o w) = Len(b) + Len(w)
      /\ \A i \in 1 .. Len(b) + Len(w) : (b \o w)[i] = IF i <= Len(b) THEN b[i] ELSE w[i - Len(b)]
  BY ConcatProperties
<1>2. \A i \in 1 .. Len(b) : (b \o w)[i] = b[i]
  BY <1>1
<1>3. ASSUME NEW i \in 1 .. Len(w)
      PROVE  (b \o w)[Len(b) + i] = w[i]
  <2>1. Len(b) + i \in 1 .. Len(b) + Len(w) /\ ~(Len(b) + i <= Len(b)) /\ (Len(b) + i) - Len(b) = i
    BY <1>1
  <2> QED
    BY <1>1, <2>1
<1>4. QED
  BY <1>1, <1>2, <1>3

\* What decode takes from its buffer, it takes from the stream.
LEMMA LeftAhead ==
  ASSUME NEW b \in Seq(Bytes), NEW w \in Seq(Bytes), NEW x \in Seq(Bytes), NEW k \in Nat,
         Left(x, b, k)
  PROVE  Left(x \o w, b \o w, k)
<1>1. Len(b) \in Nat /\ Len(w) \in Nat /\ Len(x) \in Nat /\ k <= Len(b) /\ Len(x) = Len(b) - k
  BY DEF Left
<1>2. Len(b \o w) = Len(b) + Len(w) /\ Len(x \o w) = Len(x) + Len(w)
  BY Joined
<1>3. ASSUME NEW i \in 1 .. Len(x \o w)
      PROVE  (x \o w)[i] = (b \o w)[k + i]
  <2>1. CASE i <= Len(x)
    <3>1. i \in 1 .. Len(x) /\ k + i \in 1 .. Len(b)
      BY <1>1, <1>2, <2>1
    <3>2. (x \o w)[i] = x[i] /\ (b \o w)[k + i] = b[k + i]
      BY <3>1, Joined
    <3> QED
      BY <3>1, <3>2 DEF Left
  <2>2. CASE i > Len(x)
    <3>0. /\ i - Len(x) \in 1 .. Len(w) /\ i = Len(x) + (i - Len(x))
          /\ k + i = Len(b) + (i - Len(x))
      BY <1>1, <1>2, <2>2
    <3>1. PICK j \in 1 .. Len(w) : i = Len(x) + j /\ k + i = Len(b) + j
      BY <3>0
    <3> QED
      BY <3>1, Joined
  <2> QED
    BY <1>1, <2>1, <2>2
<1>4. QED
  BY <1>1, <1>2, <1>3 DEF Left

\* And so for what it decrypts in place.
LEMMA ToggledAhead ==
  ASSUME NEW b \in Seq(Bytes), NEW w \in Seq(Bytes), NEW x \in Seq(Bytes), NEW k \in Nat,
         NEW m \in Nat, NEW c, m <= Len(x), Toggled(x, b, k, m, c)
  PROVE  Toggled(x \o w, b \o w, k, m, c)
<1>1. Len(b) \in Nat /\ Len(w) \in Nat /\ Len(x) \in Nat /\ k <= Len(b) /\ Len(x) = Len(b) - k
  BY DEF Toggled
<1>2. Len(b \o w) = Len(b) + Len(w) /\ Len(x \o w) = Len(x) + Len(w)
  BY Joined
<1> DEFINE A == b \o w
           X == x \o w
<1>3. ASSUME NEW i \in 1 .. Len(X)
      PROVE  /\ X[i].pkt = A[k + i].pkt /\ X[i].off = A[k + i].off /\ X[i].bad = A[k + i].bad
             /\ i > m => X[i].mask = A[k + i].mask
             /\ i <= m => X[i].mask = SymDiff(A[k + i].mask, {<<c.rx, c.rxpos + k + i>>})
  <2>1. CASE i <= Len(x)
    <3>1. i \in 1 .. Len(x) /\ k + i \in 1 .. Len(b)
      BY <1>1, <1>2, <2>1
    <3>2. X[i] = x[i] /\ A[k + i] = b[k + i]
      BY <3>1, Joined
    <3> QED
      BY <3>1, <3>2, Zenon DEF Toggled
  <2>2. CASE i > Len(x)
    <3>0. /\ i - Len(x) \in 1 .. Len(w) /\ i = Len(x) + (i - Len(x))
          /\ k + i = Len(b) + (i - Len(x))
      BY <1>1, <1>2, <2>2
    <3>1. PICK j \in 1 .. Len(w) : i = Len(x) + j /\ k + i = Len(b) + j
      BY <3>0
    <3>2. X[i] = w[j] /\ A[k + i] = w[j]
      BY <3>1, Joined
    <3>3. ~(i <= m)
      BY <1>1, <1>2, <2>2
    <3> QED
      BY <3>2, <3>3, Zenon
  <2> QED
    BY <1>1, <2>1, <2>2
<1>4. k <= Len(A) /\ Len(X) = Len(A) - k
  BY <1>1, <1>2
<1>5. QED
  BY <1>3, <1>4, Zenon DEF Toggled

\* And so for the packet that it recognises.
LEMMA BodyAhead ==
  ASSUME NEW b \in Seq(Bytes), NEW w \in Seq(Bytes), NEW k \in Nat, NEW n \in Nat, NEW c,
         NEW p, NEW from, k + n <= Len(b)
  PROVE  BodyIs(b, k, n, c, p, from) <=> BodyIs(b \o w, k, n, c, p, from)
<1>1. ASSUME NEW i \in 1 .. n
      PROVE  (b \o w)[k + i] = b[k + i]
  <2>1. k + i \in 1 .. Len(b)
    OBVIOUS
  <2> QED
    BY <2>1, Joined
<1>2. QED
  BY <1>1, Zenon DEF BodyIs

-----------------------------------------------------------------------------
\* A stream that flows.

\* Where a byte of a stream is in its packet.
LEMMA Placed ==
  ASSUME NEW A \in Seq(Bytes), NEW from \in Seq(Packets), OfPackets(A, from),
         NEW i \in 1 .. Len(A)
  PROVE  /\ A[i].pkt \in 1 .. Len(from) /\ A[i].pkt \in Nat /\ from[A[i].pkt] \in Packets
         /\ A[i].off \in Nat /\ A[i].off >= 1
         /\ Total(from[A[i].pkt]) \in Nat /\ A[i].off <= Total(from[A[i].pkt])
         /\ Size(from[A[i].pkt]) \in Nat /\ Size(from[A[i].pkt]) >= 2
         /\ Total(from[A[i].pkt]) = HEADER + Size(from[A[i].pkt])
         /\ fits(from[A[i].pkt]) => Size(from[A[i].pkt]) \in OVERHEAD .. MAXLEN
<1>1. A[i].pkt \in 1 .. Len(from) /\ A[i].off \in 1 .. Total(from[A[i].pkt])
  BY DEF OfPackets
<1>2. PICK q \in Packets : q = from[A[i].pkt]
  BY <1>1
<1>3. /\ Size(q) \in Nat /\ Size(q) >= OVERHEAD /\ Total(q) \in Nat
      /\ Total(q) = HEADER + Size(q)
      /\ fits(q) => Size(q) <= MAXLEN
  BY Sizes
<1>4. fits(q) => Size(q) \in OVERHEAD .. MAXLEN
  BY <1>3, Sizes
<1>5. A[i].off \in Nat /\ A[i].off >= 1 /\ A[i].off <= Total(q) /\ A[i].pkt \in Nat
  BY <1>1, <1>2, <1>3
<1>6. Size(q) >= 2
  BY <1>3, Sizes
<1>7. QED
  BY <1>1, <1>2, <1>3, <1>4, <1>5, <1>6

\* A stream that flows still does when its end is cut off, when bytes are damaged and
\* when more is sent that is lost.
LEMMA FlowsKept ==
  ASSUME NEW A \in Seq(Bytes), NEW B \in Seq(Bytes), NEW c, NEW n,
         NEW from \in Seq(Packets), NEW more \in Seq(Packets), Flows(A, c, n, from),
         Len(B) <= Len(A),
         \A i \in 1 .. Len(B) : /\ B[i].pkt = A[i].pkt /\ B[i].off = A[i].off
                                /\ B[i].mask = A[i].mask,
         Len(from) <= Len(more), \A p \in 1 .. Len(from) : more[p] = from[p]
  PROVE  Flows(B, c, n, more)
<1>1. Len(A) \in Nat /\ Len(B) \in Nat /\ OfPackets(A, from)
  BY DEF Flows
<1>2. ASSUME NEW i \in 1 .. Len(B)
      PROVE  /\ i \in 1 .. Len(A) /\ B[i].pkt = A[i].pkt /\ B[i].off = A[i].off
             /\ B[i].pkt \in 1 .. Len(more)
             /\ more[B[i].pkt] = from[A[i].pkt] /\ B[i].mask = A[i].mask
  <2>1. i \in 1 .. Len(A)
    BY <1>1
  <2>2. A[i].pkt \in 1 .. Len(from)
    BY <1>1, <2>1, Placed
  <2> QED
    BY <2>1, <2>2
<1>3. InStep(B, c)
  BY <1>2 DEF Flows, InStep
<1>4. OfPackets(B, more)
  BY <1>2, Zenon DEF Flows, OfPackets
<1>5. OnePiece(B, more)
  <2>1. ASSUME NEW i \in 1 .. Len(B), NEW j \in 1 .. Len(B),
               B[i].off + (j - i) \in 1 .. Total(more[B[i].pkt])
        PROVE  B[j].pkt = B[i].pkt /\ B[j].off = B[i].off + (j - i)
    <3>1. A[i].off + (j - i) \in 1 .. Total(from[A[i].pkt])
      BY <1>2, <2>1
    <3>2. i \in 1 .. Len(A) /\ j \in 1 .. Len(A)
      BY <1>2
    <3>3. A[j].pkt = A[i].pkt /\ A[j].off = A[i].off + (j - i)
      BY <3>1, <3>2 DEF Flows, OnePiece
    <3> QED
      BY <1>2, <3>3
  <2> QED
    BY <2>1 DEF OnePiece
<1>6. InOrder(B, more)
  <2>1. ASSUME NEW i \in 1 .. Len(B) - 1
        PROVE  i \in 1 .. Len(B) /\ i + 1 \in 1 .. Len(B) /\ i \in 1 .. Len(A) - 1
    BY <1>1
  <2> QED
    BY <1>2, <2>1, Zenon DEF Flows, InOrder
<1>7. Begins(B, c, n)
  <2>1. Len(B) > 0 => 1 \in 1 .. Len(B) /\ Len(A) > 0
    BY <1>1
  <2> QED
    BY <1>2, <2>1 DEF Flows, Begins
<1>8. QED
  BY <1>3, <1>4, <1>5, <1>6, <1>7 DEF Flows

\* The bytes of a packet.
IsEncoded(E, p, key, pos) ==
  /\ E \in Seq(Bytes) /\ Len(E) = Total(p)
  /\ \A i \in 1 .. Len(E) : /\ E[i].pkt = p.id /\ E[i].off = i /\ ~E[i].bad
                            /\ E[i].mask = {<<key, pos + i>>}

\* A packet that is sent goes to the end of the stream.
LEMMA FlowsOn ==
  ASSUME NEW A \in Seq(Bytes), NEW E \in Seq(Bytes), NEW c \in Codecs, NEW n,
         NEW from \in Seq(Packets), NEW p \in Packets, NEW tx \in Nat,
         Flows(A, c, n, from), UpToDate(A, c, n, from, tx),
         p.id = Len(from) + 1, IsEncoded(E, p, c.rx, tx)
  PROVE  /\ Flows(A \o E, c, n, Append(from, p))
         /\ UpToDate(A \o E, c, n, Append(from, p), tx + Total(p))
         /\ Intact(A, c, from) => Intact(A \o E, c, Append(from, p))
<1> DEFINE B == A \o E
           more == Append(from, p)
           L == Len(A)
           T == Total(p)
<1>1. /\ L \in Nat /\ T \in Nat /\ T >= 3 /\ T >= HEADER + 2 /\ HEADER \in Nat /\ HEADER >= 1
      /\ c.rxpos \in Nat /\ c.rxpos + L = tx /\ Len(from) \in Nat
  <2>1. HEADER \in Nat /\ HEADER >= 1 /\ Size(p) \in Nat /\ Size(p) >= 2 /\ T = HEADER + Size(p)
    BY Sizes
  <2>2. T \in Nat /\ T >= 3 /\ T >= HEADER + 2
    BY <2>1
  <2> HIDE DEF T
  <2>3. c.rxpos \in Nat /\ c.rxpos + L = tx
    BY DEF UpToDate, Codecs
  <2> QED
    BY <2>1, <2>2, <2>3
<1>2. /\ more \in Seq(Packets) /\ Len(more) = Len(from) + 1 /\ more[Len(from) + 1] = p
      /\ \A q \in 1 .. Len(from) : more[q] = from[q]
  OBVIOUS
<1>3. /\ B \in Seq(Bytes) /\ Len(B) = L + T /\ Len(E) = T
      /\ \A i \in 1 .. L : B[i] = A[i]
      /\ \A j \in 1 .. T : B[L + j] = E[j]
  <2>1. Len(E) = T
    BY DEF IsEncoded
  <2>2. /\ B \in Seq(Bytes) /\ Len(B) = Len(A) + Len(E)
        /\ \A i \in 1 .. Len(A) : B[i] = A[i]
        /\ \A j \in 1 .. Len(E) : B[Len(A) + j] = E[j]
    BY Joined
  <2> HIDE DEF B, T
  <2> QED
    BY <2>1, <2>2
<1>4. OfPackets(A, from) /\ OnePiece(A, from) /\ InOrder(A, from) /\ InStep(A, c) /\ Begins(A, c, n)
  BY DEF Flows
<1>5. L > 0 => A[L].pkt = Len(from) /\ A[L].off = Total(from[Len(from)])
  BY <1>1 DEF UpToDate
<1> HIDE DEF B, more, L, T
<1>6. ASSUME NEW i \in 1 .. L
      PROVE  /\ B[i] = A[i] /\ more[B[i].pkt] = from[A[i].pkt] /\ i \in 1 .. L + T
             /\ A[i].pkt \in 1 .. Len(from) /\ A[i].off \in Nat /\ A[i].off >= 1
             /\ Total(from[A[i].pkt]) \in Nat /\ A[i].off <= Total(from[A[i].pkt])
  <2>1. /\ A[i].pkt \in 1 .. Len(from) /\ A[i].off \in Nat /\ A[i].off >= 1
        /\ Total(from[A[i].pkt]) \in Nat /\ A[i].off <= Total(from[A[i].pkt])
    BY <1>4, Placed DEF L
  <2>2. B[i] = A[i] /\ i \in 1 .. L + T
    BY <1>1, <1>3
  <2> QED
    BY <1>2, <2>1, <2>2
<1>7. ASSUME NEW i \in 1 .. L + T, i > L
      PROVE  /\ i - L \in 1 .. T
             /\ B[i].pkt = Len(from) + 1 /\ B[i].off = i - L /\ ~B[i].bad
             /\ more[B[i].pkt] = p /\ Total(more[B[i].pkt]) = T
             /\ B[i].mask = {<<c.rx, c.rxpos + i>>}
  <2>1. PICK j \in 1 .. T : j = i - L
    BY <1>1, <1>7
  <2>2. i = L + j /\ tx + j = c.rxpos + i
    <3>1. PICK x \in Nat : x = c.rxpos
      BY <1>1
    <3>2. x + L = tx
      BY <1>1, <3>1
    <3>3. i = L + j /\ tx + j = x + i
      BY <1>1, <2>1, <3>2
    <3> QED
      BY <3>1, <3>3
  <2>3. B[i] = E[j]
    BY <1>3, <2>2
  <2>4. /\ E[j].pkt = p.id /\ E[j].off = j /\ ~E[j].bad /\ E[j].mask = {<<c.rx, tx + j>>}
    BY <1>3 DEF IsEncoded
  <2>5. more[B[i].pkt] = p /\ Total(more[B[i].pkt]) = T
    BY <1>2, <2>3, <2>4 DEF T
  <2> QED
    BY <2>1, <2>2, <2>3, <2>4, <2>5
<1>8. InStep(B, c)
  <2>1. ASSUME NEW i \in 1 .. L + T
        PROVE  B[i].mask = {<<c.rx, c.rxpos + i>>}
    <3>1. CASE i > L
      BY <1>7, <3>1
    <3>2. CASE i \in 1 .. L
      BY <1>4, <1>6, <3>2 DEF InStep, L
    <3> QED
      BY <1>1, <3>1, <3>2
  <2> QED
    BY <1>3, <2>1 DEF InStep
<1>9. OfPackets(B, more)
  <2>1. ASSUME NEW i \in 1 .. L + T
        PROVE  B[i].pkt \in 1 .. Len(more) /\ B[i].off \in 1 .. Total(more[B[i].pkt])
    <3>1. CASE i > L
      <4>1. B[i].pkt = Len(from) + 1 /\ B[i].off \in 1 .. T /\ Total(more[B[i].pkt]) = T
        BY <1>7, <3>1
      <4> QED
        BY <1>1, <1>2, <4>1
    <3>2. CASE i \in 1 .. L
      <4>1. /\ A[i].pkt \in 1 .. Len(from) /\ A[i].off \in 1 .. Total(from[A[i].pkt])
            /\ B[i] = A[i] /\ more[B[i].pkt] = from[A[i].pkt]
        BY <1>4, <1>6, <3>2 DEF OfPackets, L
      <4>2. A[i].pkt \in 1 .. Len(more)
        BY <1>1, <1>2, <4>1
      <4> QED
        BY <4>1, <4>2
    <3> QED
      BY <1>1, <3>1, <3>2
  <2> QED
    BY <1>3, <2>1 DEF OfPackets
<1>10. OnePiece(B, more)
  <2>1. ASSUME NEW i \in 1 .. L + T, NEW j \in 1 .. L + T,
               B[i].off + (j - i) \in 1 .. Total(more[B[i].pkt])
        PROVE  B[j].pkt = B[i].pkt /\ B[j].off = B[i].off + (j - i)
    <3>1. CASE i > L /\ j > L
      <4>1. B[i].off = i - L /\ B[j].off = j - L /\ B[i].pkt = B[j].pkt
        BY <1>7, <3>1
      <4> QED
        BY <1>1, <4>1
    <3>2. CASE i > L /\ j <= L
      <4>1. B[i].off = i - L /\ i - L \in 1 .. T /\ Total(more[B[i].pkt]) = T
        BY <1>7, <3>2
      <4>2. (i - L) + (j - i) <= 0
        BY <1>1, <3>2
      <4> QED
        BY <1>1, <2>1, <4>1, <4>2
    <3>3. CASE i \in 1 .. L /\ j \in 1 .. L
      <4>1. A[i].off + (j - i) \in 1 .. Total(from[A[i].pkt])
        BY <1>6, <2>1, <3>3
      <4>2. A[j].pkt = A[i].pkt /\ A[j].off = A[i].off + (j - i)
        BY <1>4, <3>3, <4>1 DEF OnePiece, L
      <4> QED
        BY <1>6, <3>3, <4>2
    <3>4. CASE i \in 1 .. L /\ j > L
      <4>1. A[i].off + (j - i) \in 1 .. Total(from[A[i].pkt])
        BY <1>6, <2>1, <3>4
      <4>2. /\ A[i].off \in Nat /\ A[i].off >= 1 /\ Total(from[A[i].pkt]) \in Nat
            /\ L \in 1 .. L /\ L > 0
        BY <1>1, <1>6, <3>4
      <4>3. A[i].off + (L - i) \in 1 .. Total(from[A[i].pkt])
        <5>1. PICK o \in Nat, t \in Nat : o = A[i].off /\ t = Total(from[A[i].pkt])
          BY <4>2
        <5>2. o + (j - i) \in 1 .. t /\ o >= 1
          BY <4>1, <4>2, <5>1
        <5>3. o + (L - i) \in 1 .. t
          BY <1>1, <3>4, <5>2
        <5> QED
          BY <5>1, <5>3
      <4>4. A[L].pkt = A[i].pkt /\ A[L].off = A[i].off + (L - i)
        BY <1>4, <3>4, <4>2, <4>3 DEF OnePiece, L
      <4>5. A[L].off = Total(from[A[i].pkt])
        BY <1>5, <4>2, <4>4
      <4>6. PICK o \in Nat, t \in Nat : o = A[i].off /\ t = Total(from[A[i].pkt])
        BY <4>2
      <4>7. o + (j - i) <= t /\ o + (L - i) = t
        BY <4>1, <4>4, <4>5, <4>6
      <4>8. L \in Nat /\ i \in Nat /\ j \in Nat /\ j > L
        BY <1>1, <3>4
      <4>9. FALSE
        BY <4>7, <4>8
      <4> QED
        BY <4>9
    <3> QED
      BY <1>1, <3>1, <3>2, <3>3, <3>4
  <2> QED
    BY <1>3, <2>1 DEF OnePiece
<1>11. InOrder(B, more)
  <2>1. ASSUME NEW i \in 1 .. (L + T) - 1, B[i].off = Total(more[B[i].pkt])
        PROVE  B[i + 1].pkt = B[i].pkt + 1 /\ B[i + 1].off = 1
    <3>0. i \in 1 .. L + T /\ i + 1 \in 1 .. L + T
      BY <1>1
    <3>1. CASE i > L
      BY <1>1, <1>7, <2>1, <3>0, <3>1
    <3>2. CASE i \in 1 .. L - 1
      <4>1. i \in 1 .. L /\ i + 1 \in 1 .. L
        BY <1>1, <3>2
      <4>2. A[i].off = Total(from[A[i].pkt])
        BY <1>6, <2>1, <4>1
      <4>3. A[i + 1].pkt = A[i].pkt + 1 /\ A[i + 1].off = 1
        BY <1>4, <3>2, <4>2 DEF InOrder, L
      <4> QED
        BY <1>6, <4>1, <4>3
    <3>3. CASE i = L
      <4>1. L > 0 /\ L \in 1 .. L /\ L + 1 \in 1 .. L + T /\ L + 1 > L /\ (L + 1) - L = 1
        BY <1>1, <3>3
      <4>2. B[L].pkt = Len(from)
        BY <1>5, <1>6, <4>1
      <4>3. B[L + 1].pkt = Len(from) + 1 /\ B[L + 1].off = 1
        BY <1>7, <4>1
      <4> QED
        BY <3>3, <4>2, <4>3
    <3> QED
      BY <1>1, <3>1, <3>2, <3>3
  <2> QED
    BY <1>3, <2>1 DEF InOrder
<1>12. Begins(B, c, n)
  <2>1. CASE L > 0
    <3>1. 1 \in 1 .. L
      BY <1>1, <2>1
    <3>2. B[1] = A[1]
      BY <1>6, <3>1
    <3> QED
      BY <1>4, <2>1, <3>2 DEF Begins, L
  <2>2. CASE L = 0
    <3>1. n = Len(from) /\ c.last_readed_length = -1
      BY <2>2 DEF UpToDate, L
    <3>2. 1 \in 1 .. L + T /\ 1 > L /\ 1 - L = 1
      BY <1>1, <2>2
    <3>3. B[1].pkt = Len(from) + 1 /\ B[1].off = 1
      BY <1>7, <3>2
    <3> QED
      BY <3>1, <3>3 DEF Begins
  <2> QED
    BY <1>1, <2>1, <2>2
<1>13. UpToDate(B, c, n, more, tx + T)
  <2>1. c.rxpos + Len(B) = tx + T /\ Len(B) # 0
    <3>1. PICK x \in Nat : x = c.rxpos
      BY <1>1
    <3>2. x + L = tx
      BY <1>1, <3>1
    <3>3. x + (L + T) = tx + T /\ L + T # 0
      BY <1>1, <3>2
    <3> QED
      BY <1>3, <3>1, <3>3
  <2>2. L + T \in 1 .. L + T /\ L + T > L /\ (L + T) - L = T
    BY <1>1
  <2>3. B[L + T].pkt = Len(from) + 1 /\ B[L + T].off = T
    BY <1>7, <2>2
  <2>4. Total(more[Len(more)]) = T
    BY <1>2 DEF T
  <2> QED
    BY <1>2, <1>3, <2>1, <2>3, <2>4 DEF UpToDate
<1>14. ASSUME Intact(A, c, from)
       PROVE  Intact(B, c, more)
  <2>1. ASSUME NEW i \in 1 .. L + T
        PROVE  ~B[i].bad /\ i + Total(more[B[i].pkt]) - B[i].off <= L + T
    <3>1. CASE i > L
      <4>1. B[i].off = i - L /\ ~B[i].bad /\ Total(more[B[i].pkt]) = T
        BY <1>7, <3>1
      <4> QED
        BY <1>1, <4>1
    <3>2. CASE i \in 1 .. L
      <4>1. ~A[i].bad /\ i + Total(from[A[i].pkt]) - A[i].off <= L
        BY <1>14, <3>2 DEF Intact, L
      <4>2. /\ B[i] = A[i] /\ more[B[i].pkt] = from[A[i].pkt]
            /\ A[i].off \in Nat /\ Total(from[A[i].pkt]) \in Nat
        BY <1>6, <3>2
      <4> QED
        BY <1>1, <4>1, <4>2
    <3> QED
      BY <1>1, <3>1, <3>2
  <2>2. ASSUME c.last_readed_length # -1
        PROVE  Len(B) > 0 /\ c.last_readed_length = Size(more[B[1].pkt])
    <3>1. L > 0 /\ c.last_readed_length = Size(from[A[1].pkt])
      BY <1>14, <2>2 DEF Intact, L
    <3>2. 1 \in 1 .. L
      BY <1>1, <3>1
    <3> QED
      BY <1>1, <1>3, <1>6, <3>1, <3>2
  <2> QED
    BY <1>3, <2>1, <2>2 DEF Intact
<1>15. QED
  BY <1>8, <1>9, <1>10, <1>11, <1>12, <1>13, <1>14 DEF Flows, B, more, T

\* How much of the first packet was passed.
Skipped(c) == IF c.last_readed_length = -1 THEN 0 ELSE HEADER

\* The stream begins with what is left of the next packet.
LEMMA Front ==
  ASSUME NEW A \in Seq(Bytes), NEW c \in Codecs, NEW n \in Nat, NEW from \in Seq(Packets),
         Flows(A, c, n, from), Len(A) > 0
  PROVE  /\ n + 1 \in 1 .. Len(from) /\ A[1].pkt = n + 1
         /\ A[1].off = Skipped(c) + 1
         /\ \A i \in 1 .. Len(A) : Skipped(c) + i <= Total(from[n + 1]) =>
              A[i].pkt = n + 1 /\ A[i].off = Skipped(c) + i
<1>1. Len(A) \in Nat /\ 1 \in 1 .. Len(A) /\ HEADER \in Nat /\ Skipped(c) \in Nat
  BY Sizes DEF Skipped
<1>2. OfPackets(A, from) /\ OnePiece(A, from) /\ Begins(A, c, n)
  BY DEF Flows
<1>3. A[1].pkt = n + 1 /\ A[1].off = Skipped(c) + 1
  BY <1>1, <1>2 DEF Begins, Skipped
<1>4. n + 1 \in 1 .. Len(from) /\ Total(from[n + 1]) \in Nat
  BY <1>1, <1>2, <1>3, Placed
<1>5. ASSUME NEW i \in 1 .. Len(A), Skipped(c) + i <= Total(from[n + 1])
      PROVE  A[i].pkt = n + 1 /\ A[i].off = Skipped(c) + i
  <2>1. (Skipped(c) + 1) + (i - 1) = Skipped(c) + i /\ Skipped(c) + i \in 1 .. Total(from[n + 1])
    BY <1>1, <1>4, <1>5
  <2>2. A[1].off + (i - 1) \in 1 .. Total(from[A[1].pkt])
    BY <1>3, <2>1
  <2>3. A[i].pkt = A[1].pkt /\ A[i].off = A[1].off + (i - 1)
    BY <1>1, <1>2, <2>2 DEF OnePiece
  <2> QED
    BY <1>3, <2>1, <2>3
<1>6. QED
  BY <1>3, <1>4, <1>5

\* A stream without its first k bytes.
LEMMA FlowsLeft ==
  ASSUME NEW A \in Seq(Bytes), NEW B \in Seq(Bytes), NEW c \in Codecs, NEW e \in Codecs,
         NEW n, NEW from \in Seq(Packets), NEW k \in Nat,
         Flows(A, c, n, from), Left(B, A, k), e.rx = c.rx, e.rxpos = c.rxpos + k
  PROVE  InStep(B, e) /\ OfPackets(B, from) /\ OnePiece(B, from) /\ InOrder(B, from)
<1>1. Len(A) \in Nat /\ Len(B) \in Nat /\ k <= Len(A) /\ Len(B) = Len(A) - k
  BY DEF Left
<1>2. PICK x \in Nat : x = c.rxpos
  BY DEF Codecs
<1>3. ASSUME NEW i \in 1 .. Len(B)
      PROVE  B[i] = A[k + i] /\ k + i \in 1 .. Len(A) /\ e.rxpos + i = c.rxpos + (k + i)
  <2>1. (x + k) + i = x + (k + i) /\ k + i \in 1 .. Len(A)
    BY <1>1
  <2> QED
    BY <1>2, <2>1 DEF Left
<1>4. InStep(B, e)
  BY <1>3, Zenon DEF Flows, InStep
<1>5. OfPackets(B, from)
  BY <1>3, Zenon DEF Flows, OfPackets
<1>6. OnePiece(B, from)
  <2>1. ASSUME NEW i \in 1 .. Len(B), NEW j \in 1 .. Len(B),
               B[i].off + (j - i) \in 1 .. Total(from[B[i].pkt])
        PROVE  B[j].pkt = B[i].pkt /\ B[j].off = B[i].off + (j - i)
    <3>1. (k + j) - (k + i) = j - i
      BY <1>1
    <3>2. A[k + i].off + ((k + j) - (k + i)) \in 1 .. Total(from[A[k + i].pkt])
      BY <1>3, <2>1, <3>1
    <3>3. k + i \in 1 .. Len(A) /\ k + j \in 1 .. Len(A)
      BY <1>3
    <3>4. A[k + j].pkt = A[k + i].pkt /\ A[k + j].off = A[k + i].off + ((k + j) - (k + i))
      BY <3>2, <3>3, Zenon DEF Flows, OnePiece
    <3> QED
      BY <1>3, <3>1, <3>4
  <2> QED
    BY <2>1 DEF OnePiece
<1>7. InOrder(B, from)
  <2>1. ASSUME NEW i \in 1 .. Len(B) - 1, B[i].off = Total(from[B[i].pkt])
        PROVE  B[i + 1].pkt = B[i].pkt + 1 /\ B[i + 1].off = 1
    <3>1. /\ i \in 1 .. Len(B) /\ i + 1 \in 1 .. Len(B) /\ k + i \in 1 .. Len(A) - 1
          /\ k + (i + 1) = (k + i) + 1
      BY <1>1
    <3>2. B[i] = A[k + i] /\ B[i + 1] = A[(k + i) + 1]
      BY <1>3, <3>1
    <3> QED
      BY <2>1, <3>1, <3>2, Zenon DEF Flows, InOrder
  <2> QED
    BY <2>1 DEF InOrder
<1>8. QED
  BY <1>4, <1>5, <1>6, <1>7

EndsAt(B, e, from, tx) ==
  /\ e.rxpos + Len(B) = tx
  /\ Len(B) > 0 => B[Len(B)].pkt = Len(from) /\ B[Len(B)].off = Total(from[Len(from)])
Whole(B, from) ==
  \A i \in 1 .. Len(B) : ~B[i].bad /\ i + Total(from[B[i].pkt]) - B[i].off <= Len(B)

\* The end of a stream, and its whole packets, without its first k bytes.
LEMMA EndLeft ==
  ASSUME NEW A \in Seq(Bytes), NEW B \in Seq(Bytes), NEW c \in Codecs, NEW e \in Codecs,
         NEW n, NEW from \in Seq(Packets), NEW k \in Nat, NEW tx \in Nat, OfPackets(A, from),
         Left(B, A, k), e.rxpos = c.rxpos + k
  PROVE  /\ UpToDate(A, c, n, from, tx) => EndsAt(B, e, from, tx)
         /\ Intact(A, c, from) => Whole(B, from)
<1>1. Len(A) \in Nat /\ Len(B) \in Nat /\ k <= Len(A) /\ Len(B) = Len(A) - k
  BY DEF Left
<1>2. PICK x \in Nat : x = c.rxpos
  BY DEF Codecs
<1>3. ASSUME UpToDate(A, c, n, from, tx)
      PROVE  e.rxpos + Len(B) = tx
  <2>1. x + Len(A) = tx
    BY <1>2, <1>3 DEF UpToDate
  <2>2. (x + k) + Len(B) = tx
    BY <1>1, <2>1
  <2> QED
    BY <1>2, <2>2
<1>4. ASSUME UpToDate(A, c, n, from, tx), Len(B) > 0
      PROVE  B[Len(B)].pkt = Len(from) /\ B[Len(B)].off = Total(from[Len(from)])
  <2>1. Len(B) \in 1 .. Len(B) /\ k + Len(B) = Len(A) /\ Len(A) # 0
    BY <1>1, <1>4
  <2>2. B[Len(B)] = A[Len(A)]
    BY <2>1 DEF Left
  <2> QED
    BY <1>4, <2>1, <2>2 DEF UpToDate
<1>5. ASSUME Intact(A, c, from), NEW i \in 1 .. Len(B)
      PROVE  ~B[i].bad /\ i + Total(from[B[i].pkt]) - B[i].off <= Len(B)
  <2>1. k + i \in 1 .. Len(A) /\ B[i] = A[k + i]
    BY <1>1 DEF Left
  <2>2. A[k + i].off \in Nat /\ Total(from[A[k + i].pkt]) \in Nat
    BY <2>1, Placed
  <2>3. PICK o \in Nat, t \in Nat : o = A[k + i].off /\ t = Total(from[A[k + i].pkt])
    BY <2>2
  <2>4. ~A[k + i].bad /\ (k + i) + t - o <= Len(A)
    BY <1>5, <2>1, <2>3 DEF Intact
  <2>5. i + t - o <= Len(B)
    BY <1>1, <2>4
  <2> QED
    BY <2>1, <2>3, <2>4, <2>5
<1>6. QED
  BY <1>3, <1>4, <1>5 DEF EndsAt, Whole

\* A length is known and its body is awaited: what is left of the stream flows, up to
\* date and whole if it was.
LEMMA FlowsWaiting ==
  ASSUME NEW A \in Seq(Bytes), NEW B \in Seq(Bytes), NEW c \in Codecs, NEW e \in Codecs,
         NEW n \in Nat, NEW from \in Seq(Packets), NEW tx \in Nat, NEW k \in Nat, NEW m \in Nat,
         Flows(A, c, n, from), Left(B, A, k), IsCodecAt(e, c, k, m),
         \/ k = 0 /\ c.last_readed_length = m
         \/ k = HEADER /\ c.last_readed_length = -1
  PROVE  /\ Flows(B, e, n, from)
         /\ UpToDate(A, c, n, from, tx) => UpToDate(B, e, n, from, tx)
         /\ Intact(A, c, from) /\ (k = HEADER => m = Size(from[n + 1])) => Intact(B, e, from)
<1>1. /\ Len(A) \in Nat /\ Len(B) \in Nat /\ k <= Len(A) /\ Len(B) = Len(A) - k
      /\ \A i \in 1 .. Len(B) : B[i] = A[k + i]
      /\ e.rx = c.rx /\ e.rxpos = c.rxpos + k /\ e.last_readed_length = m
      /\ HEADER \in Nat /\ HEADER >= 1 /\ m # -1
  BY Sizes DEF Left, IsCodecAt
<1>2. InStep(B, e) /\ OfPackets(B, from) /\ OnePiece(B, from) /\ InOrder(B, from)
  BY <1>1, FlowsLeft
<1>3. OfPackets(A, from)
  BY DEF Flows
<1>4. Skipped(c) + k = HEADER
  BY <1>1 DEF Skipped
<1>5. ASSUME Len(A) > 0
      PROVE  /\ Total(from[n + 1]) \in Nat /\ Total(from[n + 1]) = HEADER + Size(from[n + 1])
             /\ Size(from[n + 1]) \in Nat /\ Size(from[n + 1]) >= 2 /\ 1 \in 1 .. Len(A)
             /\ A[1].pkt = n + 1 /\ A[1].off = Skipped(c) + 1
             /\ \A i \in 1 .. Len(A) : Skipped(c) + i <= Total(from[n + 1]) =>
                  A[i].pkt = n + 1 /\ A[i].off = Skipped(c) + i
  <2>1. 1 \in 1 .. Len(A)
    BY <1>1, <1>5
  <2>2. /\ A[1].pkt = n + 1 /\ A[1].off = Skipped(c) + 1
        /\ \A i \in 1 .. Len(A) : Skipped(c) + i <= Total(from[n + 1]) =>
                  A[i].pkt = n + 1 /\ A[i].off = Skipped(c) + i
    BY <1>5, Front
  <2> QED
    BY <1>3, <2>1, <2>2, Placed
<1>6. ASSUME Len(B) > 0
      PROVE  B[1].pkt = n + 1 /\ B[1].off = HEADER + 1
  <2>0. Len(A) > 0 /\ 1 \in 1 .. Len(B) /\ k + 1 \in 1 .. Len(A)
    BY <1>1, <1>6
  <2>1. B[1] = A[k + 1]
    BY <1>1, <2>0
  <2>2. Skipped(c) + (k + 1) = HEADER + 1
    BY <1>1, <1>4 DEF Skipped
  <2>3. HEADER + 1 <= Total(from[n + 1])
    BY <1>1, <1>5, <2>0
  <2> QED
    BY <1>5, <2>0, <2>1, <2>2, <2>3
<1>7. Flows(B, e, n, from)
  BY <1>1, <1>2, <1>6 DEF Flows, Begins
<1>8. ASSUME UpToDate(A, c, n, from, tx)
      PROVE  UpToDate(B, e, n, from, tx)
  <2>1. /\ e.rxpos + Len(B) = tx
        /\ Len(B) > 0 => B[Len(B)].pkt = Len(from) /\ B[Len(B)].off = Total(from[Len(from)])
    <3>1. e.rxpos = c.rxpos + k
      BY <1>1
    <3> QED
      BY <1>3, <1>8, <3>1, EndLeft DEF EndsAt
  <2>2. Len(B) # 0
    <3>1. SUFFICES ASSUME Len(B) = 0 PROVE FALSE
      OBVIOUS
    <3>2. CASE Len(A) = 0
      <4>1. c.last_readed_length = -1
        BY <1>8, <3>2 DEF UpToDate
      <4> QED
        BY <1>1, <3>1, <3>2, <4>1
    <3>3. CASE Len(A) # 0
      <4>1. Len(A) = k /\ k # 0 /\ Len(A) > 0 /\ Len(A) \in 1 .. Len(A)
        BY <1>1, <3>1, <3>3
      <4>2. k = HEADER /\ Skipped(c) = 0
        BY <1>1, <4>1 DEF Skipped
      <4>3. Skipped(c) + Len(A) <= Total(from[n + 1]) /\ Skipped(c) + Len(A) = HEADER
        BY <1>1, <1>5, <4>1, <4>2
      <4>4. A[Len(A)].pkt = n + 1 /\ A[Len(A)].off = HEADER
        BY <1>5, <4>1, <4>3
      <4>5. A[Len(A)].pkt = Len(from) /\ A[Len(A)].off = Total(from[Len(from)])
        BY <1>8, <3>3 DEF UpToDate
      <4>6. Total(from[n + 1]) = HEADER
        BY <4>4, <4>5
      <4> QED
        BY <1>1, <1>5, <4>1, <4>6
    <3> QED
      BY <3>2, <3>3
  <2> QED
    BY <1>1, <2>1, <2>2 DEF UpToDate
<1>9. ASSUME Intact(A, c, from), k = HEADER => m = Size(from[n + 1])
      PROVE  Intact(B, e, from)
  <2>1. \A i \in 1 .. Len(B) : ~B[i].bad /\ i + Total(from[B[i].pkt]) - B[i].off <= Len(B)
    BY <1>1, <1>3, <1>9, EndLeft, 0 \in Nat DEF Whole
  <2>2. Len(B) > 0 /\ m = Size(from[n + 1])
    <3>1. CASE k = 0 /\ c.last_readed_length = m
      <4>1. Len(A) > 0 /\ m = Size(from[A[1].pkt])
        BY <1>1, <1>9, <3>1 DEF Intact
      <4> QED
        BY <1>1, <1>5, <3>1, <4>1
    <3>2. CASE k = HEADER /\ c.last_readed_length = -1
      <4>1. Len(A) > 0 /\ Skipped(c) = 0
        BY <1>1, <3>2 DEF Skipped
      <4>2. A[1].pkt = n + 1 /\ A[1].off = 1
        BY <1>5, <4>1
      <4>3. 1 + Total(from[n + 1]) - 1 <= Len(A)
        BY <1>5, <1>9, <4>1, <4>2 DEF Intact
      <4> QED
        BY <1>1, <1>5, <1>9, <3>2, <4>1, <4>3
    <3> QED
      BY <3>1, <3>2
  <2>3. B[1].pkt = n + 1
    BY <1>6, <2>2
  <2> QED
    BY <1>1, <2>1, <2>2, <2>3 DEF Intact
<1>10. QED
  BY <1>7, <1>8, <1>9

\* Of stream A, B is left when packet p was taken: the next one.
Took(A, B, c, e, n, from, tx, p) ==
  /\ p = n + 1
  /\ Flows(B, e, n + 1, from)
  /\ UpToDate(A, c, n, from, tx) => UpToDate(B, e, n + 1, from, tx)
  /\ Intact(A, c, from) => Intact(B, e, from)

\* A packet is taken: it is the next one, and what is left of the stream flows.
LEMMA FlowsTaken ==
  ASSUME NEW A \in Seq(Bytes), NEW B \in Seq(Bytes), NEW c \in Codecs, NEW e \in Codecs,
         NEW n \in Nat, NEW from \in Seq(Packets), NEW tx \in Nat, NEW k \in Nat, NEW m \in Nat,
         NEW p \in 1 .. Len(from), m >= 1, BodyIs(A, k, m, c, p, from),
         Flows(A, c, n, from), Left(B, A, k + m), IsCodecAt(e, c, k + m, -1),
         \/ k = 0 /\ c.last_readed_length = m
         \/ k = HEADER /\ c.last_readed_length = -1
  PROVE  Took(A, B, c, e, n, from, tx, p)
<1>0. /\ Len(A) \in Nat /\ Len(B) \in Nat /\ k + m <= Len(A) /\ Len(B) = Len(A) - (k + m)
      /\ HEADER \in Nat /\ HEADER >= 1 /\ m # -1 /\ k + m \in Nat
  <2>1. Len(A) \in Nat /\ Len(B) \in Nat /\ k + m <= Len(A) /\ Len(B) = Len(A) - (k + m)
    BY DEF Left
  <2> QED
    BY <2>1, Sizes
<1>1. /\ \A i \in 1 .. Len(B) : B[i] = A[(k + m) + i]
      /\ e.rx = c.rx /\ e.rxpos = c.rxpos + (k + m) /\ e.last_readed_length = -1
  BY DEF Left, IsCodecAt
<1>2. InStep(B, e) /\ OfPackets(B, from) /\ OnePiece(B, from) /\ InOrder(B, from)
  BY <1>0, <1>1, FlowsLeft
<1>3. OfPackets(A, from)
  BY DEF Flows
<1>4. Skipped(c) + k = HEADER
  BY <1>0 DEF Skipped
<1>5. /\ m = Size(from[p]) /\ Total(from[p]) = HEADER + m
      /\ \A i \in 1 .. m : A[k + i].pkt = p /\ A[k + i].off = HEADER + i
  BY Sizes DEF BodyIs, Total
<1>6. Len(A) > 0 /\ 1 \in 1 .. Len(A) /\ k + 1 \in 1 .. Len(A) /\ 1 \in 1 .. m /\ m \in 1 .. m
  BY <1>0
<1>7. /\ A[1].pkt = n + 1 /\ Total(from[n + 1]) >= HEADER + 2 /\ Total(from[n + 1]) \in Nat
      /\ \A i \in 1 .. Len(A) : Skipped(c) + i <= Total(from[n + 1]) => A[i].pkt = n + 1
  <2>1. /\ A[1].pkt = n + 1 /\ A[1].off = Skipped(c) + 1
        /\ \A i \in 1 .. Len(A) : Skipped(c) + i <= Total(from[n + 1]) =>
                  A[i].pkt = n + 1 /\ A[i].off = Skipped(c) + i
    BY <1>6, Front
  <2>2. /\ Total(from[n + 1]) \in Nat /\ Total(from[n + 1]) = HEADER + Size(from[n + 1])
        /\ Size(from[n + 1]) \in Nat /\ Size(from[n + 1]) >= 2
    BY <1>3, <1>6, <2>1, Placed
  <2>3. Total(from[n + 1]) >= HEADER + 2
    BY <1>0, <2>2
  <2> QED
    BY <2>1, <2>2, <2>3
<1>8. p = n + 1
  <2>1. Skipped(c) + (k + 1) = HEADER + 1
    BY <1>0, <1>4 DEF Skipped
  <2>2. PICK t \in Nat : t = Total(from[n + 1]) /\ t >= HEADER + 2
    BY <1>7
  <2>3. HEADER + 1 <= t
    BY <1>0, <2>2
  <2>4. A[k + 1].pkt = n + 1
    BY <1>6, <1>7, <2>1, <2>2, <2>3
  <2> QED
    BY <1>5, <1>6, <2>4
<1>9. A[k + m].pkt = p /\ A[k + m].off = Total(from[p]) /\ k + m \in 1 .. Len(A)
  <2>1. k + m \in 1 .. Len(A)
    BY <1>0
  <2> QED
    BY <1>5, <1>6, <2>1
<1>10. Begins(B, e, n + 1)
  <2>1. ASSUME Len(B) > 0
        PROVE  B[1].pkt = (n + 1) + 1 /\ B[1].off = 1
    <3>1. k + m \in 1 .. Len(A) - 1 /\ 1 \in 1 .. Len(B)
      BY <1>0, <2>1
    <3>2. A[(k + m) + 1].pkt = A[k + m].pkt + 1 /\ A[(k + m) + 1].off = 1
      BY <1>9, <3>1 DEF Flows, InOrder
    <3> QED
      BY <1>1, <1>8, <1>9, <3>1, <3>2
  <2> QED
    BY <1>1, <2>1 DEF Begins
<1>11. Flows(B, e, n + 1, from)
  BY <1>2, <1>10 DEF Flows
<1>12. ASSUME UpToDate(A, c, n, from, tx)
       PROVE  UpToDate(B, e, n + 1, from, tx)
  <2>1. /\ e.rxpos + Len(B) = tx
        /\ Len(B) > 0 => B[Len(B)].pkt = Len(from) /\ B[Len(B)].off = Total(from[Len(from)])
    <3>1. e.rxpos = c.rxpos + (k + m) /\ k + m \in Nat
      BY <1>0, <1>1
    <3> QED
      BY <1>3, <1>12, <3>1, EndLeft DEF EndsAt
  <2>2. CASE Len(B) = 0
    <3>1. Len(A) = k + m /\ Len(A) # 0
      BY <1>0, <2>2
    <3>2. A[Len(A)].pkt = Len(from)
      BY <1>12, <3>1 DEF UpToDate
    <3>3. n + 1 = Len(from)
      BY <1>8, <1>9, <3>1, <3>2
    <3> QED
      BY <1>1, <2>1, <2>2, <3>3 DEF UpToDate
  <2>3. CASE Len(B) # 0
    <3>0. \A x \in Nat : x # 0 => x > 0
      OBVIOUS
    <3>1. Len(B) > 0
      BY <1>0, <2>3, <3>0, Zenon
    <3> QED
      BY <2>1, <2>3, <3>1 DEF UpToDate
  <2> QED
    BY <2>2, <2>3
<1>13. ASSUME Intact(A, c, from)
       PROVE  Intact(B, e, from)
  <2>1. \A i \in 1 .. Len(B) : ~B[i].bad /\ i + Total(from[B[i].pkt]) - B[i].off <= Len(B)
    <3>1. e.rxpos = c.rxpos + (k + m) /\ k + m \in Nat
      BY <1>0, <1>1
    <3> QED
      BY <1>3, <1>13, <3>1, EndLeft, 0 \in Nat DEF Whole
  <2> QED
    BY <1>1, <2>1 DEF Intact
<1>14. QED
  BY <1>8, <1>11, <1>12, <1>13 DEF Took

\* In a whole stream a known length is the right one, and the whole body is there and
\* reads as it was written.
LEMMA IntactBody ==
  ASSUME NEW b \in Seq(Bytes), NEW w \in Seq(Bytes), NEW c \in Codecs, NEW n \in Nat,
         NEW from \in Seq(Packets), NEW k \in Nat, NEW m \in Nat,
         Flows(b \o w, c, n, from), Intact(b \o w, c, from), Known(c, b, from, k, m)
  PROVE  /\ n + 1 \in 1 .. Len(from) /\ m = Size(from[n + 1])
         /\ k + m <= Len(b \o w) /\ BodyIs(b \o w, k, m, c, n + 1, from)
<1> DEFINE A == b \o w
<1>0. HEADER \in Nat /\ HEADER >= 1
  BY Sizes
<1>1. /\ A \in Seq(Bytes) /\ Len(A) \in Nat /\ Len(b) \in Nat /\ Len(w) \in Nat
      /\ Len(A) = Len(b) + Len(w)
      /\ \A i \in 1 .. Len(b) : A[i] = b[i]
  BY Joined
<1>2. Flows(A, c, n, from) /\ Intact(A, c, from)
  OBVIOUS
<1> HIDE DEF A
<1>3. PICK x \in Nat : x = c.rxpos
  BY DEF Codecs
<1>4. Len(A) > 0
  <2>1. CASE k = 0 /\ c.last_readed_length = m
    <3>1. m # -1
      OBVIOUS
    <3> QED
      BY <1>2, <2>1, <3>1 DEF Intact
  <2>2. CASE k = HEADER /\ HEADER <= Len(b)
    BY <1>0, <1>1, <2>2
  <2> QED
    BY <2>1, <2>2 DEF Known
<1>5. /\ n + 1 \in 1 .. Len(from) /\ A[1].pkt = n + 1 /\ A[1].off = Skipped(c) + 1
      /\ \A i \in 1 .. Len(A) : Skipped(c) + i <= Total(from[n + 1]) =>
              A[i].pkt = n + 1 /\ A[i].off = Skipped(c) + i
  BY <1>1, <1>2, <1>4, Front
<1>6. /\ Total(from[n + 1]) \in Nat /\ Total(from[n + 1]) = HEADER + Size(from[n + 1])
      /\ Size(from[n + 1]) \in Nat /\ Size(from[n + 1]) >= 2 /\ 1 \in 1 .. Len(A)
  <2>1. 1 \in 1 .. Len(A) /\ OfPackets(A, from)
    BY <1>1, <1>2, <1>4 DEF Flows
  <2> QED
    BY <1>1, <1>5, <2>1, Placed
<1>7. Skipped(c) \in Nat /\ Skipped(c) + k = HEADER
  <2>1. Skipped(c) \in Nat
    BY <1>0 DEF Skipped
  <2>2. CASE k = 0 /\ c.last_readed_length = m
    <3>1. m # -1
      OBVIOUS
    <3> QED
      BY <1>0, <2>2, <3>1 DEF Skipped
  <2>3. CASE k = HEADER /\ c.last_readed_length = -1
    BY <1>0, <2>3 DEF Skipped
  <2> QED
    BY <2>1, <2>2, <2>3 DEF Known
<1>8. PICK t \in Nat : t = Total(from[n + 1])
  BY <1>6
<1>9. t <= Skipped(c) + Len(A)
  <2>1. 1 + t - (Skipped(c) + 1) <= Len(A)
    BY <1>2, <1>5, <1>6, <1>8 DEF Intact
  <2> QED
    BY <1>1, <1>7, <2>1
<1>10. ASSUME NEW i \in Nat, i >= 1, Skipped(c) + i <= t
       PROVE  /\ i \in 1 .. Len(A) /\ A[i].pkt = n + 1 /\ A[i].off = Skipped(c) + i
              /\ ~A[i].bad /\ A[i].mask = {<<c.rx, c.rxpos + i>>}
  <2>1. i \in 1 .. Len(A)
    BY <1>1, <1>7, <1>9, <1>10
  <2>2. A[i].pkt = n + 1 /\ A[i].off = Skipped(c) + i
    BY <1>5, <1>8, <1>10, <2>1
  <2>3. ~A[i].bad /\ A[i].mask = {<<c.rx, c.rxpos + i>>}
    BY <1>2, <2>1 DEF Flows, InStep, Intact
  <2> QED
    BY <2>1, <2>2, <2>3
<1>11. m = Size(from[n + 1])
  <2>1. CASE k = 0 /\ c.last_readed_length = m
    <3>1. m # -1
      OBVIOUS
    <3> QED
      BY <1>2, <1>5, <2>1, <3>1 DEF Intact
  <2>2. CASE k = HEADER /\ c.last_readed_length = -1 /\ HEADER <= Len(b) /\ m \in Header(c, b, from)
    <3>1. Skipped(c) = 0
      BY <2>2 DEF Skipped
    <3>2. ASSUME NEW i \in 1 .. HEADER
          PROVE  /\ b[i].pkt = n + 1 /\ b[i].off = i /\ ~b[i].bad
                 /\ SymDiff(b[i].mask, {<<c.rx, c.rxpos + i>>}) = {}
      <4>1. i \in Nat /\ i >= 1 /\ Skipped(c) + i = i /\ i <= t /\ i \in 1 .. Len(b)
        <5>1. i \in Nat /\ i >= 1 /\ i <= HEADER
          BY <1>0, <3>2
        <5>2. Skipped(c) + i = i
          BY <3>1, <5>1
        <5>3. i \in 1 .. Len(b)
          BY <1>1, <2>2, <5>1
        <5>4. HEADER <= t
          BY <1>0, <1>6, <1>8
        <5>5. i <= t
          BY <1>0, <5>1, <5>4
        <5> QED
          BY <5>1, <5>2, <5>3, <5>5
      <4>2. /\ A[i].pkt = n + 1 /\ A[i].off = i
            /\ ~A[i].bad /\ A[i].mask = {<<c.rx, c.rxpos + i>>}
        BY <1>10, <4>1
      <4>3. A[i] = b[i]
        BY <1>1, <4>1
      <4> QED
        BY <4>2, <4>3 DEF SymDiff
    <3>3. Header(c, b, from) = {Size(from[n + 1])}
      <4>1. PICK p \in 1 .. Len(from) : p = n + 1
        BY <1>5
      <4>2. HeaderReads(c, b, p)
        BY <2>2, <3>2, <4>1 DEF HeaderReads
      <4>3. Header(c, b, from) = {Size(from[p])}
        BY <4>2, HeaderRight
      <4> QED
        BY <4>1, <4>3
    <3> QED
      BY <2>2, <3>3
  <2> QED
    BY <2>1, <2>2 DEF Known
<1>12. k + m <= Len(A)
  <2>1. HEADER + m <= Skipped(c) + Len(A)
    BY <1>6, <1>8, <1>9, <1>11
  <2> QED
    BY <1>0, <1>1, <1>7, <2>1
<1>13. BodyIs(A, k, m, c, n + 1, from)
  <2>1. ASSUME NEW i \in 1 .. m
        PROVE  /\ A[k + i].pkt = n + 1 /\ A[k + i].off = HEADER + i /\ ~A[k + i].bad
               /\ SymDiff(A[k + i].mask, {<<c.rx, c.rxpos + k + i>>}) = {}
    <3>1. k + i \in Nat /\ k + i >= 1 /\ Skipped(c) + (k + i) = HEADER + i
      <4>1. PICK h \in Nat : h = Skipped(c) /\ h + k = HEADER
        BY <1>7
      <4>2. (h + k) + i = HEADER + i
        BY <4>1
      <4>3. k + i \in Nat /\ k + i >= 1 /\ h + (k + i) = (h + k) + i
        OBVIOUS
      <4>4. h + (k + i) = HEADER + i
        BY <4>2, <4>3
      <4> QED
        BY <4>1, <4>3, <4>4
    <3>2. HEADER + i <= t
      BY <1>0, <1>6, <1>8, <1>11
    <3>3. /\ A[k + i].pkt = n + 1 /\ A[k + i].off = HEADER + i
          /\ ~A[k + i].bad /\ A[k + i].mask = {<<c.rx, c.rxpos + (k + i)>>}
      BY <1>10, <3>1, <3>2
    <3>4. x + k + i = x + (k + i)
      OBVIOUS
    <3> QED
      BY <1>3, <3>3, <3>4 DEF SymDiff
  <2> QED
    BY <1>11, <2>1 DEF BodyIs
<1>14. QED
  BY <1>5, <1>11, <1>12, <1>13 DEF A

-----------------------------------------------------------------------------
\* A stream that decode has lost.

\* Error, the first one: the keystream is past everything.
LEMMA FlowsError ==
  ASSUME NEW A \in Seq(Bytes), NEW B \in Seq(Bytes), NEW c \in Codecs, NEW e \in Codecs,
         NEW n, NEW from, NEW k \in Nat, NEW m \in Nat, NEW tx \in Nat, NEW last, m >= 1,
         Flows(A, c, n, from), Toggled(B, A, k, m, c), IsCodecAt(e, c, k + m, last)
  PROVE  Past(B, e) /\ (UpToDate(A, c, n, from, tx) => PastAll(B, e, tx))
<1>1. PICK x \in Nat : x = c.rxpos
  BY DEF Codecs
<1>2. e.rxpos = x + (k + m)
  BY <1>1 DEF IsCodecAt
<1>3. Len(A) \in Nat /\ Len(B) \in Nat /\ k <= Len(A) /\ Len(B) = Len(A) - k
  BY DEF Toggled
<1>4. ASSUME NEW i \in 1 .. Len(B), NEW y \in B[i].mask
      PROVE  y[2] < e.rxpos + i
  <2>1. k + i \in 1 .. Len(A) /\ x + (k + i) = x + k + i
    BY <1>3
  <2>2. A[k + i].mask = {<<c.rx, x + (k + i)>>}
    BY <1>1, <2>1 DEF Flows, InStep
  <2>3. /\ i > m => B[i].mask = A[k + i].mask
        /\ i <= m => B[i].mask = SymDiff(A[k + i].mask, {<<c.rx, x + k + i>>})
    BY <1>1, Zenon DEF Toggled
  <2>4. i <= m => B[i].mask = {}
    BY <2>1, <2>2, <2>3 DEF SymDiff
  <2>5. B[i].mask = {<<c.rx, x + (k + i)>>}
    BY <2>2, <2>3, <2>4
  <2>6. y[2] = x + (k + i)
    BY <2>5
  <2>7. x + (k + i) < (x + (k + m)) + i
    BY <1>3
  <2> QED
    BY <1>2, <2>6, <2>7
<1>5. ASSUME UpToDate(A, c, n, from, tx)
      PROVE  PastAll(B, e, tx)
  <2>1. x + Len(A) = tx
    BY <1>1, <1>5 DEF UpToDate
  <2>2. tx < (x + (k + m)) + Len(B)
    BY <1>3, <2>1
  <2> QED
    BY <1>2, <2>2 DEF PastAll
<1>6. QED
  BY <1>4, <1>5 DEF Past

\* And another error.
LEMMA PastError ==
  ASSUME NEW A \in Seq(Bytes), NEW B \in Seq(Bytes), NEW c \in Codecs, NEW e \in Codecs,
         NEW k \in Nat, NEW m \in Nat, NEW tx \in Nat, NEW last, m >= 1,
         Past(A, c), Toggled(B, A, k, m, c), IsCodecAt(e, c, k + m, last)
  PROVE  Past(B, e) /\ (PastAll(A, c, tx) => PastAll(B, e, tx))
<1>1. PICK x \in Nat : x = c.rxpos
  BY DEF Codecs
<1>2. e.rxpos = x + (k + m)
  BY <1>1 DEF IsCodecAt
<1>3. Len(A) \in Nat /\ Len(B) \in Nat /\ k <= Len(A) /\ Len(B) = Len(A) - k
  BY DEF Toggled
<1>4. ASSUME NEW i \in 1 .. Len(B), NEW y \in B[i].mask
      PROVE  y[2] < e.rxpos + i
  <2>1. k + i \in 1 .. Len(A) /\ x + (k + i) = x + k + i
    BY <1>3
  <2>2. \A z \in A[k + i].mask : z[2] < x + (k + i)
    BY <1>1, <2>1 DEF Past
  <2>3. /\ i > m => B[i].mask = A[k + i].mask
        /\ i <= m => B[i].mask = SymDiff(A[k + i].mask, {<<c.rx, x + k + i>>})
    BY <1>1, Zenon DEF Toggled
  <2>4. i > m \/ i <= m
    OBVIOUS
  <2>5. y \in A[k + i].mask \/ y = <<c.rx, x + (k + i)>>
    BY <2>1, <2>3, <2>4 DEF SymDiff
  <2>6. CASE y = <<c.rx, x + (k + i)>>
    <3>1. x + (k + i) < (x + (k + m)) + i
      BY <1>3
    <3> QED
      BY <1>2, <2>6, <3>1
  <2>7. CASE y \in A[k + i].mask
    <3>1. A[k + i] \in Bytes
      BY <2>1
    <3>2. y \in KeyNames \X Nat
      BY <2>7, <3>1 DEF Bytes, Masks
    <3>3. PICK z \in Nat : z = y[2]
      BY <3>2
    <3>4. z < x + (k + i)
      BY <2>2, <2>7, <3>3
    <3>5. z < (x + (k + m)) + i
      BY <1>3, <3>4
    <3> QED
      BY <1>2, <3>3, <3>5
  <2> QED
    BY <2>5, <2>6, <2>7
<1>5. ASSUME PastAll(A, c, tx)
      PROVE  PastAll(B, e, tx)
  <2>1. tx < x + Len(A)
    BY <1>1, <1>5 DEF PastAll
  <2>2. tx < (x + (k + m)) + Len(B)
    BY <1>3, <2>1
  <2> QED
    BY <1>2, <2>2 DEF PastAll
<1>6. QED
  BY <1>4, <1>5 DEF Past

\* A lost stream stays lost when decode passes bytes that it did not decrypt.
LEMMA PastLeft ==
  ASSUME NEW A \in Seq(Bytes), NEW B \in Seq(Bytes), NEW c \in Codecs, NEW e \in Codecs,
         NEW k \in Nat, NEW tx \in Nat, NEW last,
         Past(A, c), Left(B, A, k), IsCodecAt(e, c, k, last)
  PROVE  Past(B, e) /\ (PastAll(A, c, tx) => PastAll(B, e, tx))
<1>1. PICK x \in Nat : x = c.rxpos
  BY DEF Codecs
<1>2. e.rxpos = x + k
  BY <1>1 DEF IsCodecAt
<1>3. Len(A) \in Nat /\ Len(B) \in Nat /\ k <= Len(A) /\ Len(B) = Len(A) - k
  BY DEF Left
<1>4. ASSUME NEW i \in 1 .. Len(B), NEW y \in B[i].mask
      PROVE  y[2] < e.rxpos + i
  <2>1. k + i \in 1 .. Len(A) /\ x + (k + i) = (x + k) + i
    BY <1>3
  <2>2. B[i] = A[k + i]
    BY DEF Left
  <2>3. y[2] < x + (k + i)
    BY <1>1, <2>1, <2>2 DEF Past
  <2> QED
    BY <1>2, <2>1, <2>3
<1>5. ASSUME PastAll(A, c, tx)
      PROVE  PastAll(B, e, tx)
  <2>1. tx < x + Len(A)
    BY <1>1, <1>5 DEF PastAll
  <2>2. tx < (x + k) + Len(B)
    BY <1>3, <2>1
  <2> QED
    BY <1>2, <2>2 DEF PastAll
<1>6. QED
  BY <1>4, <1>5 DEF Past

\* A lost stream has no packet that decode recognises.
LEMMA PastNoFrame ==
  ASSUME NEW A \in Seq(Bytes), NEW c \in Codecs, NEW k \in Nat, NEW m \in Nat, NEW p, NEW from,
         m >= 1, k + m <= Len(A), Past(A, c), BodyIs(A, k, m, c, p, from)
  PROVE  FALSE
<1>1. PICK x \in Nat : x = c.rxpos
  BY DEF Codecs
<1>2. k + 1 \in 1 .. Len(A) /\ 1 \in 1 .. m /\ x + k + 1 = x + (k + 1)
  OBVIOUS
<1>3. SymDiff(A[k + 1].mask, {<<c.rx, x + k + 1>>}) = {}
  BY <1>1, <1>2 DEF BodyIs
<1>4. <<c.rx, x + (k + 1)>> \in A[k + 1].mask
  BY <1>2, <1>3 DEF SymDiff
<1>5. <<c.rx, x + (k + 1)>>[2] < x + (k + 1)
  BY <1>1, <1>2, <1>4 DEF Past
<1>6. QED
  BY <1>5

\* A lost stream is lost whatever is damaged or cut off.
LEMMA PastKept ==
  ASSUME NEW A \in Seq(Bytes), NEW B \in Seq(Bytes), NEW c, Past(A, c), Len(B) <= Len(A),
         \A i \in 1 .. Len(B) : B[i].mask = A[i].mask
  PROVE  Past(B, c)
<1>1. \A i \in 1 .. Len(B) : i \in 1 .. Len(A)
  OBVIOUS
<1>2. QED
  BY <1>1 DEF Past

\* And whatever is sent: the sender's keystream is behind.
LEMMA PastOn ==
  ASSUME NEW A \in Seq(Bytes), NEW E \in Seq(Bytes), NEW c \in Codecs, NEW p \in Packets,
         NEW tx \in Nat, NEW key, Past(A, c), PastAll(A, c, tx), IsEncoded(E, p, key, tx)
  PROVE  Past(A \o E, c) /\ PastAll(A \o E, c, tx + Total(p))
<1>1. PICK x \in Nat : x = c.rxpos
  BY DEF Codecs
<1>2. /\ Len(A) \in Nat /\ Len(E) \in Nat /\ Len(A \o E) = Len(A) + Len(E)
      /\ Len(E) = Total(p)
  BY Joined DEF IsEncoded
<1>3. tx < x + Len(A)
  BY <1>1 DEF PastAll
<1>4. ASSUME NEW i \in 1 .. Len(A \o E), NEW y \in (A \o E)[i].mask
      PROVE  y[2] < x + i
  <2>1. CASE i <= Len(A)
    <3>1. i \in 1 .. Len(A)
      BY <1>2, <2>1
    <3>2. (A \o E)[i] = A[i]
      BY <3>1, Joined
    <3> QED
      BY <1>1, <3>1, <3>2 DEF Past
  <2>2. CASE i > Len(A)
    <3>1. i - Len(A) \in 1 .. Len(E) /\ i = Len(A) + (i - Len(A))
      BY <1>2, <2>2
    <3>2. PICK j \in 1 .. Len(E) : i = Len(A) + j
      BY <3>1
    <3>3. (A \o E)[i] = E[j]
      BY <3>2, Joined
    <3>4. y = <<key, tx + j>>
      BY <3>3 DEF IsEncoded
    <3>5. tx + j < x + i
      BY <1>2, <1>3, <3>2
    <3> QED
      BY <3>4, <3>5
  <2> QED
    BY <1>2, <2>1, <2>2
<1>5. tx + Total(p) < x + Len(A \o E)
  BY <1>2, <1>3
<1>6. QED
  BY <1>1, <1>4, <1>5 DEF Past, PastAll

\* encode writes the bytes of a packet, with the next bytes of the keystream.
LEMMA Encoded ==
  ASSUME NEW c \in Codecs, NEW p \in Packets
  PROVE  /\ IsEncoded(encode(c, p).bytes, p, c.tx, c.txpos)
         /\ encode(c, p).codec \in Codecs
         /\ encode(c, p).codec.rx = c.rx /\ encode(c, p).codec.tx = c.tx
         /\ encode(c, p).codec.rxpos = c.rxpos
         /\ encode(c, p).codec.last_readed_length = c.last_readed_length
         /\ encode(c, p).codec.txpos = c.txpos + Total(p)
<1> DEFINE n == Total(p)
           plain == [i \in 1 .. n |-> Byte(p.id, i)]
           E == apply_keystream(plain, n, c.tx, c.txpos)
           e == [c EXCEPT !.txpos = c.txpos + n]
<1>1. n \in Nat /\ p.id \in 0 .. MaxPackets
  BY Sizes DEF Packets
<1>2. encode(c, p).bytes = E /\ encode(c, p).codec = e
  BY DEF encode, Total
<1>3. ASSUME NEW i \in 1 .. n
      PROVE  Byte(p.id, i) \in Bytes
  <2>1. {} \in Masks
    BY FS_EmptySet DEF Masks
  <2> HIDE DEF n
  <2>2. i \in Nat
    BY <1>1
  <2> QED
    BY <1>1, <2>1, <2>2 DEF Byte, Bytes
<1>4. plain \in Seq(Bytes) /\ Len(plain) = n /\ \A i \in 1 .. n : plain[i] = Byte(p.id, i)
  <2> HIDE DEF n
  <2>1. plain \in [1 .. n -> Bytes] /\ \A i \in 1 .. n : plain[i] = Byte(p.id, i)
    BY <1>3
  <2> HIDE DEF plain
  <2> QED
    BY <1>1, <2>1
<1>5. PICK t \in Nat : t = c.txpos
  BY DEF Codecs
<1>6. c.tx \in KeyNames
  BY DEF Codecs, CodecKeys, KeyNames
<1> HIDE DEF plain, n, e
<1>7. Applied(E, plain, n, c.tx, c.txpos)
  BY <1>1, <1>4, <1>5, <1>6, KeystreamApplied
<1> HIDE DEF E
<1>8. IsEncoded(E, p, c.tx, c.txpos)
  <2>1. E \in Seq(Bytes) /\ Len(E) = n
    BY <1>4, <1>7 DEF Applied
  <2>2. ASSUME NEW i \in 1 .. n
        PROVE  /\ E[i].pkt = p.id /\ E[i].off = i /\ ~E[i].bad
               /\ E[i].mask = {<<c.tx, c.txpos + i>>}
    <3>1. i <= n /\ i \in 1 .. Len(plain)
      BY <1>1, <1>4
    <3>2. /\ E[i].pkt = plain[i].pkt /\ E[i].off = plain[i].off /\ E[i].bad = plain[i].bad
          /\ E[i].mask = SymDiff(plain[i].mask, {<<c.tx, c.txpos + i>>})
      BY <1>7, <3>1, Zenon DEF Applied
    <3>3. /\ plain[i].pkt = p.id /\ plain[i].off = i /\ ~plain[i].bad
          /\ plain[i].mask = {}
      BY <1>4 DEF Byte
    <3> QED
      BY <3>2, <3>3 DEF SymDiff
  <2> QED
    BY <2>1, <2>2 DEF IsEncoded, n
<1>9. /\ e \in Codecs /\ e.rx = c.rx /\ e.tx = c.tx /\ e.rxpos = c.rxpos
      /\ e.last_readed_length = c.last_readed_length /\ e.txpos = c.txpos + n
  <2>1. PICK y \in Nat : y = c.txpos + n
    BY <1>1, <1>5
  <2>2. e = [c EXCEPT !.txpos = y]
    BY <2>1 DEF e
  <2>3. e \in Codecs
    BY <2>2 DEF Codecs
  <2> QED
    BY <2>1, <2>2, <2>3 DEF Codecs
<1>10. QED
  BY <1>2, <1>8, <1>9 DEF n

-----------------------------------------------------------------------------
\* Steps of a direction.

\* B is A with damaged bytes, or without its end.
Hurt(B, A) ==
  /\ Len(B) <= Len(A)
  /\ \A i \in 1 .. Len(B) : B[i].pkt = A[i].pkt /\ B[i].off = A[i].off /\ B[i].mask = A[i].mask

\* Bytes are damaged, or the end of the stream is cut off.
LEMMA StreamHurt ==
  ASSUME NEW A \in Seq(Bytes), NEW B \in Seq(Bytes), NEW c, NEW n,
         NEW from \in Seq(Packets), NEW tx, NEW brk, NEW down, NEW clean, NEW stuck,
         NEW down2 \in BOOLEAN, NEW stuck2, NEW clean2, ~clean2,
         Stream(A, c, n, from, tx, brk, down, clean, stuck), stuck => stuck2,
         ~down2 => ~down, ~down2 => Len(B) = Len(A), Hurt(B, A)
  PROVE  Stream(B, c, n, from, tx, brk, down2, clean2, stuck2)
<1> USE DEF Hurt
<1>1. ASSUME ~brk
      PROVE  Flows(B, c, n, from) /\ (~down2 => UpToDate(B, c, n, from, tx))
  <2>1. Flows(A, c, n, from) /\ (~down => UpToDate(A, c, n, from, tx))
    BY <1>1 DEF Stream
  <2>2. Flows(B, c, n, from)
    BY <2>1, FlowsKept
  <2>3. ASSUME ~down2
        PROVE  UpToDate(B, c, n, from, tx)
    <3>1. UpToDate(A, c, n, from, tx) /\ Len(A) = Len(B) /\ Len(B) \in Nat
      BY <2>1, <2>3
    <3>2. CASE Len(B) = 0
      BY <3>1, <3>2 DEF UpToDate
    <3>3. CASE Len(B) # 0
      <4>1. Len(B) \in 1 .. Len(B)
        BY <3>1, <3>3
      <4>2. B[Len(B)].pkt = A[Len(A)].pkt /\ B[Len(B)].off = A[Len(A)].off
        BY <3>1, <4>1
      <4> QED
        BY <3>1, <3>3, <4>2 DEF UpToDate
    <3> QED
      BY <3>2, <3>3
  <2> QED
    BY <2>2, <2>3
<1>2. ASSUME brk
      PROVE  stuck2 \/ (Past(B, c) /\ (~down2 => PastAll(B, c, tx)))
  <2>1. stuck \/ (Past(A, c) /\ (~down => PastAll(A, c, tx)))
    BY <1>2 DEF Stream
  <2>2. ASSUME Past(A, c), ~down => PastAll(A, c, tx)
        PROVE  Past(B, c) /\ (~down2 => PastAll(B, c, tx))
    <3>1. Past(B, c)
      BY <2>2, PastKept
    <3> QED
      BY <2>2, <3>1 DEF PastAll
  <2> QED
    BY <2>1, <2>2
<1>3. QED
  BY <1>1, <1>2 DEF Stream

\* The same in terms of the bytes under way.
LEMMA WireHurt ==
  ASSUME NEW b \in Seq(Bytes), NEW w \in Seq(Bytes), NEW x \in Seq(Bytes), Hurt(x, w)
  PROVE  /\ b \o w \in Seq(Bytes) /\ b \o x \in Seq(Bytes) /\ Hurt(b \o x, b \o w)
         /\ Len(x) = Len(w) => Len(b \o x) = Len(b \o w)
<1>1. /\ b \o w \in Seq(Bytes) /\ b \o x \in Seq(Bytes) /\ Len(b) \in Nat /\ Len(w) \in Nat
      /\ Len(x) \in Nat /\ Len(b \o w) = Len(b) + Len(w) /\ Len(b \o x) = Len(b) + Len(x)
  BY Joined
<1>2. Len(b \o x) <= Len(b \o w) /\ (Len(x) = Len(w) => Len(b \o x) = Len(b \o w))
  <2>1. Len(x) <= Len(w)
    BY DEF Hurt
  <2> QED
    BY <1>1, <2>1
<1>3. ASSUME NEW i \in 1 .. Len(b \o x)
      PROVE  /\ (b \o x)[i].pkt = (b \o w)[i].pkt /\ (b \o x)[i].off = (b \o w)[i].off
             /\ (b \o x)[i].mask = (b \o w)[i].mask
  <2>1. CASE i \in 1 .. Len(b)
    <3>1. (b \o x)[i] = b[i] /\ (b \o w)[i] = b[i]
      BY <2>1, Joined
    <3> QED
      BY <3>1
  <2>2. ASSUME NEW j \in 1 .. Len(x), i = Len(b) + j
        PROVE  /\ (b \o x)[i].pkt = (b \o w)[i].pkt /\ (b \o x)[i].off = (b \o w)[i].off
               /\ (b \o x)[i].mask = (b \o w)[i].mask
    <3>1. j \in 1 .. Len(w)
      BY <1>1 DEF Hurt
    <3>2. (b \o x)[i] = x[j] /\ (b \o w)[i] = w[j]
      BY <2>2, <3>1, Joined
    <3> QED
      BY <3>2 DEF Hurt
  <2>3. i \in 1 .. Len(b) \/ (i - Len(b) \in 1 .. Len(x) /\ i = Len(b) + (i - Len(b)))
    BY <1>1
  <2> QED
    BY <2>1, <2>2, <2>3
<1>4. QED
  BY <1>1, <1>2, <1>3 DEF Hurt

\* The sender goes away.
LEMMA StreamDown ==
  ASSUME NEW A, NEW c, NEW n, NEW from, NEW tx, NEW brk, NEW down, NEW clean, NEW stuck,
         NEW down2, NEW stuck2, stuck => stuck2, down => down2,
         Stream(A, c, n, from, tx, brk, down, clean, stuck)
  PROVE  Stream(A, c, n, from, tx, brk, down2, clean, stuck2)
BY DEF Stream

\* A packet is sent.
LEMMA StreamSent ==
  ASSUME NEW A \in Seq(Bytes), NEW E \in Seq(Bytes), NEW c \in Codecs, NEW n,
         NEW from \in Seq(Packets), NEW p \in Packets, NEW tx \in Nat,
         NEW brk, NEW down \in BOOLEAN, NEW clean, NEW stuck, stuck => down,
         Stream(A, c, n, from, tx, brk, down, clean, stuck),
         p.id = Len(from) + 1, IsEncoded(E, p, c.rx, tx)
  PROVE  Stream(IF down THEN A ELSE A \o E, c, n, Append(from, p), tx + Total(p),
                brk, down, clean, stuck)
<1> DEFINE more == Append(from, p)
<1>1. /\ more \in Seq(Packets) /\ Len(from) <= Len(more)
      /\ \A q \in 1 .. Len(from) : more[q] = from[q]
  OBVIOUS
<1> HIDE DEF more
<1>2. CASE down
  <2>1. ASSUME ~brk
        PROVE  Flows(A, c, n, more)
    <3>1. Flows(A, c, n, from) /\ Len(A) <= Len(A)
      BY <2>1 DEF Stream
    <3> QED
      BY <1>1, <3>1, FlowsKept
  <2>2. ASSUME clean
        PROVE  ~brk /\ Intact(A, c, more)
    <3>1. ~brk /\ Intact(A, c, from)
      BY <2>2 DEF Stream
    <3>2. OfPackets(A, from)
      BY <3>1 DEF Stream, Flows
    <3>3. \A i \in 1 .. Len(A) : more[A[i].pkt] = from[A[i].pkt]
      BY <1>1, <3>2 DEF OfPackets
    <3>4. Len(A) \in Nat /\ (Len(A) > 0 => 1 \in 1 .. Len(A))
      OBVIOUS
    <3> QED
      BY <3>1, <3>3, <3>4 DEF Intact
  <2>3. Stream(A, c, n, more, tx + Total(p), brk, down, clean, stuck)
    BY <1>2, <2>1, <2>2 DEF Stream
  <2> QED
    BY <1>2, <2>3 DEF more
<1>3. CASE ~down
  <2>1. ASSUME ~brk
        PROVE  /\ Flows(A \o E, c, n, more) /\ UpToDate(A \o E, c, n, more, tx + Total(p))
               /\ Intact(A, c, from) => Intact(A \o E, c, more)
    <3>1. Flows(A, c, n, from) /\ UpToDate(A, c, n, from, tx)
      BY <1>3, <2>1 DEF Stream
    <3> QED
      BY <3>1, FlowsOn DEF more
  <2>2. ASSUME brk
        PROVE  Past(A \o E, c) /\ PastAll(A \o E, c, tx + Total(p))
    <3>1. Past(A, c) /\ PastAll(A, c, tx)
      BY <1>3, <2>2 DEF Stream
    <3> QED
      BY <3>1, PastOn
  <2>3. Stream(A \o E, c, n, more, tx + Total(p), brk, down, clean, stuck)
    BY <2>1, <2>2 DEF Stream
  <2> QED
    BY <1>3, <2>3 DEF more
<1>4. QED
  BY <1>2, <1>3

\* What a result of decode is to its reader.
Failed(out) == out \notin {"pending", "end", "frame"}

\* decode keeps the types, and the keys and the sending side of the codec; a packet that
\* it returns was sent.
LEMMA DecodedTyped ==
  ASSUME NEW c \in Codecs, NEW b \in Seq(Bytes), NEW from \in Seq(Packets),
         NEW d \in decode(c, b, from)
  PROVE  /\ d.buf \in Seq(Bytes) /\ d.codec \in Codecs
         /\ d.codec.rx = c.rx /\ d.codec.tx = c.tx /\ d.codec.txpos = c.txpos
         /\ d.out = "frame" => d.pkt \in 1 .. Len(from)
<1>1. CASE NoHeader(d, c, b)
  BY <1>1 DEF NoHeader
<1>2. CASE BadHeader(d, c, b, from)
  BY <1>2 DEF BadHeader, Moved, IsCodecAt
<1>3. ASSUME NEW k \in {0, HEADER}, NEW n \in OVERHEAD .. MAXLEN, BodyOutcome(d, c, b, from, k, n)
      PROVE  /\ d.buf \in Seq(Bytes) /\ d.codec \in Codecs
             /\ d.codec.rx = c.rx /\ d.codec.tx = c.tx /\ d.codec.txpos = c.txpos
             /\ d.out = "frame" => d.pkt \in 1 .. Len(from)
  BY <1>3 DEF BodyOutcome, Waits, Takes, Refuses, Moved, IsCodecAt
<1>4. QED
  BY <1>1, <1>2, <1>3, Decoded

\* decode is called on a stream that is not stuck.
Polling(c, b, w, n, from, tx, brk, down, clean, eof, stuck2, d, out) ==
  /\ c \in Codecs /\ b \in Seq(Bytes) /\ w \in Seq(Bytes) /\ n \in Nat
  /\ from \in Seq(Packets) /\ tx \in Nat /\ brk \in BOOLEAN /\ down \in BOOLEAN
  /\ clean \in BOOLEAN /\ eof \in BOOLEAN
  /\ \A p \in 1 .. Len(from) : fits(from[p])
  /\ Stream(b \o w, c, n, from, tx, brk, down, clean, FALSE)
  /\ eof => w = <<>>
  /\ d \in decode(c, b, from)
  /\ out = Polled(d.out, d.buf, eof)
  /\ out = "IoError" => stuck2

\* A packet that it returns is the next one and comes before any error; the stream flows
\* on or is lost; and without faults there is no error.
Polls(w, n, from, tx, brk, down, clean, stuck2, d, out) ==
  /\ Stream(d.buf \o w, d.codec, IF out = "frame" THEN n + 1 ELSE n, from, tx,
            brk \/ Failed(out), down, clean, stuck2)
  /\ out = "frame" => ~brk /\ d.pkt = n + 1 /\ n + 1 \in 1 .. Len(from)

\* What a call of decode does to the stream.
LEMMA StreamDecoded ==
  ASSUME NEW c, NEW b, NEW w, NEW n, NEW from, NEW tx, NEW brk, NEW down, NEW clean, NEW eof,
         NEW stuck2, NEW d, NEW out,
         Polling(c, b, w, n, from, tx, brk, down, clean, eof, stuck2, d, out)
  PROVE  Polls(w, n, from, tx, brk, down, clean, stuck2, d, out)
<1> SUFFICES
      ASSUME c \in Codecs, b \in Seq(Bytes), w \in Seq(Bytes), n \in Nat,
             from \in Seq(Packets), tx \in Nat, brk \in BOOLEAN, down \in BOOLEAN,
             clean \in BOOLEAN, eof \in BOOLEAN,
             \A p \in 1 .. Len(from) : fits(from[p]),
             Stream(b \o w, c, n, from, tx, brk, down, clean, FALSE), eof => w = <<>>,
             d \in decode(c, b, from), out = Polled(d.out, d.buf, eof),
             out = "IoError" => stuck2
      PROVE  /\ Stream(d.buf \o w, d.codec, IF out = "frame" THEN n + 1 ELSE n, from, tx,
                       brk \/ Failed(out), down, clean, stuck2)
             /\ out = "frame" => ~brk /\ d.pkt = n + 1 /\ n + 1 \in 1 .. Len(from)
  BY DEF Polling, Polls
<1> DEFINE A == b \o w
           B == d.buf \o w
           n2 == IF out = "frame" THEN n + 1 ELSE n
<1>1. /\ d.buf \in Seq(Bytes) /\ d.codec \in Codecs
      /\ A \in Seq(Bytes) /\ B \in Seq(Bytes) /\ Len(A) = Len(b) + Len(w)
      /\ Len(b) \in Nat /\ Len(w) \in Nat
  BY DecodedTyped, Joined
<1>2. HEADER \in Nat /\ HEADER >= 1 /\ OVERHEAD \in Nat /\ OVERHEAD >= 2 /\ MAXLEN \in Nat
  BY Sizes
<1>3. Stream(A, c, n, from, tx, brk, down, clean, FALSE)
  OBVIOUS
<1> HIDE DEF A, B
<1>6. ASSUME d.out = "none"
      PROVE  out # "frame" /\ (Failed(out) => out = "IoError" /\ eof /\ d.buf # <<>>)
  BY <1>6 DEF Polled, Failed
<1>7. ASSUME d.out \in {"TooShortPacket", "TooLongPacket", "IntegrityError"}
      PROVE  out # "frame" /\ Failed(out)
  BY <1>7 DEF Polled, Failed
<1>8. CASE NoHeader(d, c, b)
  <2>1. d.out = "none" /\ d.buf = b /\ d.codec = c /\ Len(b) < HEADER /\ c.last_readed_length = -1
    BY <1>8 DEF NoHeader
  <2>2. out # "frame" /\ (Failed(out) => out = "IoError" /\ eof /\ b # <<>>)
    BY <1>6, <2>1
  <2>3. B = A /\ n2 = n
    BY <2>1, <2>2 DEF A, B
  <2>4. ASSUME clean
        PROVE  ~Failed(out)
    <3>1. SUFFICES ASSUME Failed(out) PROVE FALSE
      OBVIOUS
    <3>2. w = <<>> /\ Len(b) # 0 /\ Len(w) = 0
      BY <2>2, <3>1
    <3>3. Len(A) > 0 /\ Len(A) < HEADER /\ 1 \in 1 .. Len(A)
      BY <1>1, <1>2, <2>1, <3>2
    <3>4. Flows(A, c, n, from) /\ Intact(A, c, from)
      BY <1>3, <2>4 DEF Stream
    <3>5. A[1].off = Skipped(c) + 1 /\ Skipped(c) = 0
      BY <1>1, <2>1, <3>3, <3>4, Front DEF Skipped
    <3>6. OfPackets(A, from)
      BY <3>4 DEF Flows
    <3>7. /\ Total(from[A[1].pkt]) \in Nat /\ Size(from[A[1].pkt]) \in Nat
          /\ Total(from[A[1].pkt]) = HEADER + Size(from[A[1].pkt])
      BY <1>1, <3>3, <3>6, Placed
    <3>8. 1 + Total(from[A[1].pkt]) - 1 <= Len(A)
      BY <3>3, <3>4, <3>5 DEF Intact
    <3>9. Len(A) \in Nat
      BY <1>1
    <3> QED
      BY <1>2, <3>3, <3>7, <3>8, <3>9
  <2>5. Stream(A, c, n, from, tx, brk \/ Failed(out), down, clean, stuck2)
    BY <1>3, <2>2, <2>4 DEF Stream
  <2> QED
    BY <2>1, <2>2, <2>3, <2>5 DEF B
<1>9. ASSUME NEW k \in Nat, NEW m \in Nat, m >= 1, Toggled(d.buf, b, k, m, c), m <= Len(d.buf),
             NEW last, IsCodecAt(d.codec, c, k + m, last),
             d.out \in {"TooShortPacket", "TooLongPacket", "IntegrityError"}, ~clean
      PROVE  Stream(B, d.codec, n2, from, tx, brk \/ Failed(out), down, clean, stuck2)
  <2>1. Toggled(B, A, k, m, c)
    BY <1>1, <1>9, ToggledAhead DEF A, B
  <2>2. Failed(out)
    BY <1>7, <1>9
  <2>3. Past(B, d.codec) /\ (~down => PastAll(B, d.codec, tx))
    <3>1. CASE brk
      <4>1. Past(A, c) /\ (~down => PastAll(A, c, tx))
        BY <1>3, <3>1 DEF Stream
      <4>2. Past(B, d.codec) /\ (PastAll(A, c, tx) => PastAll(B, d.codec, tx))
        BY <1>1, <1>9, <2>1, <4>1, PastError
      <4> QED
        BY <4>1, <4>2
    <3>2. CASE ~brk
      <4>1. Flows(A, c, n, from) /\ (~down => UpToDate(A, c, n, from, tx))
        BY <1>3, <3>2 DEF Stream
      <4>2. Past(B, d.codec) /\ (UpToDate(A, c, n, from, tx) => PastAll(B, d.codec, tx))
        BY <1>1, <1>9, <2>1, <4>1, FlowsError
      <4> QED
        BY <4>1, <4>2
    <3> QED
      BY <3>1, <3>2
  <2> QED
    BY <1>9, <2>2, <2>3 DEF Stream
<1>10. CASE BadHeader(d, c, b, from)
  <2>1. /\ d.out \in {"TooShortPacket", "TooLongPacket"} /\ Toggled(d.buf, b, 0, HEADER, c)
        /\ HEADER <= Len(b) /\ IsCodecAt(d.codec, c, HEADER, -1) /\ c.last_readed_length = -1
    BY <1>10 DEF BadHeader, Moved
  <2>2. PICK m \in Header(c, b, from) : m \notin OVERHEAD .. MAXLEN
    BY <1>10 DEF BadHeader
  <2>3. m \in Nat
    BY HeaderNat
  <2>4. ~clean
    <3>1. SUFFICES ASSUME clean PROVE FALSE
      OBVIOUS
    <3>2. Flows(A, c, n, from) /\ Intact(A, c, from)
      BY <1>3, <3>1 DEF Stream
    <3>3. Known(c, b, from, HEADER, m)
      BY <2>1, <2>2 DEF Known
    <3>4. n + 1 \in 1 .. Len(from) /\ m = Size(from[n + 1])
      BY <1>2, <2>3, <3>2, <3>3, IntactBody DEF A
    <3>5. fits(from[n + 1]) /\ from[n + 1] \in Packets
      BY <3>4
    <3>6. Size(from[n + 1]) >= OVERHEAD /\ Size(from[n + 1]) <= MAXLEN /\ Size(from[n + 1]) \in Nat
      BY <3>5, Sizes
    <3> QED
      BY <1>2, <2>2, <2>3, <3>4, <3>6
  <2>5. HEADER <= Len(d.buf) /\ 0 + HEADER = HEADER
    BY <1>1, <1>2, <2>1 DEF Toggled
  <2>6. Stream(B, d.codec, n2, from, tx, brk \/ Failed(out), down, clean, stuck2)
    BY <1>2, <1>9, <2>1, <2>4, <2>5
  <2> QED
    BY <1>7, <2>1, <2>6 DEF B
<1>11. ASSUME NEW k \in {0, HEADER}, NEW m \in OVERHEAD .. MAXLEN,
              Known(c, b, from, k, m), Waits(d, c, b, k, m)
       PROVE  /\ Stream(B, d.codec, n2, from, tx, brk \/ Failed(out), down, clean, stuck2)
              /\ out # "frame"
  <2>1. k \in Nat /\ m \in Nat /\ m >= 1
    BY <1>2
  <2>2. /\ d.out = "none" /\ Left(d.buf, b, k) /\ IsCodecAt(d.codec, c, k, m)
        /\ Len(b) - k < m
    BY <1>11 DEF Waits, Moved
  <2>3. out # "frame" /\ (Failed(out) => out = "IoError" /\ eof)
    BY <1>6, <2>2
  <2>4. Left(B, A, k)
    BY <1>1, <2>1, <2>2, LeftAhead DEF A, B
  <2>5. \/ k = 0 /\ c.last_readed_length = m
        \/ k = HEADER /\ c.last_readed_length = -1
    BY <1>11 DEF Known
  <2>6. ASSUME clean
        PROVE  /\ k + m <= Len(A) /\ m = Size(from[n + 1])
               /\ Flows(A, c, n, from) /\ Intact(A, c, from)
    <3>1. Flows(A, c, n, from) /\ Intact(A, c, from)
      BY <1>3, <2>6 DEF Stream
    <3>2. k + m <= Len(A) /\ m = Size(from[n + 1])
      BY <1>11, <2>1, <3>1, IntactBody DEF A
    <3> QED
      BY <3>1, <3>2
  <2>7. clean => ~Failed(out)
    <3>1. SUFFICES ASSUME clean, Failed(out) PROVE FALSE
      OBVIOUS
    <3>2. w = <<>> /\ Len(w) = 0
      BY <2>3, <3>1
    <3>3. k + m <= Len(A)
      BY <2>6, <3>1
    <3> QED
      BY <1>1, <2>1, <2>2, <3>2, <3>3
  <2>8. ASSUME ~brk
        PROVE  Flows(B, d.codec, n, from) /\ (~down => UpToDate(B, d.codec, n, from, tx))
    <3>1. Flows(A, c, n, from) /\ (~down => UpToDate(A, c, n, from, tx))
      BY <1>3, <2>8 DEF Stream
    <3>2. Flows(B, d.codec, n, from) /\ (UpToDate(A, c, n, from, tx) => UpToDate(B, d.codec, n, from, tx))
      BY <1>1, <2>1, <2>2, <2>4, <2>5, <3>1, FlowsWaiting
    <3> QED
      BY <3>1, <3>2
  <2>9. ASSUME clean
        PROVE  ~brk /\ Intact(B, d.codec, from)
    <3>1. ~brk
      BY <1>3, <2>9 DEF Stream
    <3>2. Intact(B, d.codec, from)
      BY <1>1, <2>1, <2>2, <2>4, <2>5, <2>6, <2>9, FlowsWaiting
    <3> QED
      BY <3>1, <3>2
  <2>10. ASSUME brk
         PROVE  Past(B, d.codec) /\ (~down => PastAll(B, d.codec, tx))
    <3>1. Past(A, c) /\ (~down => PastAll(A, c, tx))
      BY <1>3, <2>10 DEF Stream
    <3>2. Past(B, d.codec) /\ (PastAll(A, c, tx) => PastAll(B, d.codec, tx))
      BY <1>1, <2>1, <2>2, <2>4, <3>1, PastLeft
    <3> QED
      BY <3>1, <3>2
  <2> QED
    BY <2>3, <2>7, <2>8, <2>9, <2>10 DEF Stream
<1>12. ASSUME NEW k \in {0, HEADER}, NEW m \in OVERHEAD .. MAXLEN,
              Known(c, b, from, k, m), Takes(d, c, b, k, m, from)
       PROVE  /\ Stream(B, d.codec, n2, from, tx, brk \/ Failed(out), down, clean, stuck2)
              /\ out = "frame" /\ ~brk /\ d.pkt = n + 1 /\ n + 1 \in 1 .. Len(from)
  <2>1. k \in Nat /\ m \in Nat /\ m >= 1 /\ k + m \in Nat
    BY <1>2
  <2>2. /\ d.out = "frame" /\ Left(d.buf, b, k + m) /\ IsCodecAt(d.codec, c, k + m, -1)
        /\ d.pkt \in 1 .. Len(from) /\ BodyIs(b, k, m, c, d.pkt, from)
    BY <1>12 DEF Takes, Moved
  <2>3. out = "frame" /\ ~Failed(out) /\ n2 = n + 1
    BY <2>2 DEF Polled, Failed
  <2>4. Left(B, A, k + m)
    BY <1>1, <2>1, <2>2, LeftAhead DEF A, B
  <2>5. k + m <= Len(b) /\ k + m <= Len(A)
    BY <1>1, <2>1, <2>2 DEF Left
  <2>6. BodyIs(A, k, m, c, d.pkt, from)
    BY <2>1, <2>2, <2>5, BodyAhead DEF A
  <2>7. ~brk
    <3>1. SUFFICES ASSUME brk PROVE FALSE
      OBVIOUS
    <3>2. Past(A, c)
      BY <1>3, <3>1 DEF Stream
    <3> QED
      BY <1>1, <2>1, <2>5, <2>6, <3>2, PastNoFrame
  <2>8. Flows(A, c, n, from) /\ (~down => UpToDate(A, c, n, from, tx))
    BY <1>3, <2>7 DEF Stream
  <2>9. \/ k = 0 /\ c.last_readed_length = m
        \/ k = HEADER /\ c.last_readed_length = -1
    BY <1>12 DEF Known
  <2>10. /\ d.pkt = n + 1 /\ Flows(B, d.codec, n + 1, from)
         /\ UpToDate(A, c, n, from, tx) => UpToDate(B, d.codec, n + 1, from, tx)
         /\ Intact(A, c, from) => Intact(B, d.codec, from)
    <3>1. PICK p \in 1 .. Len(from) : p = d.pkt
      BY <2>2
    <3>2. PICK e \in Codecs : e = d.codec
      BY <1>1
    <3>3. IsCodecAt(e, c, k + m, -1) /\ BodyIs(A, k, m, c, p, from)
      BY <2>2, <2>6, <3>1, <3>2
    <3>4. Took(A, B, c, e, n, from, tx, p)
      BY <1>1, <2>1, <2>4, <2>8, <2>9, <3>3, FlowsTaken
    <3> QED
      BY <3>1, <3>2, <3>4 DEF Took
  <2>11. clean => Intact(A, c, from)
    BY <1>3 DEF Stream
  <2>12. Stream(B, d.codec, n + 1, from, tx, brk \/ Failed(out), down, clean, stuck2)
    BY <2>3, <2>7, <2>8, <2>10, <2>11 DEF Stream
  <2> QED
    BY <2>2, <2>3, <2>7, <2>10, <2>12
<1>13. ASSUME NEW k \in {0, HEADER}, NEW m \in OVERHEAD .. MAXLEN,
              Known(c, b, from, k, m), Refuses(d, c, b, k, m, from)
       PROVE  /\ Stream(B, d.codec, n2, from, tx, brk \/ Failed(out), down, clean, stuck2)
              /\ out # "frame"
  <2>1. k \in Nat /\ m \in Nat /\ m >= 1
    BY <1>2
  <2>2. /\ d.out = "IntegrityError" /\ Toggled(d.buf, b, k, m, c)
        /\ IsCodecAt(d.codec, c, k + m, -1) /\ Len(b) - k >= m
        /\ \A p \in 1 .. Len(from) : ~BodyIs(b, k, m, c, p, from)
    BY <1>13 DEF Refuses, Moved
  <2>3. m <= Len(d.buf) /\ k + m <= Len(b)
    BY <1>1, <2>1, <2>2 DEF Toggled
  <2>4. ~clean
    <3>1. SUFFICES ASSUME clean PROVE FALSE
      OBVIOUS
    <3>2. Flows(A, c, n, from) /\ Intact(A, c, from)
      BY <1>3, <3>1 DEF Stream
    <3>3. n + 1 \in 1 .. Len(from) /\ BodyIs(A, k, m, c, n + 1, from)
      BY <1>13, <2>1, <3>2, IntactBody DEF A
    <3>4. PICK p \in 1 .. Len(from) : BodyIs(A, k, m, c, p, from)
      BY <3>3
    <3>5. BodyIs(b, k, m, c, p, from)
      BY <2>1, <2>3, <3>4, BodyAhead DEF A
    <3> QED
      BY <2>2, <3>5
  <2> QED
    BY <1>7, <1>9, <2>1, <2>2, <2>3, <2>4
<1>14. QED
  <2>1. CASE \E k \in {0, HEADER}, m \in OVERHEAD .. MAXLEN : BodyOutcome(d, c, b, from, k, m)
    <3>1. PICK k \in {0, HEADER}, m \in OVERHEAD .. MAXLEN : BodyOutcome(d, c, b, from, k, m)
      BY <2>1
    <3>2. /\ Known(c, b, from, k, m)
          /\ Waits(d, c, b, k, m) \/ Takes(d, c, b, k, m, from) \/ Refuses(d, c, b, k, m, from)
      BY <3>1 DEF BodyOutcome
    <3> QED
      BY <1>11, <1>12, <1>13, <3>2 DEF B
  <2> QED
    BY <1>8, <1>10, <2>1, Decoded

-----------------------------------------------------------------------------
\* The two ends.

\* Each is the other's peer.
LEMMA Ends ==
  /\ "client" \in Roles /\ "server" \in Roles
  /\ Peer("client") = "server" /\ Peer("server") = "client"
  /\ \A r \in Roles : Peer(r) \in Roles /\ Peer(r) # r /\ Peer(Peer(r)) = r
  /\ \A r, q \in Roles : q = r \/ q = Peer(r)
BY DEF Roles, Peer

\* What the type invariant says of one end.
LEMMA EndTyped ==
  ASSUME Typed, NEW r \in Roles
  PROVE  /\ codec[r] \in Codecs /\ wire[r] \in Seq(Bytes) /\ buf[r] \in Seq(Bytes)
         /\ shut[r] \in BOOLEAN /\ broken[r] \in BOOLEAN
         /\ framed[r] \in [readable : BOOLEAN, eof : BOOLEAN, errored : BOOLEAN]
         /\ sent[r] \in Seq(Packets) /\ delivered[r] \in Seq(Packets)
         /\ codec[r].txpos \in Nat /\ codec[r].rxpos \in Nat /\ codec[r].tx \in CodecKeys
         /\ Len(delivered[r]) \in Nat /\ Len(sent[r]) \in Nat /\ Len(sent[r]) <= MaxPackets
         /\ \A p \in 1 .. Len(sent[r]) : fits(sent[r][p])
  BY DEF Typed, Codecs

\* Nothing is connected at first.
LEMMA InitIInv == Init => IInv
<1> SUFFICES ASSUME Init PROVE IInv
  OBVIOUS
<1>1. NoCodec \in Codecs /\ NoCodec.rx = "none"
  <2>1. -1 \in KeptLengths
    BY Kept
  <2> QED
    BY <2>1 DEF NoCodec, Codecs, CodecKeys
<1>2. Typed
  <2>1. /\ <<>> \in Seq(Bytes) /\ <<>> \in Seq(Packets)
        /\ FramedNew \in [readable : BOOLEAN, eof : BOOLEAN, errored : BOOLEAN]
        /\ 0 \in 0 .. MaxFaults /\ MaxPackets \in Nat
    BY Sizes DEF FramedNew
  <2> QED
    BY <1>1, <2>1 DEF Init, Typed
<1>3. \A r \in Roles : ~Keyed(r) /\ codec[r] = NoCodec
  BY <1>1 DEF Init, Keyed
<1>4. KeysAgree
  <2>1. HANDSHAKE = 4
    BY DEF HANDSHAKE, HandshakeFields
  <2> QED
    BY <1>3, <2>1, Ends DEF Init, KeysAgree
<1>5. Directions
  BY <1>3 DEF Directions, Direction
<1>6. QED
  BY <1>2, <1>4, <1>5 DEF IInv

\* Both directions stand when nothing changes in them.
LEMMA StandStill == IInv /\ UNCHANGED vars => IInv'
<1> SUFFICES ASSUME IInv, UNCHANGED vars PROVE IInv'
  OBVIOUS
<1>1. Typed'
  BY DEF IInv, Typed, vars
<1>2. KeysAgree'
  BY DEF IInv, KeysAgree, Keyed, ClientKeys, ServerKeys, vars
<1>3. Directions'
  BY DEF IInv, Directions, Direction, Keyed, Ahead, Stuck, Ended, vars
<1>4. QED
  BY <1>1, <1>2, <1>3 DEF IInv

\* An end goes away (ConnectFails, ServerRefuses, HandshakeTimeout, Close).
LEMMA DropIInv ==
  ASSUME IInv, NEW r \in Roles, Drop(r),
         UNCHANGED <<codec, wire, buf, framed, sent, delivered, broken, faults>>
  PROVE  IInv'
<1>1. Typed'
  BY DEF IInv, Typed, Drop
<1>2. /\ phase \in [Roles -> {"new", "handshaking", "open", "closed"}]
      /\ shut \in [Roles -> BOOLEAN]
  BY DEF IInv, Typed
<1>3. /\ \A q \in Roles : phase'[q] = phase[q] \/ phase'[q] = "closed"
      /\ \A q \in Roles : shut[q] => shut'[q]
  BY <1>2 DEF Drop
<1>4. \A q \in Roles : Keyed(q)' = Keyed(q) /\ Ahead(q)' = Ahead(q)
  BY DEF Keyed, Ahead
<1>5. KeysAgree'
  <2>1. \A q \in Roles : (Keyed(q) \/ framed[q] = FramedNew)'
    BY DEF IInv, KeysAgree, Keyed
  <2>2. ("client" \in Roles /\ "server" \in Roles)
    BY Ends
  <2> QED
    BY <1>3, <2>1, <2>2 DEF IInv, KeysAgree, Keyed, ClientKeys, ServerKeys
<1>6. ASSUME NEW q \in Roles
      PROVE  Direction(q)'
  <2>1. SUFFICES ASSUME Keyed(q)
                 PROVE  /\ Stream(Ahead(q), codec[q], Len(delivered[q]), sent[Peer(q)],
                                  codec[Peer(q)].txpos, broken[q], shut'[Peer(q)], faults = 0,
                                  Stuck(q)')
                        /\ framed[q].eof => Ended(q)'
    BY <1>4 DEF Direction, Keyed
  <2>2. /\ Stream(Ahead(q), codec[q], Len(delivered[q]), sent[Peer(q)], codec[Peer(q)].txpos,
                  broken[q], shut[Peer(q)], faults = 0, Stuck(q))
        /\ framed[q].eof => Ended(q)
    BY <2>1 DEF IInv, Directions, Direction
  <2>3. (Ended(q) => Ended(q)') /\ (shut[Peer(q)] => shut'[Peer(q)])
    BY <1>3, Ends DEF Ended
  <2>4. Stuck(q) => Stuck(q)'
    BY <2>3 DEF Stuck
  <2> QED
    BY <2>2, <2>3, <2>4, StreamDown
<1>7. QED
  BY <1>1, <1>5, <1>6 DEF IInv, Directions

\* A stream with nothing in it.
LEMMA EmptyStream ==
  ASSUME NEW c \in Codecs, c.last_readed_length = -1, NEW down, NEW clean, NEW stuck
  PROVE  Stream(<<>>, c, 0, <<>>, c.rxpos, FALSE, down, clean, stuck)
<1>1. PICK x \in Nat : x = c.rxpos
  BY DEF Codecs
<1>2. Len(<<>>) = 0 /\ 1 .. 0 = {} /\ x + 0 = x /\ ~(0 > 0)
  BY EmptySeq
<1>3. Flows(<<>>, c, 0, <<>>)
  BY <1>2 DEF Flows, InStep, OfPackets, OnePiece, InOrder, Begins
<1>4. UpToDate(<<>>, c, 0, <<>>, c.rxpos)
  BY <1>1, <1>2 DEF UpToDate
<1>5. Intact(<<>>, c, <<>>)
  BY <1>2 DEF Intact
<1>6. QED
  BY <1>3, <1>4, <1>5 DEF Stream

\* The codecs of the two ends when they are made.
LEMMA FreshCodecs ==
  /\ client(AesParams) \in Codecs /\ client(AesParams).rx = "rx" /\ client(AesParams).tx = "tx"
  /\ client(AesParams).rxpos = 0 /\ client(AesParams).txpos = 0
  /\ client(AesParams).last_readed_length = -1
  /\ server(AesParams) \in Codecs /\ server(AesParams).rx = "tx" /\ server(AesParams).tx = "rx"
  /\ server(AesParams).rxpos = 0 /\ server(AesParams).txpos = 0
  /\ server(AesParams).last_readed_length = -1
  /\ NoCodec.rx = "none" /\ NoCodec.txpos = 0
<1>1. /\ client(AesParams) = [rx |-> "rx", tx |-> "tx", rxpos |-> 0, txpos |-> 0,
                              last_readed_length |-> -1]
      /\ server(AesParams) = [rx |-> "tx", tx |-> "rx", rxpos |-> 0, txpos |-> 0,
                              last_readed_length |-> -1]
  <2>1. AesParams.rx = "rx" /\ AesParams.tx = "tx"
    BY DEF AesParams
  <2>2. PICK m : m = -1
    OBVIOUS
  <2>3. NoCodec = [rx |-> "none", tx |-> "none", rxpos |-> 0, txpos |-> 0,
                   last_readed_length |-> m]
    BY <2>2 DEF NoCodec
  <2>4. /\ client(AesParams) = [NoCodec EXCEPT !.rx = "rx", !.tx = "tx"]
        /\ server(AesParams) = [NoCodec EXCEPT !.rx = "tx", !.tx = "rx"]
    BY <2>1 DEF client, server
  <2>5. /\ client(AesParams) = [rx |-> "rx", tx |-> "tx", rxpos |-> 0, txpos |-> 0,
                                last_readed_length |-> m]
        /\ server(AesParams) = [rx |-> "tx", tx |-> "rx", rxpos |-> 0, txpos |-> 0,
                                last_readed_length |-> m]
    BY <2>3, <2>4
  <2> QED
    BY <2>2, <2>5
<1>2. -1 \in KeptLengths
  BY Kept
<1>3. client(AesParams) \in Codecs /\ server(AesParams) \in Codecs
  BY <1>1, <1>2 DEF Codecs, CodecKeys
<1>4. QED
  BY <1>1, <1>3 DEF NoCodec

\* The client writes its handshake.
LEMMA HandshakeIInv ==
  ASSUME IInv, NEW key \in DialledKeys, ClientHandshakes(key)
  PROVE  IInv'
<1> USE Ends
<1>1. /\ ~Keyed("client") /\ ~Keyed("server") /\ codec["server"] = NoCodec
      /\ \A r \in Roles : /\ buf[r] = <<>> /\ sent[r] = <<>> /\ delivered[r] = <<>> /\ ~broken[r]
                          /\ framed[r] = FramedNew
      /\ wire["server"] = <<>> /\ phase["client"] = "new"
      /\ phase["server"] \in {"new", "closed"}
  BY DEF IInv, KeysAgree, ClientHandshakes
<1>2. HANDSHAKE = 4
  BY DEF HANDSHAKE, HandshakeFields
<1> DEFINE packet == [i \in 1 .. HANDSHAKE |-> [Byte(0, i) EXCEPT !.mask = {<<key, 0>>}]]
<1>3. packet \in Seq(Bytes) /\ Len(packet) = HANDSHAKE
  <2>1. {<<key, 0>>} \in Masks
    <3>1. <<key, 0>> \in KeyNames \X Nat
      BY DEF KeyNames
    <3>2. IsFiniteSet({<<key, 0>>})
      BY FS_Singleton
    <3> QED
      BY <3>1, <3>2 DEF Masks
  <2>2. 0 \in 0 .. MaxPackets
    BY Sizes
  <2>3. ASSUME NEW i \in 1 .. HANDSHAKE
        PROVE  [Byte(0, i) EXCEPT !.mask = {<<key, 0>>}] \in Bytes
    <3>1. i \in Nat
      BY <1>2
    <3>2. PICK m \in Masks : m = {<<key, 0>>}
      BY <2>1
    <3>3. {} \in Masks
      BY FS_EmptySet DEF Masks
    <3>4. PICK x \in Bytes : x = Byte(0, i)
      BY <2>2, <3>1, <3>3 DEF Bytes, Byte
    <3>5. [x EXCEPT !.mask = m] \in Bytes
      BY DEF Bytes
    <3> QED
      BY <3>2, <3>4, <3>5
  <2>4. packet \in [1 .. HANDSHAKE -> Bytes]
    BY <2>3
  <2>5. PICK h \in Nat : h = HANDSHAKE
    BY <1>2
  <2> HIDE DEF packet
  <2> QED
    BY <2>4, <2>5
<1>4. /\ wire' = [wire EXCEPT !["client"] = packet]
      /\ codec' = [codec EXCEPT !["client"] = client(AesParams)]
      /\ phase' = [phase EXCEPT !["client"] = "handshaking"]
      /\ UNCHANGED <<shut, buf, framed, sent, delivered, broken, faults>>
  BY DEF ClientHandshakes
<1> HIDE DEF packet
<1>5. Typed'
  BY <1>3, <1>4, FreshCodecs DEF IInv, Typed
<1>6. /\ codec'["client"] = client(AesParams) /\ codec'["server"] = NoCodec
      /\ wire'["client"] = packet /\ wire'["server"] = <<>>
      /\ phase'["client"] = "handshaking" /\ phase'["server"] = phase["server"]
  BY <1>1, <1>4 DEF IInv, Typed
<1>7. Keyed("client")' /\ ~Keyed("server")' /\ ClientKeys'
  BY <1>6, FreshCodecs DEF Keyed, ClientKeys
<1>8. KeysAgree'
  <2>1. Len(wire'["client"]) <= HANDSHAKE
    BY <1>2, <1>3, <1>6
  <2> QED
    BY <1>1, <1>4, <1>6, <1>7, <2>1 DEF KeysAgree
<1>9. Direction("client")'
  <2>1. /\ Ahead("client")' = <<>> /\ delivered'["client"] = <<>> /\ sent'["server"] = <<>>
        /\ broken'["client"] = FALSE /\ framed'["client"].eof = FALSE
    BY <1>1, <1>4, <1>6 DEF Ahead, FramedNew, IInv, Typed
  <2>2. codec'["server"].txpos = codec'["client"].rxpos /\ Len(<<>>) = 0
    BY <1>6, FreshCodecs
  <2>3. Stream(<<>>, codec'["client"], 0, <<>>, codec'["client"].rxpos, FALSE, shut'["server"],
               faults' = 0, Stuck("client")')
    BY <1>6, FreshCodecs, EmptyStream
  <2> QED
    BY <2>1, <2>2, <2>3 DEF Direction
<1>10. Direction("server")'
  BY <1>7 DEF Direction
<1>11. QED
  BY <1>5, <1>8, <1>9, <1>10 DEF IInv, Directions, Roles

\* A byte under way from r is damaged, or the connection is cut.
LEMMA HurtIInv ==
  ASSUME IInv, NEW r \in Roles, faults' \in 1 .. MaxFaults,
         UNCHANGED <<phase, codec, buf, framed, sent, delivered, broken>>,
         wire' \in [Roles -> Seq(Bytes)], shut' \in [Roles -> BOOLEAN],
         wire'[Peer(r)] = wire[Peer(r)], shut'[Peer(r)] = shut[Peer(r)], shut[r] => shut'[r],
         Hurt(wire'[r], wire[r]), ~shut'[r] => Len(wire'[r]) = Len(wire[r])
  PROVE  IInv'
<1>1. Typed'
  <2>1. faults' \in 0 .. MaxFaults
    BY Sizes
  <2> QED
    BY <2>1 DEF IInv, Typed
<1>2. ASSUME NEW q \in Roles
      PROVE  /\ wire[q] \in Seq(Bytes) /\ wire'[q] \in Seq(Bytes)
             /\ Len(wire[q]) \in Nat /\ Len(wire'[q]) \in Nat /\ Len(wire'[q]) <= Len(wire[q])
             /\ ~shut'[q] => ~shut[q] /\ Len(wire'[q]) = Len(wire[q])
             /\ shut[q] => shut'[q]
             /\ Hurt(wire'[q], wire[q])
  <2>1. wire[q] \in Seq(Bytes) /\ wire'[q] \in Seq(Bytes)
    BY DEF IInv, Typed
  <2>2. Len(wire[q]) \in Nat /\ Len(wire'[q]) \in Nat
    BY <2>1
  <2>3. CASE q = r
    BY <2>1, <2>2, <2>3 DEF Hurt
  <2>4. CASE q = Peer(r)
    BY <2>1, <2>2, <2>4 DEF Hurt
  <2> QED
    BY <2>3, <2>4, Ends
<1>3. ASSUME NEW q \in Roles, wire[q] = <<>>
      PROVE  wire'[q] = <<>>
  <2>1. Len(wire'[q]) = 0
    BY <1>2, <1>3
  <2> QED
    BY <1>2, <2>1, EmptySeq
<1>4. \A q \in Roles : Keyed(q)' = Keyed(q)
  BY DEF Keyed
<1>5. KeysAgree'
  <2>1. \A q \in Roles : (Keyed(q) \/ framed[q] = FramedNew)'
    BY DEF IInv, KeysAgree, Keyed
  <2>2. Len(wire["client"]) <= HANDSHAKE => Len(wire'["client"]) <= HANDSHAKE
    BY <1>2, Ends DEF HANDSHAKE, HandshakeFields
  <2>3. /\ wire["client"] = <<>> => wire'["client"] = <<>>
        /\ wire["server"] = <<>> => wire'["server"] = <<>>
    BY <1>3, Ends
  <2> QED
    BY <2>1, <2>2, <2>3, Ends DEF IInv, KeysAgree, Keyed, ClientKeys, ServerKeys
<1>6. ASSUME NEW q \in Roles
      PROVE  Direction(q)'
  <2>0. Peer(q) \in Roles
    BY Ends
  <2>1. ~(faults = 0)'
    OBVIOUS
  <2>2. SUFFICES ASSUME Keyed(q)
                 PROVE  /\ Stream(Ahead(q)', codec[q], Len(delivered[q]), sent[Peer(q)],
                                  codec[Peer(q)].txpos, broken[q], shut'[Peer(q)],
                                  (faults = 0)', Stuck(q)')
                        /\ framed[q].eof => Ended(q)'
    BY <1>4, <2>1 DEF Direction
  <2>3. /\ Stream(Ahead(q), codec[q], Len(delivered[q]), sent[Peer(q)], codec[Peer(q)].txpos,
                  broken[q], shut[Peer(q)], faults = 0, Stuck(q))
        /\ framed[q].eof => Ended(q)
    BY <2>2 DEF IInv, Directions, Direction
  <2>4. Ended(q) => Ended(q)'
    BY <1>2, <1>3, <2>0 DEF Ended
  <2>5. Stuck(q) => Stuck(q)'
    BY <2>4 DEF Stuck
  <2>6. buf[q] \in Seq(Bytes) /\ sent[Peer(q)] \in Seq(Packets)
    BY <2>0, EndTyped DEF IInv
  <2>7. Ahead(q) = buf[q] \o wire[Peer(q)] /\ Ahead(q)' = buf[q] \o wire'[Peer(q)]
    BY DEF Ahead
  <2>8. /\ buf[q] \o wire[Peer(q)] \in Seq(Bytes) /\ buf[q] \o wire'[Peer(q)] \in Seq(Bytes)
        /\ Hurt(buf[q] \o wire'[Peer(q)], buf[q] \o wire[Peer(q)])
        /\ Len(wire'[Peer(q)]) = Len(wire[Peer(q)]) =>
             Len(buf[q] \o wire'[Peer(q)]) = Len(buf[q] \o wire[Peer(q)])
    BY <1>2, <2>0, <2>6, WireHurt
  <2>9. Stream(Ahead(q)', codec[q], Len(delivered[q]), sent[Peer(q)],
               codec[Peer(q)].txpos, broken[q], shut'[Peer(q)], (faults = 0)', Stuck(q)')
    <3>1. /\ ~shut'[Peer(q)] => ~shut[Peer(q)] /\ Len(Ahead(q)') = Len(Ahead(q))
          /\ shut'[Peer(q)] \in BOOLEAN
      BY <1>2, <2>0, <2>7, <2>8
    <3>2. Ahead(q) \in Seq(Bytes) /\ Ahead(q)' \in Seq(Bytes) /\ Hurt(Ahead(q)', Ahead(q))
      BY <2>7, <2>8
    <3>3. PICK X \in Seq(Bytes), dn \in BOOLEAN, st \in BOOLEAN, no \in BOOLEAN :
            X = Ahead(q)' /\ dn = shut'[Peer(q)] /\ st = Stuck(q)' /\ no = (faults = 0)'
      BY <3>1, <3>2 DEF Stuck, Ended
    <3>4. PICK A \in Seq(Bytes), up \in BOOLEAN, at \in BOOLEAN, cl \in BOOLEAN :
            /\ A = Ahead(q) /\ up = shut[Peer(q)] /\ at = Stuck(q) /\ cl = (faults = 0)
      BY <2>0, <3>2, EndTyped DEF IInv, Stuck, Ended
    <3>5. /\ Stream(A, codec[q], Len(delivered[q]), sent[Peer(q)], codec[Peer(q)].txpos,
                    broken[q], up, cl, at)
          /\ at => st
      BY <2>3, <2>5, <3>3, <3>4
    <3>6. (~dn => ~up) /\ (~dn => Len(X) = Len(A)) /\ Hurt(X, A) /\ ~no
      BY <2>1, <3>1, <3>2, <3>3, <3>4
    <3>7. Stream(X, codec[q], Len(delivered[q]), sent[Peer(q)], codec[Peer(q)].txpos,
                 broken[q], dn, no, st)
      BY <2>6, <3>5, <3>6, StreamHurt
    <3> QED
      BY <3>3, <3>7
  <2> QED
    BY <2>3, <2>4, <2>9
<1>7. QED
  BY <1>1, <1>5, <1>6 DEF IInv, Directions

\* DamageByte damages a byte.
LEMMA DamageIInv ==
  ASSUME IInv, NEW r \in Roles, DamageByte(r)
  PROVE  IInv'
<1>1. PICK i \in 1 .. Len(wire[r]) : wire' = [wire EXCEPT ![r][i].bad = TRUE]
  BY DEF DamageByte
<1>2. /\ wire \in [Roles -> Seq(Bytes)] /\ wire[r] \in Seq(Bytes) /\ Len(wire[r]) \in Nat
      /\ wire[r][i] \in Bytes /\ shut \in [Roles -> BOOLEAN] /\ faults \in 0 .. MaxFaults
  BY DEF IInv, Typed
<1>3. PICK x : x = [wire[r][i] EXCEPT !.bad = TRUE]
  OBVIOUS
<1>4. /\ x \in Bytes /\ x.pkt = wire[r][i].pkt /\ x.off = wire[r][i].off
      /\ x.mask = wire[r][i].mask
  BY <1>2, <1>3 DEF Bytes
<1>5. PICK w : w = [wire[r] EXCEPT ![i] = x]
  OBVIOUS
<1>6. /\ w \in Seq(Bytes) /\ Len(w) = Len(wire[r])
      /\ \A j \in 1 .. Len(wire[r]) : w[j] = IF j = i THEN x ELSE wire[r][j]
  BY <1>2, <1>4, <1>5
<1>7. wire' = [wire EXCEPT ![r] = w]
  BY <1>1, <1>3, <1>5
<1>8. /\ wire' \in [Roles -> Seq(Bytes)] /\ wire'[r] = w /\ wire'[Peer(r)] = wire[Peer(r)]
  BY <1>2, <1>6, <1>7, Ends
<1>9. Hurt(wire'[r], wire[r]) /\ Len(wire'[r]) = Len(wire[r])
  BY <1>2, <1>4, <1>6, <1>8 DEF Hurt
<1>10. /\ faults' \in 1 .. MaxFaults
       /\ UNCHANGED <<phase, codec, buf, framed, sent, delivered, broken, shut>>
  BY <1>2, Sizes DEF DamageByte
<1>11. QED
  BY <1>2, <1>8, <1>9, <1>10, HurtIInv

\* Cut loses the end of what is under way.
LEMMA CutIInv ==
  ASSUME IInv, NEW r \in Roles, Cut(r)
  PROVE  IInv'
<1>1. PICK n \in 0 .. Len(wire[r]) : wire' = [wire EXCEPT ![r] = SubSeq(wire[r], 1, n)]
  BY DEF Cut
<1>2. /\ wire \in [Roles -> Seq(Bytes)] /\ wire[r] \in Seq(Bytes) /\ Len(wire[r]) \in Nat
      /\ shut \in [Roles -> BOOLEAN] /\ faults \in 0 .. MaxFaults
  BY DEF IInv, Typed
<1>3. PICK w : w = SubSeq(wire[r], 1, n)
  OBVIOUS
<1>4. w \in Seq(Bytes) /\ Len(w) = n /\ \A i \in 1 .. n : w[i] = wire[r][i]
  <2>1. \A i \in 1 .. n : wire[r][i] \in Bytes
    BY <1>2
  <2>2. /\ SubSeq(wire[r], 1, n) \in Seq(Bytes)
        /\ Len(SubSeq(wire[r], 1, n)) = IF 1 <= n THEN n - 1 + 1 ELSE 0
        /\ \A i \in 1 .. n - 1 + 1 : SubSeq(wire[r], 1, n)[i] = wire[r][1 + i - 1]
    BY <1>2, <2>1, SubSeqProperties
  <2>3. n \in Nat /\ n - 1 + 1 = n /\ (IF 1 <= n THEN n - 1 + 1 ELSE 0) = n
    BY <1>2
  <2>4. \A i \in 1 .. n : 1 + i - 1 = i
    OBVIOUS
  <2> QED
    BY <1>3, <2>2, <2>3, <2>4
<1>5. wire' = [wire EXCEPT ![r] = w]
  BY <1>1, <1>3
<1>6. wire' \in [Roles -> Seq(Bytes)] /\ wire'[r] = w /\ wire'[Peer(r)] = wire[Peer(r)]
  BY <1>2, <1>4, <1>5, Ends
<1>7. Hurt(wire'[r], wire[r])
  BY <1>2, <1>4, <1>6 DEF Hurt
<1>8. /\ shut' \in [Roles -> BOOLEAN] /\ shut'[r] /\ shut'[Peer(r)] = shut[Peer(r)]
  BY <1>2, Ends DEF Cut
<1>9. /\ faults' \in 1 .. MaxFaults
      /\ UNCHANGED <<phase, codec, buf, framed, sent, delivered, broken>>
  BY <1>2, Sizes DEF Cut
<1>10. QED
  BY <1>6, <1>7, <1>8, <1>9, HurtIInv

\* An end that reads has the keys.
LEMMA Readers ==
  ASSUME IInv, NEW r \in Roles, Reading(r)
  PROVE  Keyed(r)
BY DEF IInv, KeysAgree, Reading, Roles

\* The Framed of r changes while the stream stays as it is.
LEMMA FramedIInv ==
  ASSUME IInv, NEW r \in Roles, Keyed(r),
         UNCHANGED <<phase, codec, shut, sent, delivered, broken, faults>>,
         wire' \in [Roles -> Seq(Bytes)], buf' \in [Roles -> Seq(Bytes)],
         framed' \in [Roles -> [readable : BOOLEAN, eof : BOOLEAN, errored : BOOLEAN]],
         framed'[Peer(r)] = framed[Peer(r)], buf'[Peer(r)] = buf[Peer(r)], wire'[r] = wire[r],
         Ahead(r)' = Ahead(r), wire[Peer(r)] = <<>> => UNCHANGED <<wire, buf>>,
         Stuck(r) => Stuck(r)', framed'[r].eof => Ended(r)'
  PROVE  IInv'
<1>1. Typed'
  BY DEF IInv, Typed
<1>2. \A q \in Roles : Keyed(q)' = Keyed(q)
  BY DEF Keyed
<1>3. KeysAgree'
  <2>1. ASSUME NEW q \in Roles
        PROVE  Keyed(q) \/ framed'[q] = FramedNew
    <3>1. q = r \/ q = Peer(r)
      BY Ends
    <3> QED
      BY <3>1 DEF IInv, KeysAgree
  <2>2. CASE Keyed("server")
    <3>1. Keyed("client")
      BY <2>2 DEF IInv, KeysAgree
    <3> QED
      BY <1>2, <2>1, <2>2, <3>1, Ends DEF IInv, KeysAgree, ClientKeys, ServerKeys
  <2>3. CASE ~Keyed("server")
    <3>1. r = "client" /\ wire["server"] = <<>> /\ Peer(r) = "server"
      BY <2>3, Ends DEF IInv, KeysAgree, Roles
    <3>2. UNCHANGED <<wire, buf>>
      BY <3>1
    <3> QED
      BY <1>2, <2>1, <3>2, Ends DEF IInv, KeysAgree, ClientKeys, ServerKeys
  <2> QED
    BY <2>2, <2>3
<1>4. Direction(r)'
  <2>1. Stream(Ahead(r), codec[r], Len(delivered[r]), sent[Peer(r)], codec[Peer(r)].txpos,
               broken[r], shut[Peer(r)], faults = 0, Stuck(r))
    BY DEF IInv, Directions, Direction
  <2>2. Stream(Ahead(r), codec[r], Len(delivered[r]), sent[Peer(r)], codec[Peer(r)].txpos,
               broken[r], shut[Peer(r)], faults = 0, Stuck(r)')
    BY <2>1, StreamDown
  <2> QED
    BY <2>2 DEF Direction
<1>5. Direction(Peer(r))'
  <2> DEFINE q == Peer(r)
  <2>1. Ahead(q)' = Ahead(q) /\ Ended(q)' = Ended(q)
    BY Ends DEF Ahead, Ended
  <2>2. Stuck(q)' = Stuck(q)
    BY <2>1 DEF Stuck
  <2>3. Direction(q)
    BY Ends DEF IInv, Directions
  <2> QED
    BY <1>2, <2>1, <2>2, <2>3, Ends DEF Direction
<1>6. QED
  BY <1>1, <1>3, <1>4, <1>5, Ends DEF IInv, Directions

\* A sequence is its two parts.
LEMMA TwoParts ==
  ASSUME NEW w \in Seq(Bytes), NEW n \in 0 .. Len(w)
  PROVE  /\ SubSeq(w, 1, n) \in Seq(Bytes) /\ SubSeq(w, n + 1, Len(w)) \in Seq(Bytes)
         /\ SubSeq(w, 1, n) \o SubSeq(w, n + 1, Len(w)) = w
<1>1. Len(w) \in Nat /\ n \in Nat /\ n <= Len(w) /\ \A i \in 1 .. Len(w) : w[i] \in Bytes
  OBVIOUS
<1>2. PICK x : x = SubSeq(w, 1, n)
  OBVIOUS
<1>3. PICK y : y = SubSeq(w, n + 1, Len(w))
  OBVIOUS
<1>4. x \in Seq(Bytes) /\ Len(x) = n /\ \A i \in 1 .. n : x[i] = w[i]
  <2>1. \A i \in 1 .. n : w[i] \in Bytes
    BY <1>1
  <2>2. /\ SubSeq(w, 1, n) \in Seq(Bytes)
        /\ Len(SubSeq(w, 1, n)) = IF 1 <= n THEN n - 1 + 1 ELSE 0
        /\ \A i \in 1 .. n - 1 + 1 : SubSeq(w, 1, n)[i] = w[1 + i - 1]
    BY <1>1, <2>1, SubSeqProperties
  <2>3. n - 1 + 1 = n /\ (IF 1 <= n THEN n - 1 + 1 ELSE 0) = n /\ \A i \in 1 .. n : 1 + i - 1 = i
    BY <1>1
  <2> QED
    BY <1>2, <2>2, <2>3
<1>5. y \in Seq(Bytes) /\ Left(y, w, n)
  BY <1>1, <1>3, BufferLeft
<1>6. Len(y) = Len(w) - n /\ \A i \in 1 .. Len(y) : y[i] = w[n + i]
  BY <1>5 DEF Left
<1>7. /\ x \o y \in Seq(Bytes) /\ Len(x \o y) = Len(w)
      /\ \A i \in 1 .. Len(x) : (x \o y)[i] = x[i]
      /\ \A i \in 1 .. Len(y) : (x \o y)[Len(x) + i] = y[i]
  BY <1>1, <1>4, <1>5, <1>6, Joined
<1>8. ASSUME NEW i \in 1 .. Len(w)
      PROVE  (x \o y)[i] = w[i]
  <2>1. CASE i \in 1 .. n
    BY <1>4, <1>7, <2>1
  <2>2. ASSUME NEW j \in 1 .. Len(y), i = n + j
        PROVE  (x \o y)[i] = w[i]
    BY <1>4, <1>6, <1>7, <2>2
  <2>3. i \in 1 .. n \/ (i - n \in 1 .. Len(y) /\ i = n + (i - n))
    BY <1>1, <1>6
  <2> QED
    BY <2>1, <2>2, <2>3
<1>9. x \o y = w
  BY <1>7, <1>8, SeqEqual
<1>10. QED
  BY <1>2, <1>3, <1>4, <1>5, <1>9

\* Bytes that are read move from the stream to the buffer.
LEMMA Regrouped ==
  ASSUME NEW b \in Seq(Bytes), NEW x \in Seq(Bytes), NEW y \in Seq(Bytes),
         NEW p, NEW q, p = b \o x, q = x \o y
  PROVE  p \o y = b \o q
<1>1. p \in Seq(Bytes) /\ q \in Seq(Bytes)
  BY Joined
<1>2. /\ Len(b) \in Nat /\ Len(x) \in Nat /\ Len(y) \in Nat
      /\ Len(p) = Len(b) + Len(x) /\ Len(q) = Len(x) + Len(y)
      /\ p \o y \in Seq(Bytes) /\ Len(p \o y) = Len(p) + Len(y)
      /\ b \o q \in Seq(Bytes) /\ Len(b \o q) = Len(b) + Len(q)
  BY <1>1, Joined
<1>3. ASSUME NEW i \in 1 .. Len(p \o y)
      PROVE  (p \o y)[i] = (b \o q)[i]
  BY <1>1, <1>2
<1>4. PICK u \in Seq(Bytes), v \in Seq(Bytes) : u = p \o y /\ v = b \o q
  BY <1>2
<1>5. Len(u) = Len(v)
  BY <1>2, <1>4
<1>6. \A i \in 1 .. Len(u) : u[i] = v[i]
  BY <1>3, <1>4
<1>7. u = v
  BY <1>5, <1>6, SeqEqual
<1>8. QED
  BY <1>4, <1>7

\* Framed reads a part of what is under way.
LEMMA ReadIInv ==
  ASSUME IInv, NEW r \in Roles, NEW n, ReadSome(r, n)
  PROVE  IInv'
<1>1. Keyed(r)
  BY Readers DEF ReadSome
<1>2. /\ wire \in [Roles -> Seq(Bytes)] /\ buf \in [Roles -> Seq(Bytes)]
      /\ framed \in [Roles -> [readable : BOOLEAN, eof : BOOLEAN, errored : BOOLEAN]]
      /\ Peer(r) \in Roles /\ Peer(r) # r
  BY Ends DEF IInv, Typed
<1>3. PICK w \in Seq(Bytes), b \in Seq(Bytes) : w = wire[Peer(r)] /\ b = buf[r]
  BY <1>2
<1>4. PICK k \in 1 .. Len(w) : k = n
  BY <1>3 DEF ReadSome
<1>5. k \in 0 .. Len(w) /\ Len(w) # 0
  BY <1>3, <1>4
<1>6. PICK x \in Seq(Bytes), y \in Seq(Bytes) :
        x = SubSeq(w, 1, k) /\ y = SubSeq(w, k + 1, Len(w)) /\ x \o y = w
  BY <1>5, TwoParts
<1>7. /\ buf' = [buf EXCEPT ![r] = b \o x] /\ wire' = [wire EXCEPT ![Peer(r)] = y]
      /\ framed' = [framed EXCEPT ![r].readable = TRUE, ![r].eof = FALSE]
      /\ UNCHANGED <<phase, codec, shut, sent, delivered, broken, faults>>
  BY <1>3, <1>4, <1>6 DEF ReadSome
<1>8. b \o x \in Seq(Bytes)
  BY <1>6, Joined
<1>9. /\ buf' \in [Roles -> Seq(Bytes)] /\ wire' \in [Roles -> Seq(Bytes)]
      /\ buf'[r] = b \o x /\ wire'[Peer(r)] = y
      /\ buf'[Peer(r)] = buf[Peer(r)] /\ wire'[r] = wire[r]
  BY <1>2, <1>6, <1>7, <1>8
<1>10. /\ framed' \in [Roles -> [readable : BOOLEAN, eof : BOOLEAN, errored : BOOLEAN]]
       /\ framed'[Peer(r)] = framed[Peer(r)] /\ framed'[r].eof = FALSE
  BY <1>2, <1>7
<1>11. Ahead(r)' = Ahead(r)
  <2>1. PICK u : u = b \o x
    OBVIOUS
  <2>2. u \o y = b \o w
    <3>1. w = x \o y
      BY <1>6
    <3> QED
      BY <2>1, <3>1, Regrouped
  <2> QED
    BY <1>3, <1>9, <2>1, <2>2 DEF Ahead
<1>12. wire[Peer(r)] # <<>>
  BY <1>3, <1>5
<1>13. ~Stuck(r) /\ ~framed'[r].eof
  BY <1>10, <1>12 DEF Stuck, Ended
<1>14. QED
  BY <1>1, <1>7, <1>9, <1>10, <1>11, <1>12, <1>13, FramedIInv

\* Framed reads the end of the stream.
LEMMA EofIInv ==
  ASSUME IInv, NEW r \in Roles, ReadEof(r)
  PROVE  IInv'
<1>1. Keyed(r)
  BY Readers DEF ReadEof
<1>2. /\ framed' \in [Roles -> [readable : BOOLEAN, eof : BOOLEAN, errored : BOOLEAN]]
      /\ framed'[Peer(r)] = framed[Peer(r)]
  <2>1. framed \in [Roles -> [readable : BOOLEAN, eof : BOOLEAN, errored : BOOLEAN]]
    BY DEF IInv, Typed
  <2>2. framed' = [framed EXCEPT ![r].readable = TRUE, ![r].eof = TRUE]
    BY DEF ReadEof
  <2>3. Peer(r) \in Roles /\ Peer(r) # r
    BY Ends
  <2> QED
    BY <2>1, <2>2, <2>3
<1>3. /\ UNCHANGED <<phase, codec, wire, shut, buf, sent, delivered, broken, faults>>
      /\ Ended(r)' /\ ~Stuck(r) /\ Ahead(r)' = Ahead(r)
      /\ wire' \in [Roles -> Seq(Bytes)] /\ buf' \in [Roles -> Seq(Bytes)]
  BY DEF IInv, Typed, ReadEof, Ended, Stuck, Ahead
<1>4. QED
  BY <1>1, <1>2, <1>3, FramedIInv

\* The poll after an error.
LEMMA AfterErrorIInv ==
  ASSUME IInv, NEW r \in Roles, AfterError(r)
  PROVE  IInv'
<1>1. Keyed(r)
  BY Readers DEF AfterError
<1>2. /\ framed' \in [Roles -> [readable : BOOLEAN, eof : BOOLEAN, errored : BOOLEAN]]
      /\ framed'[Peer(r)] = framed[Peer(r)]
      /\ framed'[r].eof = framed[r].eof /\ framed'[r].readable = FALSE
  <2>1. framed \in [Roles -> [readable : BOOLEAN, eof : BOOLEAN, errored : BOOLEAN]]
    BY DEF IInv, Typed
  <2>2. framed' = [framed EXCEPT ![r].readable = FALSE, ![r].errored = FALSE]
    BY DEF AfterError
  <2>3. Peer(r) \in Roles /\ Peer(r) # r
    BY Ends
  <2> QED
    BY <2>1, <2>2, <2>3
<1>3. /\ UNCHANGED <<phase, codec, wire, shut, buf, sent, delivered, broken, faults>>
      /\ Ended(r)' = Ended(r) /\ Ahead(r)' = Ahead(r)
      /\ wire' \in [Roles -> Seq(Bytes)] /\ buf' \in [Roles -> Seq(Bytes)]
  BY DEF IInv, Typed, AfterError, Ended, Ahead
<1>4. Stuck(r) => Stuck(r)'
  BY <1>2, <1>3 DEF Stuck
<1>5. framed[r].eof => Ended(r)
  BY <1>1 DEF IInv, Directions, Direction
<1>6. QED
  BY <1>1, <1>2, <1>3, <1>4, <1>5, FramedIInv

\* A stream knows of its codec only the receiving side.
LEMMA StreamAside ==
  ASSUME NEW A, NEW c, NEW e, e.rx = c.rx, e.rxpos = c.rxpos,
         e.last_readed_length = c.last_readed_length,
         NEW n, NEW from, NEW tx, NEW brk, NEW down, NEW clean, NEW stuck,
         Stream(A, c, n, from, tx, brk, down, clean, stuck)
  PROVE  Stream(A, e, n, from, tx, brk, down, clean, stuck)
BY DEF Stream, Flows, InStep, Begins, UpToDate, Intact, Past, PastAll

\* End r writes packet p with the codec e: what the other end has before it.
LEMMA SentDirection ==
  ASSUME IInv, NEW r \in Roles, NEW p \in Packets, p.id = Len(sent[r]) + 1,
         NEW e \in Codecs, e.tx = codec[Peer(r)].rx, e.txpos = codec[r].txpos,
         Keyed(Peer(r)),
         wire'[r] = Written(r, encode(e, p).bytes), codec'[r] = encode(e, p).codec,
         codec'[Peer(r)] = codec[Peer(r)], sent'[r] = Append(sent[r], p),
         UNCHANGED <<shut, buf, framed, delivered, broken, faults>>
  PROVE  Direction(Peer(r))' /\ wire'[r] \in Seq(Bytes)
<1>1. PICK q \in Roles : q = Peer(r) /\ Peer(q) = r
  BY Ends
<1>2. PICK E : E = encode(e, p).bytes
  OBVIOUS
<1>3. IsEncoded(E, p, e.tx, e.txpos) /\ codec'[r].txpos = e.txpos + Total(p)
  BY <1>2, Encoded
<1>4. E \in Seq(Bytes)
  BY <1>3 DEF IsEncoded
<1>5. /\ codec[q] \in Codecs /\ wire[r] \in Seq(Bytes) /\ buf[q] \in Seq(Bytes)
      /\ sent[r] \in Seq(Packets) /\ shut[r] \in BOOLEAN /\ codec[r].txpos \in Nat
  BY EndTyped DEF IInv
<1>6. PICK w \in Seq(Bytes), b \in Seq(Bytes) : w = wire[r] /\ b = buf[q]
  BY <1>5
<1>7. PICK A \in Seq(Bytes) : A = b \o w
  BY Joined
<1>8. PICK down \in BOOLEAN, stuck \in BOOLEAN : down = shut[r] /\ stuck = Stuck(q)
  BY <1>5 DEF Stuck
<1>9. PICK c \in Codecs, from \in Seq(Packets), tx \in Nat :
        c = codec[q] /\ from = sent[r] /\ tx = codec[r].txpos
  BY <1>5
<1>10. PICK n, brk, clean : n = Len(delivered[q]) /\ brk = broken[q] /\ clean = (faults = 0)
  OBVIOUS
<1>11. Direction(q) /\ Keyed(q) /\ Ahead(q) = A
  BY <1>1, <1>6, <1>7 DEF IInv, Directions, Ahead
<1>12. Stream(A, c, n, from, tx, brk, down, clean, stuck) /\ (framed[q].eof => Ended(q))
  BY <1>1, <1>8, <1>9, <1>10, <1>11 DEF Direction
<1>13. stuck => down
  BY <1>1, <1>8 DEF Stuck, Ended
<1>14. p.id = Len(from) + 1 /\ IsEncoded(E, p, c.rx, tx)
  BY <1>1, <1>3, <1>9
<1>15. Stream(IF down THEN A ELSE A \o E, c, n, Append(from, p), tx + Total(p),
              brk, down, clean, stuck)
  BY <1>4, <1>12, <1>13, <1>14, StreamSent
<1>16. wire'[r] = IF down THEN w ELSE w \o E
  BY <1>2, <1>6, <1>8 DEF Written
<1>17. Ahead(q)' = IF down THEN A ELSE A \o E
  <2>1. CASE down
    BY <1>1, <1>6, <1>7, <1>16, <2>1 DEF Ahead
  <2>2. CASE ~down
    <3>1. PICK v : v = w \o E
      OBVIOUS
    <3>2. A \o E = b \o v
      BY <1>4, <1>7, <3>1, Regrouped
    <3>3. wire'[r] = v /\ buf'[q] = b
      BY <1>6, <1>16, <2>2, <3>1
    <3> QED
      BY <1>1, <2>2, <3>2, <3>3 DEF Ahead
  <2> QED
    BY <2>1, <2>2
<1>18. Ended(q)' = Ended(q)
  BY <1>1, <1>6, <1>8, <1>16 DEF Ended
<1>19. Stuck(q)' = stuck
  BY <1>8, <1>18 DEF Stuck
<1>20. /\ codec'[q] = c /\ sent'[r] = Append(from, p) /\ codec'[r].txpos = tx + Total(p)
       /\ shut'[r] = down /\ Len(delivered'[q]) = n /\ broken'[q] = brk /\ (faults' = 0) = clean
  BY <1>1, <1>3, <1>8, <1>9, <1>10
<1>21. framed'[q].eof => Ended(q)'
  BY <1>12, <1>18
<1>22. Direction(q)'
  BY <1>1, <1>15, <1>17, <1>19, <1>20, <1>21 DEF Direction
<1>23. wire'[r] \in Seq(Bytes)
  BY <1>4, <1>16, Joined
<1>24. QED
  BY <1>1, <1>22, <1>23

\* An end of an open connection writes a packet.
LEMMA SendIInv ==
  ASSUME IInv, NEW r \in Roles, NEW len \in PayloadSizes, Send(r, len)
  PROVE  IInv'
<1> DEFINE p == [id |-> Len(sent[r]) + 1, len |-> len]
<1>1. PICK q \in Roles : q = Peer(r) /\ Peer(q) = r /\ q # r
  BY Ends
<1>2. /\ phase[r] = "open" /\ Len(sent[r]) < MaxPackets /\ fits(p)
      /\ wire' = [wire EXCEPT ![r] = Written(r, encode(codec[r], p).bytes)]
      /\ codec' = [codec EXCEPT ![r] = encode(codec[r], p).codec]
      /\ sent' = [sent EXCEPT ![r] = Append(sent[r], p)]
      /\ UNCHANGED <<phase, shut, buf, framed, delivered, broken, faults>>
  BY DEF Send
<1>3. p \in Packets /\ p.id = Len(sent[r]) + 1
  <2>1. Len(sent[r]) \in Nat
    BY EndTyped DEF IInv
  <2> QED
    BY <1>2, <2>1, Sizes DEF Packets
<1> HIDE DEF p
<1>4. /\ wire \in [Roles -> Seq(Bytes)] /\ codec \in [Roles -> Codecs]
      /\ sent \in [Roles -> Seq(Packets)] /\ codec[r] \in Codecs
  BY DEF IInv, Typed
<1>5. /\ Keyed("client") /\ Keyed("server") /\ ClientKeys /\ ServerKeys
  BY <1>2, Ends DEF IInv, KeysAgree, Roles
<1>6. Keyed(r) /\ Keyed(q) /\ codec[r].tx = codec[q].rx
  BY <1>1, <1>5 DEF ClientKeys, ServerKeys, Roles, Peer
<1>7. /\ wire'[r] = Written(r, encode(codec[r], p).bytes)
      /\ codec'[r] = encode(codec[r], p).codec
      /\ sent'[r] = Append(sent[r], p)
      /\ wire'[q] = wire[q] /\ codec'[q] = codec[q] /\ sent'[q] = sent[q]
  BY <1>1, <1>2, <1>4
<1>8. Direction(q)' /\ wire'[r] \in Seq(Bytes)
  BY <1>1, <1>2, <1>3, <1>4, <1>6, <1>7, SentDirection
<1>9. PICK e : e = codec'[r]
  OBVIOUS
<1>10. /\ e \in Codecs /\ e.rx = codec[r].rx /\ e.tx = codec[r].tx
       /\ e.rxpos = codec[r].rxpos /\ e.last_readed_length = codec[r].last_readed_length
  BY <1>3, <1>4, <1>7, <1>9, Encoded
<1>11. Typed'
  <2>1. PICK w \in Seq(Bytes) : w = wire'[r]
    BY <1>8
  <2>2. PICK s \in Seq(Packets) : s = sent[r]
    BY <1>4
  <2>3. wire' = [wire EXCEPT ![r] = w] /\ codec' = [codec EXCEPT ![r] = e]
    BY <1>2, <1>7, <1>9, <2>1
  <2>4. /\ Append(s, p) \in Seq(Packets) /\ Len(Append(s, p)) = Len(s) + 1
        /\ \A i \in 1 .. Len(s) : Append(s, p)[i] = s[i]
        /\ Append(s, p)[Len(s) + 1] = p
    BY <1>3
  <2>5. /\ sent' \in [Roles -> Seq(Packets)] /\ wire' \in [Roles -> Seq(Bytes)]
        /\ codec' \in [Roles -> Codecs]
    BY <1>2, <1>4, <1>10, <2>2, <2>3, <2>4
  <2>6. Len(s) + 1 <= MaxPackets /\ \A i \in 1 .. Len(s) : fits(s[i])
    <3>1. PICK m \in Nat : m = MaxPackets
      BY Sizes
    <3>2. Len(s) + 1 <= m
      BY <1>2, <2>2, <3>1
    <3>3. \A i \in 1 .. Len(s) : fits(s[i])
      BY <2>2 DEF IInv, Typed
    <3> QED
      BY <3>1, <3>2, <3>3
  <2>7. \A i \in 1 .. Len(s) + 1 : fits(Append(s, p)[i])
    BY <1>2, <2>4, <2>6
  <2>8. \A x \in Roles : Len(sent'[x]) <= MaxPackets
    <3>1. Len(sent'[r]) <= MaxPackets
      BY <1>7, <2>2, <2>4, <2>6
    <3>2. Len(sent'[q]) <= MaxPackets
      BY <1>7 DEF IInv, Typed
    <3> QED
      BY <1>1, <3>1, <3>2, Ends
  <2>9. \A x \in Roles : \A i \in 1 .. Len(sent'[x]) : fits(sent'[x][i])
    <3>1. \A i \in 1 .. Len(sent'[r]) : fits(sent'[r][i])
      BY <1>7, <2>2, <2>4, <2>7
    <3>2. \A i \in 1 .. Len(sent'[q]) : fits(sent'[q][i])
      BY <1>7 DEF IInv, Typed
    <3> QED
      BY <1>1, <3>1, <3>2, Ends
  <2> QED
    BY <1>2, <2>5, <2>8, <2>9 DEF IInv, Typed
<1>12. Keyed(r)' /\ Keyed(q)'
  BY <1>6, <1>7, <1>9, <1>10 DEF Keyed
<1>13. KeysAgree'
  <2>1. Keyed("client")' /\ Keyed("server")'
    BY <1>1, <1>12 DEF Roles, Peer
  <2>2. ClientKeys' /\ ServerKeys'
    BY <1>1, <1>5, <1>7, <1>9, <1>10 DEF ClientKeys, ServerKeys, Roles, Peer
  <2>3. \A x \in Roles : Keyed(x)'
    BY <2>1 DEF Roles
  <2> QED
    BY <1>2, <1>5, <2>1, <2>2, <2>3 DEF IInv, KeysAgree
<1>14. Direction(r)'
  <2>1. Ahead(r)' = Ahead(r) /\ Stuck(r)' = Stuck(r) /\ Ended(r)' = Ended(r)
    BY <1>1, <1>2, <1>7 DEF Ahead, Stuck, Ended
  <2>2. /\ Stream(Ahead(r), codec[r], Len(delivered[r]), sent[q], codec[q].txpos,
                  broken[r], shut[q], faults = 0, Stuck(r))
        /\ framed[r].eof => Ended(r)
    BY <1>1, <1>6 DEF IInv, Directions, Direction
  <2>3. Stream(Ahead(r), e, Len(delivered[r]), sent[q], codec[q].txpos,
               broken[r], shut[q], faults = 0, Stuck(r))
    BY <1>10, <2>2, StreamAside
  <2> QED
    BY <1>1, <1>2, <1>7, <1>9, <2>1, <2>2, <2>3 DEF Direction
<1>15. QED
  BY <1>1, <1>8, <1>11, <1>13, <1>14, Ends DEF IInv, Directions

\* The server takes the handshake and answers with an empty packet.
LEMMA AcceptIInv ==
  ASSUME IInv, NEW key, ServerAccepts(key)
  PROVE  IInv'
<1> USE Ends
<1> DEFINE p == [id |-> 1, len |-> 0]
<1>1. HANDSHAKE = 4
  BY DEF HANDSHAKE, HandshakeFields
<1>2. ~Keyed("server")
  BY DEF IInv, KeysAgree, ServerAccepts
<1>3. PICK w \in Seq(Bytes) : w = wire["client"]
  BY DEF IInv, Typed
<1>4. Len(w) = 4 /\ w # <<>>
  <2>2. Len(w) >= 4
    BY <1>1, <1>3 DEF ServerAccepts
  <2>3. Len(wire["client"]) <= HANDSHAKE
    BY <1>2 DEF IInv, KeysAgree
  <2>4. Len(w) \in Nat /\ Len(w) <= 4
    BY <1>1, <1>3, <2>3
  <2>5. \A k \in Nat : k >= 4 /\ k <= 4 => k = 4
    OBVIOUS
  <2>6. Len(w) = 4
    BY <2>2, <2>4, <2>5, Zenon
  <2> QED
    BY <2>6, EmptySeq
<1>5. /\ Keyed("client") /\ ClientKeys /\ phase["client"] # "new" /\ phase["client"] # "open"
      /\ codec["client"] = client(AesParams) /\ codec["server"] = NoCodec
      /\ \A r \in Roles : buf[r] = <<>> /\ sent[r] = <<>> /\ delivered[r] = <<>> /\ ~broken[r]
      /\ wire["server"] = <<>> /\ framed["server"] = FramedNew
  BY <1>2, <1>3, <1>4 DEF IInv, KeysAgree
<1>6. SubSeq(w, HANDSHAKE + 1, Len(w)) = <<>>
  <2>1. PICK k \in Nat : k = HANDSHAKE /\ k <= Len(w) /\ Len(w) - k = 0
    BY <1>1, <1>4
  <2>2. SubSeq(w, k + 1, Len(w)) \in Seq(Bytes) /\ Left(SubSeq(w, k + 1, Len(w)), w, k)
    BY <2>1, BufferLeft
  <2>3. PICK x \in Seq(Bytes) : x = SubSeq(w, k + 1, Len(w)) /\ Left(x, w, k)
    BY <2>2
  <2>4. Len(x) = 0
    BY <2>1, <2>3 DEF Left
  <2>5. x = <<>>
    BY <2>4
  <2> QED
    BY <2>1, <2>3, <2>5
<1>7. PICK e \in Codecs : e = server(AesParams)
  BY FreshCodecs
<1>8. PICK bytes, after : bytes = encode(e, p).bytes /\ after = encode(e, p).codec
  OBVIOUS
<1>9. /\ phase' = [phase EXCEPT !["server"] = "open"]
      /\ wire' = [wire EXCEPT !["server"] = Written("server", bytes), !["client"] = <<>>]
      /\ codec' = [codec EXCEPT !["server"] = after]
      /\ sent' = [sent EXCEPT !["server"] = <<p>>]
      /\ UNCHANGED <<shut, buf, framed, delivered, broken, faults>>
  <2>1. wire' = [wire EXCEPT !["server"] = Written("server", bytes),
                            !["client"] = SubSeq(wire["client"], HANDSHAKE + 1, Len(wire["client"]))]
    BY <1>7, <1>8 DEF ServerAccepts, IInv, Typed
  <2> QED
    BY <1>3, <1>6, <1>7, <1>8, <2>1 DEF ServerAccepts
<1>10. p \in Packets /\ p.id = 1 /\ fits(p)
  BY Sizes DEF Packets, fits
<1>11. <<p>> = Append(<<>>, p) /\ Len(<<>>) = 0
  OBVIOUS
<1> HIDE DEF p
<1>12. /\ after \in Codecs /\ after.rx = "tx" /\ after.tx = "rx" /\ after.rxpos = 0
       /\ after.last_readed_length = -1
  BY <1>7, <1>8, <1>10, Encoded, FreshCodecs
<1>13. /\ phase \in [Roles -> {"new", "handshaking", "open", "closed"}]
       /\ wire \in [Roles -> Seq(Bytes)] /\ codec \in [Roles -> Codecs]
       /\ sent \in [Roles -> Seq(Packets)]
  BY DEF IInv, Typed
<1>14. /\ wire'["server"] = Written("server", bytes) /\ wire'["client"] = <<>>
       /\ codec'["server"] = after /\ codec'["client"] = codec["client"]
       /\ sent'["server"] = Append(sent["server"], p) /\ sent'["client"] = sent["client"]
       /\ phase'["server"] = "open" /\ phase'["client"] = phase["client"]
  BY <1>5, <1>9, <1>11, <1>13
<1>15. Direction("client")' /\ wire'["server"] \in Seq(Bytes)
  <2>1. p.id = Len(sent["server"]) + 1
    BY <1>5, <1>10, <1>11
  <2>2. e.tx = codec[Peer("server")].rx /\ e.txpos = codec["server"].txpos
    BY <1>5, <1>7, FreshCodecs DEF ClientKeys
  <2>3. /\ wire'["server"] = Written("server", encode(e, p).bytes)
        /\ codec'["server"] = encode(e, p).codec
        /\ codec'[Peer("server")] = codec[Peer("server")]
        /\ sent'["server"] = Append(sent["server"], p) /\ Keyed(Peer("server"))
    BY <1>5, <1>8, <1>14
  <2>4. UNCHANGED <<shut, buf, framed, delivered, broken, faults>>
    BY <1>9
  <2>5. Direction(Peer("server"))' /\ wire'["server"] \in Seq(Bytes)
    BY <1>10, <2>1, <2>2, <2>3, <2>4, SentDirection
  <2> QED
    BY <2>5
<1>16. Typed'
  <2>1. PICK y \in Seq(Bytes) : y = wire'["server"]
    BY <1>15
  <2>2. wire' = [wire EXCEPT !["server"] = y, !["client"] = <<>>] /\ <<>> \in Seq(Bytes)
    BY <1>9, <1>14, <2>1
  <2>3. wire' \in [Roles -> Seq(Bytes)] /\ codec' \in [Roles -> Codecs]
    BY <1>9, <1>12, <1>13, <2>2
  <2>4. <<p>> \in Seq(Packets) /\ Len(<<p>>) = 1 /\ <<p>>[1] = p
    BY <1>10
  <2>5. sent' \in [Roles -> Seq(Packets)] /\ phase' \in [Roles -> {"new", "handshaking", "open", "closed"}]
    BY <1>9, <1>13, <2>4
  <2>6. sent'["server"] = <<p>> /\ sent'["client"] = <<>>
    BY <1>5, <1>11, <1>14
  <2>7. \A r \in Roles : Len(sent'[r]) <= MaxPackets
    <3>1. 0 <= MaxPackets /\ 1 <= MaxPackets
      BY Sizes
    <3>2. Len(sent'["server"]) <= MaxPackets
      BY <2>4, <2>6, <3>1
    <3>3. Len(sent'["client"]) <= MaxPackets
      BY <1>11, <2>6, <3>1
    <3> QED
      BY <3>2, <3>3 DEF Roles
  <2>8. \A r \in Roles : \A i \in 1 .. Len(sent'[r]) : fits(sent'[r][i])
    BY <1>10, <1>11, <2>4, <2>6 DEF Roles
  <2> QED
    BY <1>9, <2>3, <2>5, <2>7, <2>8 DEF IInv, Typed
<1>17. Keyed("client")' /\ Keyed("server")' /\ ClientKeys' /\ ServerKeys'
  BY <1>5, <1>12, <1>14 DEF Keyed, ClientKeys, ServerKeys
<1>18. KeysAgree'
  <2>1. \A r \in Roles : Keyed(r)'
    BY <1>17 DEF Roles
  <2> QED
    BY <1>5, <1>14, <1>17, <2>1 DEF KeysAgree
<1>19. Direction("server")'
  <2>1. /\ Ahead("server")' = <<>> /\ delivered'["server"] = <<>> /\ sent'["client"] = <<>>
        /\ broken'["server"] = FALSE /\ framed'["server"].eof = FALSE
    BY <1>5, <1>9, <1>14 DEF Ahead, FramedNew, IInv, Typed
  <2>2. codec'["client"].txpos = after.rxpos
    BY <1>5, <1>12, <1>14, FreshCodecs
  <2>3. Stream(<<>>, after, 0, <<>>, after.rxpos, FALSE, shut'["client"], faults' = 0,
               Stuck("server")')
    BY <1>12, EmptyStream
  <2> QED
    BY <1>11, <1>14, <2>1, <2>2, <2>3 DEF Direction
<1>20. QED
  BY <1>15, <1>16, <1>18, <1>19 DEF IInv, Directions, Roles

\* Nothing was read.
Idle(c, b) == b = <<>> /\ c.last_readed_length = -1

\* decode itself never reports that the stream ended; and it takes nothing from an empty
\* buffer.
LEMMA DecodedOut ==
  ASSUME NEW c \in Codecs, NEW b \in Seq(Bytes), NEW from \in Seq(Packets),
         NEW d \in decode(c, b, from)
  PROVE  /\ d.out # "IoError"
         /\ Idle(c, b) => d.out = "none" /\ d.buf = b /\ d.codec = c
<1>1. CASE NoHeader(d, c, b)
  BY <1>1 DEF NoHeader
<1>2. CASE BadHeader(d, c, b, from)
  <2>1. HEADER <= Len(b) /\ HEADER >= 1 /\ HEADER \in Nat /\ d.out # "IoError"
    BY <1>2, Sizes DEF BadHeader
  <2>2. b # <<>>
    BY <2>1
  <2> QED
    BY <2>1, <2>2 DEF Idle
<1>3. ASSUME NEW k \in {0, HEADER}, NEW n \in OVERHEAD .. MAXLEN, BodyOutcome(d, c, b, from, k, n)
      PROVE  d.out # "IoError" /\ ~Idle(c, b)
  <2>1. d.out # "IoError"
    BY <1>3 DEF BodyOutcome, Waits, Takes, Refuses
  <2>2. HEADER >= 1 /\ HEADER \in Nat /\ n # -1
    BY Sizes
  <2>3. c.last_readed_length = n \/ HEADER <= Len(b)
    BY <1>3 DEF BodyOutcome, Known
  <2>4. HEADER <= Len(b) => b # <<>>
    BY <2>2
  <2> QED
    BY <2>1, <2>2, <2>3, <2>4 DEF Idle
<1>4. QED
  BY <1>1, <1>2, <1>3, Decoded

\* What a call of decode does, d being its result and out what the reader sees of it.
Decodes(r, q, d, out) ==
  /\ d \in decode(codec[r], buf[r], sent[q])
  /\ out = Polled(d.out, d.buf, framed[r].eof)
  /\ buf' = [buf EXCEPT ![r] = d.buf] /\ codec' = [codec EXCEPT ![r] = d.codec]
  /\ framed' = [framed EXCEPT ![r].readable = out \notin {"pending", "end"},
                              ![r].errored = Failed(out)]
  /\ broken' = [broken EXCEPT ![r] = broken[r] \/ Failed(out)]
  /\ delivered' = IF out = "frame"
                  THEN [delivered EXCEPT ![r] = Append(delivered[r], sent[q][d.pkt])]
                  ELSE delivered
  /\ UNCHANGED <<wire, sent, faults>>

\* The phase of the reader and its side of the connection: a client that is handshaking is
\* done, or gives up.
Settles(r, out) ==
  \/ UNCHANGED <<phase, shut>>
  \/ out = "frame" /\ phase' = [phase EXCEPT ![r] = "open"] /\ UNCHANGED shut
  \/ Drop(r)

\* The action Decode is that.
LEMMA DecodeSplit ==
  ASSUME NEW r \in Roles, Decode(r)
  PROVE  /\ Reading(r) /\ framed[r].readable /\ ~framed[r].errored
         /\ \E d, out : Decodes(r, Peer(r), d, out) /\ Settles(r, out)
<1>1. /\ Reading(r) /\ framed[r].readable /\ ~framed[r].errored /\ UNCHANGED <<wire, sent, faults>>
  BY DEF Decode
<1>2. PICK d \in decode(codec[r], buf[r], sent[Peer(r)]) :
        LET out == Polled(d.out, d.buf, framed[r].eof)
            failed == out \notin {"pending", "end", "frame"}
        IN  /\ buf' = [buf EXCEPT ![r] = d.buf]
            /\ codec' = [codec EXCEPT ![r] = d.codec]
            /\ framed' = [framed EXCEPT
                            ![r].readable = out \notin {"pending", "end"},
                            ![r].errored = failed]
            /\ broken' = [broken EXCEPT ![r] = @ \/ failed]
            /\ delivered' = IF out = "frame"
                            THEN [delivered EXCEPT
                                    ![r] = Append(@, sent[Peer(r)][d.pkt])]
                            ELSE delivered
            /\ CASE phase[r] = "handshaking" /\ out = "frame" ->
                      /\ phase' = [phase EXCEPT ![r] = "open"]
                      /\ UNCHANGED shut
                 [] phase[r] = "handshaking" /\ (failed \/ out = "end") ->
                      Drop(r)
                 [] OTHER -> UNCHANGED <<phase, shut>>
  BY DEF Decode
<1>3. PICK out : out = Polled(d.out, d.buf, framed[r].eof)
  OBVIOUS
<1>4. Decodes(r, Peer(r), d, out)
  BY <1>1, <1>2, <1>3 DEF Decodes, Failed
<1>5. Settles(r, out)
  <2>1. (CASE phase[r] = "handshaking" /\ out = "frame" ->
                      /\ phase' = [phase EXCEPT ![r] = "open"]
                      /\ UNCHANGED shut
           [] phase[r] = "handshaking" /\ (Failed(out) \/ out = "end") -> Drop(r)
           [] OTHER -> UNCHANGED <<phase, shut>>)
    BY <1>2, <1>3 DEF Failed
  <2>2. CASE phase[r] = "handshaking" /\ out = "frame"
    <3>1. ~(Failed(out) \/ out = "end")
      BY <2>2 DEF Failed
    <3> QED
      BY <2>1, <2>2, <3>1 DEF Settles
  <2>3. CASE phase[r] = "handshaking" /\ out # "frame" /\ (Failed(out) \/ out = "end")
    BY <2>1, <2>3 DEF Settles
  <2>4. CASE /\ ~(phase[r] = "handshaking" /\ out = "frame")
             /\ ~(phase[r] = "handshaking" /\ (Failed(out) \/ out = "end"))
    BY <2>1, <2>4 DEF Settles
  <2> QED
    BY <2>2, <2>3, <2>4
<1>6. QED
  BY <1>1, <1>4, <1>5

\* The state after it, end by end.
LEMMA DecodedState ==
  ASSUME IInv, NEW r \in Roles, NEW q \in Roles, q = Peer(r), NEW d, NEW out,
         Decodes(r, q, d, out), Settles(r, out)
  PROVE  /\ buf' \in [Roles -> Seq(Bytes)] /\ buf'[r] = d.buf /\ buf'[q] = buf[q]
         /\ codec' \in [Roles -> Codecs] /\ codec'[r] = d.codec /\ codec'[q] = codec[q]
         /\ framed' \in [Roles -> [readable : BOOLEAN, eof : BOOLEAN, errored : BOOLEAN]]
         /\ framed'[q] = framed[q] /\ framed'[r].eof = framed[r].eof
         /\ framed'[r].errored = Failed(out)
         /\ broken' \in [Roles -> BOOLEAN]
         /\ broken'[r] = (broken[r] \/ Failed(out)) /\ broken'[q] = broken[q]
         /\ delivered' \in [Roles -> Seq(Packets)] /\ delivered'[q] = delivered[q]
         /\ Len(delivered'[r]) = IF out = "frame" THEN Len(delivered[r]) + 1
                                 ELSE Len(delivered[r])
         /\ phase' \in [Roles -> {"new", "handshaking", "open", "closed"}]
         /\ phase'[q] = phase[q] /\ phase'[r] \in {phase[r], "closed", "open"}
         /\ phase'[r] = "open" => phase[r] = "open" \/ out = "frame"
         /\ shut' \in [Roles -> BOOLEAN] /\ shut'[q] = shut[q] /\ (shut[r] => shut'[r])
<1>1. r # q
  BY Ends
<1>2. /\ phase \in [Roles -> {"new", "handshaking", "open", "closed"}]
      /\ codec \in [Roles -> Codecs] /\ buf \in [Roles -> Seq(Bytes)]
      /\ shut \in [Roles -> BOOLEAN] /\ broken \in [Roles -> BOOLEAN]
      /\ framed \in [Roles -> [readable : BOOLEAN, eof : BOOLEAN, errored : BOOLEAN]]
      /\ sent \in [Roles -> Seq(Packets)] /\ delivered \in [Roles -> Seq(Packets)]
  BY DEF IInv, Typed
<1>3. codec[r] \in Codecs /\ buf[r] \in Seq(Bytes) /\ sent[q] \in Seq(Packets)
  BY <1>2
<1>4. d \in decode(codec[r], buf[r], sent[q])
  BY DEF Decodes
<1>5. /\ d.buf \in Seq(Bytes) /\ d.codec \in Codecs
      /\ d.out = "frame" => d.pkt \in 1 .. Len(sent[q])
  BY <1>3, <1>4, DecodedTyped
<1>6. /\ buf' \in [Roles -> Seq(Bytes)] /\ buf'[r] = d.buf /\ buf'[q] = buf[q]
      /\ codec' \in [Roles -> Codecs] /\ codec'[r] = d.codec /\ codec'[q] = codec[q]
  BY <1>1, <1>2, <1>5 DEF Decodes
<1>7. PICK f \in BOOLEAN, g \in BOOLEAN : f = Failed(out) /\ g = (out \notin {"pending", "end"})
  BY DEF Failed
<1>8. /\ framed' = [framed EXCEPT ![r].readable = g, ![r].errored = f]
      /\ broken' = [broken EXCEPT ![r] = broken[r] \/ f]
  BY <1>7 DEF Decodes
<1>9. /\ framed' \in [Roles -> [readable : BOOLEAN, eof : BOOLEAN, errored : BOOLEAN]]
      /\ framed'[q] = framed[q] /\ framed'[r].eof = framed[r].eof
      /\ framed'[r].errored = f
  BY <1>1, <1>2, <1>8
<1>10. PICK h \in BOOLEAN : h = (broken[r] \/ f)
  BY <1>2
<1>11. broken' = [broken EXCEPT ![r] = h]
  BY <1>8, <1>10
<1>12. broken' \in [Roles -> BOOLEAN] /\ broken'[r] = h /\ broken'[q] = broken[q]
  BY <1>1, <1>2, <1>11
<1>13. /\ delivered' \in [Roles -> Seq(Packets)] /\ delivered'[q] = delivered[q]
       /\ Len(delivered'[r]) = IF out = "frame" THEN Len(delivered[r]) + 1
                               ELSE Len(delivered[r])
  <2>1. CASE out = "frame"
    <3>1. d.out = "frame"
      BY <2>1 DEF Decodes, Polled
    <3>2. PICK s \in Seq(Packets), p \in Packets : s = delivered[r] /\ p = sent[q][d.pkt]
      BY <1>2, <1>3, <1>5, <3>1
    <3>3. Append(s, p) \in Seq(Packets) /\ Len(Append(s, p)) = Len(s) + 1
      OBVIOUS
    <3>4. delivered' = [delivered EXCEPT ![r] = Append(s, p)]
      BY <2>1, <3>2 DEF Decodes
    <3> QED
      BY <1>1, <1>2, <2>1, <3>2, <3>3, <3>4
  <2>2. CASE out # "frame"
    BY <1>2, <2>2 DEF Decodes
  <2> QED
    BY <2>1, <2>2
<1>14. /\ phase' \in [Roles -> {"new", "handshaking", "open", "closed"}]
       /\ phase'[q] = phase[q] /\ phase'[r] \in {phase[r], "closed", "open"}
       /\ phase'[r] = "open" => phase[r] = "open" \/ out = "frame"
       /\ shut' \in [Roles -> BOOLEAN] /\ shut'[q] = shut[q] /\ (shut[r] => shut'[r])
  BY <1>1, <1>2 DEF Settles, Drop
<1>15. QED
  BY <1>6, <1>7, <1>9, <1>10, <1>12, <1>13, <1>14

\* The direction that is read.
LEMMA DecodedDirection ==
  ASSUME IInv, NEW r \in Roles, NEW q \in Roles, q = Peer(r), NEW d, NEW out, Keyed(r),
         framed[r].readable, ~framed[r].errored, Decodes(r, q, d, out), Settles(r, out)
  PROVE  /\ Direction(r)'
         /\ out = "frame" => /\ ~broken[r] /\ d.pkt = Len(delivered[r]) + 1
                             /\ Len(delivered[r]) + 1 \in 1 .. Len(sent[q])
<1>1. PICK c \in Codecs, b \in Seq(Bytes), w \in Seq(Bytes), n \in Nat, from \in Seq(Packets),
           tx \in Nat, brk \in BOOLEAN, down \in BOOLEAN :
        /\ c = codec[r] /\ b = buf[r] /\ w = wire[q] /\ n = Len(delivered[r]) /\ from = sent[q]
        /\ tx = codec[q].txpos /\ brk = broken[r] /\ down = shut[q]
  BY EndTyped DEF IInv
<1>2. PICK clean \in BOOLEAN, eof \in BOOLEAN, stuck2 \in BOOLEAN :
        clean = (faults = 0) /\ eof = framed[r].eof /\ stuck2 = Stuck(r)'
  BY EndTyped DEF IInv, Stuck
<1>3. /\ buf'[r] = d.buf /\ codec'[r] = d.codec /\ codec'[q] = codec[q]
      /\ framed'[r].eof = framed[r].eof /\ framed'[r].errored = Failed(out)
      /\ broken'[r] = (broken[r] \/ Failed(out))
      /\ Len(delivered'[r]) = IF out = "frame" THEN Len(delivered[r]) + 1
                              ELSE Len(delivered[r])
      /\ shut'[q] = shut[q]
  BY DecodedState
<1>4. UNCHANGED <<wire, sent, faults>>
  BY DEF Decodes
<1>5. d \in decode(c, b, from) /\ out = Polled(d.out, d.buf, eof)
  BY <1>1, <1>2 DEF Decodes
<1>6. Ahead(r) = b \o w /\ Ahead(r)' = d.buf \o w /\ Ended(r)' = Ended(r)
  BY <1>1, <1>3, <1>4 DEF Ahead, Ended
<1>7. eof => Ended(r)
  BY <1>2 DEF IInv, Directions, Direction
<1>8. eof => w = <<>>
  BY <1>1, <1>7 DEF Ended
<1>9. ~Stuck(r)
  BY DEF Stuck
<1>10. Stream(b \o w, c, n, from, tx, brk, down, clean, FALSE)
  <2>1. PICK stuck : stuck = Stuck(r)
    OBVIOUS
  <2>2. Stream(b \o w, c, n, from, tx, brk, down, clean, stuck)
    BY <1>1, <1>2, <1>6, <2>1 DEF IInv, Directions, Direction
  <2>3. ~stuck
    BY <1>9, <2>1
  <2> QED
    BY <2>2, <2>3 DEF Stream
<1>11. out = "IoError" => stuck2
  <2>1. SUFFICES ASSUME out = "IoError" PROVE Stuck(r)'
    BY <1>2
  <2>2. d.out # "IoError"
    BY <1>5, DecodedOut
  <2>3. eof
    BY <1>5, <2>1, <2>2 DEF Polled
  <2>4. Failed(out)
    BY <2>1 DEF Failed
  <2> QED
    BY <1>2, <1>3, <1>6, <1>7, <2>3, <2>4 DEF Stuck
<1>12. \A p \in 1 .. Len(from) : fits(from[p])
  BY <1>1 DEF IInv, Typed
<1>13. Polling(c, b, w, n, from, tx, brk, down, clean, eof, stuck2, d, out)
  BY <1>5, <1>8, <1>10, <1>11, <1>12 DEF Polling
<1>14. Polls(w, n, from, tx, brk, down, clean, stuck2, d, out)
  BY <1>13, StreamDecoded
<1>15. /\ Stream(d.buf \o w, d.codec, IF out = "frame" THEN n + 1 ELSE n, from, tx,
                 brk \/ Failed(out), down, clean, stuck2)
       /\ out = "frame" => ~brk /\ d.pkt = n + 1 /\ n + 1 \in 1 .. Len(from)
  BY <1>14 DEF Polls
<1>16. framed'[r].eof => Ended(r)'
  BY <1>2, <1>3, <1>6, <1>7
<1>17. Direction(r)'
  <2>1. /\ Ahead(r)' = d.buf \o w /\ codec'[r] = d.codec
        /\ Len(delivered'[r]) = IF out = "frame" THEN n + 1 ELSE n
        /\ sent'[q] = from /\ codec'[q].txpos = tx /\ broken'[r] = (brk \/ Failed(out))
        /\ shut'[q] = down /\ (faults' = 0) = clean /\ Stuck(r)' = stuck2
    BY <1>1, <1>2, <1>3, <1>4, <1>6
  <2>2. PICK x : x = (brk \/ Failed(out))
    OBVIOUS
  <2>3. Stream(d.buf \o w, d.codec, IF out = "frame" THEN n + 1 ELSE n, from, tx, x, down,
               clean, stuck2)
    BY <1>15, <2>2
  <2>4. broken'[r] = x
    BY <2>1, <2>2
  <2>5. PICK B, e, m : B = d.buf \o w /\ e = d.codec /\ m = IF out = "frame" THEN n + 1 ELSE n
    OBVIOUS
  <2>6. Stream(B, e, m, from, tx, x, down, clean, stuck2)
    BY <2>3, <2>5
  <2>7. Ahead(r)' = B /\ codec'[r] = e /\ Len(delivered'[r]) = m
    BY <2>1, <2>5
  <2> QED
    BY <1>16, <2>1, <2>4, <2>6, <2>7 DEF Direction
<1>18. QED
  BY <1>1, <1>15, <1>17

\* A reader calls the decoder.
LEMMA DecodeIInv ==
  ASSUME IInv, NEW r \in Roles, Decode(r)
  PROVE  IInv'
<1>1. PICK q \in Roles : q = Peer(r) /\ Peer(q) = r /\ q # r
  BY Ends
<1>2. /\ Reading(r) /\ framed[r].readable /\ ~framed[r].errored
      /\ \E d, out : Decodes(r, q, d, out) /\ Settles(r, out)
  BY <1>1, DecodeSplit
<1>3. PICK d, out : Decodes(r, q, d, out) /\ Settles(r, out)
  BY <1>2
<1>4. Keyed(r)
  BY <1>2, Readers
<1>5. /\ Direction(r)'
      /\ out = "frame" => /\ ~broken[r] /\ d.pkt = Len(delivered[r]) + 1
                          /\ Len(delivered[r]) + 1 \in 1 .. Len(sent[q])
  BY <1>1, <1>2, <1>3, <1>4, DecodedDirection
<1>6. /\ buf' \in [Roles -> Seq(Bytes)] /\ buf'[r] = d.buf /\ buf'[q] = buf[q]
      /\ codec' \in [Roles -> Codecs] /\ codec'[r] = d.codec /\ codec'[q] = codec[q]
      /\ framed' \in [Roles -> [readable : BOOLEAN, eof : BOOLEAN, errored : BOOLEAN]]
      /\ framed'[q] = framed[q]
      /\ broken' \in [Roles -> BOOLEAN]
      /\ broken'[r] = (broken[r] \/ Failed(out)) /\ broken'[q] = broken[q]
      /\ delivered' \in [Roles -> Seq(Packets)] /\ delivered'[q] = delivered[q]
      /\ phase' \in [Roles -> {"new", "handshaking", "open", "closed"}]
      /\ phase'[q] = phase[q] /\ phase'[r] \in {phase[r], "closed", "open"}
      /\ phase'[r] = "open" => phase[r] = "open" \/ out = "frame"
      /\ shut' \in [Roles -> BOOLEAN] /\ shut'[q] = shut[q] /\ (shut[r] => shut'[r])
  BY <1>1, <1>3, DecodedState
<1>7. UNCHANGED <<wire, sent, faults>>
  BY <1>3 DEF Decodes
<1>8. Typed'
  BY <1>6, <1>7 DEF IInv, Typed
<1>9. /\ codec[r] \in Codecs /\ buf[r] \in Seq(Bytes) /\ sent[q] \in Seq(Packets)
      /\ d \in decode(codec[r], buf[r], sent[q])
  BY <1>3, EndTyped DEF IInv, Decodes
<1>10. codec'[r].rx = codec[r].rx /\ codec'[r].tx = codec[r].tx /\ codec'[r].txpos = codec[r].txpos
  BY <1>6, <1>9, DecodedTyped
<1>11. Keyed(r)' = Keyed(r) /\ Keyed(q)' = Keyed(q)
  BY <1>6, <1>10 DEF Keyed
<1>12. Direction(q)'
  <2>1. CASE ~Keyed(q)
    BY <1>11, <2>1 DEF Direction
  <2>2. CASE Keyed(q)
    <3>1. /\ Stream(Ahead(q), codec[q], Len(delivered[q]), sent[r], codec[r].txpos, broken[q],
                    shut[r], faults = 0, Stuck(q))
          /\ framed[q].eof => Ended(q)
      BY <1>1, <2>2 DEF IInv, Directions, Direction
    <3>2. Ahead(q)' = Ahead(q) /\ (Ended(q) => Ended(q)')
      BY <1>1, <1>6, <1>7 DEF Ahead, Ended
    <3>3. (Stuck(q) => Stuck(q)') /\ (framed'[q].eof => Ended(q)')
      BY <1>6, <3>1, <3>2 DEF Stuck
    <3>4. Stream(Ahead(q), codec[q], Len(delivered[q]), sent[r], codec[r].txpos, broken[q],
                 shut'[r], faults = 0, Stuck(q)')
      BY <1>6, <3>1, <3>3, StreamDown
    <3> QED
      BY <1>1, <1>6, <1>7, <1>10, <3>2, <3>3, <3>4 DEF Direction
  <2> QED
    BY <2>1, <2>2
<1>13. KeysAgree'
  <2>1. CASE Keyed("server")
    <3>1. Keyed("client") /\ ClientKeys /\ ServerKeys /\ phase["client"] # "new"
          /\ phase["server"] \in {"open", "closed"}
      BY <2>1 DEF IInv, KeysAgree
    <3>2. Keyed(r)' /\ Keyed(q)' /\ Keyed("client")' /\ Keyed("server")'
      BY <1>1, <1>11, <2>1, <3>1 DEF Roles, Peer
    <3>3. ClientKeys' /\ ServerKeys'
      BY <1>1, <1>6, <1>10, <3>1 DEF ClientKeys, ServerKeys, Roles, Peer
    <3>4. phase'["client"] # "new" /\ phase'["server"] \in {"open", "closed"}
      BY <1>1, <1>6, <3>1 DEF Roles, Peer
    <3>5. \A x \in Roles : Keyed(x)'
      BY <3>2 DEF Roles
    <3> QED
      BY <3>2, <3>3, <3>4, <3>5 DEF KeysAgree
  <2>2. CASE ~Keyed("server")
    <3>1. r = "client" /\ q = "server"
      BY <1>1, <1>4, <2>2 DEF Roles, Peer
    <3>2. /\ ClientKeys /\ phase["client"] # "new" /\ codec["server"] = NoCodec
          /\ phase["server"] \in {"new", "closed"} /\ phase["client"] # "open"
          /\ codec["client"] = client(AesParams)
          /\ \A x \in Roles : buf[x] = <<>> /\ sent[x] = <<>> /\ delivered[x] = <<>> /\ ~broken[x]
          /\ wire["server"] = <<>> /\ Len(wire["client"]) <= HANDSHAKE
          /\ framed["server"] = FramedNew
      BY <1>4, <2>2, <3>1, Ends DEF IInv, KeysAgree
    <3>3. d.out = "none" /\ d.buf = <<>> /\ d.codec = codec["client"]
      <4>1. buf[r] = <<>> /\ codec[r].last_readed_length = -1
        BY <3>1, <3>2, FreshCodecs
      <4>2. PICK c \in Codecs, b \in Seq(Bytes), from \in Seq(Packets) :
              c = codec[r] /\ b = buf[r] /\ from = sent[q]
        BY <1>9
      <4>3. d \in decode(c, b, from) /\ Idle(c, b)
        BY <1>9, <4>1, <4>2 DEF Idle
      <4>4. d.out = "none" /\ d.buf = b /\ d.codec = c
        BY <4>3, DecodedOut
      <4> QED
        BY <3>1, <4>1, <4>2, <4>4
    <3>4. out \in {"pending", "end"}
      BY <1>3, <3>3 DEF Decodes, Polled
    <3>5. ~Failed(out) /\ out # "frame"
      BY <3>4 DEF Failed
    <3>6. delivered' = delivered /\ ~broken'[r]
      BY <1>3, <1>6, <3>2, <3>5 DEF Decodes
    <3>7. codec'["client"] = codec["client"] /\ codec'["server"] = codec["server"]
      BY <1>6, <3>1, <3>3
    <3>8. /\ phase'["client"] # "new" /\ phase'["client"] # "open"
          /\ phase'["server"] \in {"new", "closed"}
      BY <1>6, <3>1, <3>2, <3>5
    <3>9. \A x \in Roles : buf'[x] = <<>> /\ sent'[x] = <<>> /\ delivered'[x] = <<>> /\ ~broken'[x]
      <4>1. buf'[r] = <<>> /\ ~broken'[r] /\ buf'[q] = <<>> /\ ~broken'[q]
        BY <1>6, <3>2, <3>3, <3>6
      <4> QED
        BY <1>7, <3>1, <3>2, <3>6, <4>1 DEF Roles
    <3>10. ~Keyed("server")' /\ Keyed("client")' /\ ClientKeys'
      BY <1>4, <1>11, <2>2, <3>1, <3>2, <3>7 DEF ClientKeys
    <3>11. \A x \in Roles : Keyed(x)' \/ framed'[x] = FramedNew
      BY <1>6, <3>1, <3>2, <3>10 DEF Roles
    <3> QED
      BY <1>7, <3>2, <3>7, <3>8, <3>9, <3>10, <3>11 DEF KeysAgree
  <2> QED
    BY <2>1, <2>2
<1>14. QED
  BY <1>1, <1>5, <1>8, <1>12, <1>13, Ends DEF IInv, Directions

-----------------------------------------------------------------------------
\* Every step of Next keeps the inductive invariant.
LEMMA NextIInv == IInv /\ [Next]_vars => IInv'
<1> SUFFICES ASSUME IInv, [Next]_vars PROVE IInv'
  OBVIOUS
<1>1. CASE ConnectFails
  BY <1>1, DropIInv, Ends DEF ConnectFails
<1>2. ASSUME NEW key \in DialledKeys, ClientHandshakes(key) PROVE IInv'
  BY <1>2, HandshakeIInv
<1>3. ASSUME NEW key \in KnownKeys, ServerAccepts(key) PROVE IInv'
  BY <1>3, AcceptIInv
<1>4. ASSUME NEW key \in KnownKeys, ServerRefuses(key) PROVE IInv'
  BY <1>4, DropIInv, Ends DEF ServerRefuses
<1>5. CASE HandshakeTimeout
  BY <1>5, DropIInv, Ends DEF HandshakeTimeout
<1>6. ASSUME NEW r \in Roles, NEW n \in PayloadSizes, Send(r, n) PROVE IInv'
  BY <1>6, SendIInv
<1>7. ASSUME NEW r \in Roles, NEW n \in 1 .. Len(wire[Peer(r)]), ReadSome(r, n) PROVE IInv'
  BY <1>7, ReadIInv
<1>8. ASSUME NEW r \in Roles, ReadEof(r) PROVE IInv'
  BY <1>8, EofIInv
<1>9. ASSUME NEW r \in Roles, Decode(r) PROVE IInv'
  BY <1>9, DecodeIInv
<1>10. ASSUME NEW r \in Roles, AfterError(r) PROVE IInv'
  BY <1>10, AfterErrorIInv
<1>11. ASSUME NEW r \in Roles, Close(r) PROVE IInv'
  BY <1>11, DropIInv DEF Close
<1>12. ASSUME NEW r \in Roles, DamageByte(r) PROVE IInv'
  BY <1>12, DamageIInv
<1>13. ASSUME NEW r \in Roles, Cut(r) PROVE IInv'
  BY <1>13, CutIInv
<1>14. CASE UNCHANGED vars
  BY <1>14, StandStill
<1>15. QED
  BY <1>1, <1>2, <1>3, <1>4, <1>5, <1>6, <1>7, <1>8, <1>9, <1>10, <1>11, <1>12, <1>13, <1>14
     DEF Next

\* The inductive invariant always holds.
THEOREM Inductive == Spec => []IInv
BY InitIInv, NextIInv, PTL DEF Spec

\* Whatever the sizes, the faults and the splitting of the stream, bytes, positions and
\* packets stay in range, and a length that AdnlCodec keeps between two calls is one that
\* decode accepts.
THEOREM TypeCorrect == Spec => []TypeOK
<1>1. ASSUME IInv PROVE TypeOK
  <2>1. Typed
    BY <1>1 DEF IInv
  <2>2. \A x \in Bytes : IsByte(x)
    BY DEF Bytes, Masks, IsByte
  <2>3. ASSUME NEW r \in Roles
        PROVE  /\ codec[r].rxpos \in Nat /\ codec[r].txpos \in Nat
               /\ codec[r].last_readed_length \in {-1} \cup OVERHEAD .. MAXLEN
               /\ \A i \in 1 .. Len(wire[r]) : IsByte(wire[r][i])
               /\ \A i \in 1 .. Len(buf[r]) : IsByte(buf[r][i])
               /\ Len(sent[r]) <= MaxPackets
               /\ \A i \in 1 .. Len(sent[r]) : sent[r][i] \in Packets
               /\ \A i \in 1 .. Len(delivered[r]) : delivered[r][i] \in Packets
    <3>1. codec[r] \in Codecs
      BY <2>1, EndTyped
    <3>2. /\ codec[r].rxpos \in Nat /\ codec[r].txpos \in Nat
          /\ codec[r].last_readed_length \in {-1} \cup OVERHEAD .. MAXLEN
      BY <3>1 DEF Codecs, KeptLengths
    <3>3. /\ wire[r] \in Seq(Bytes) /\ buf[r] \in Seq(Bytes) /\ sent[r] \in Seq(Packets)
          /\ delivered[r] \in Seq(Packets) /\ Len(sent[r]) <= MaxPackets
      BY <2>1, EndTyped
    <3>4. /\ \A i \in 1 .. Len(wire[r]) : wire[r][i] \in Bytes
          /\ \A i \in 1 .. Len(buf[r]) : buf[r][i] \in Bytes
          /\ \A i \in 1 .. Len(sent[r]) : sent[r][i] \in Packets
          /\ \A i \in 1 .. Len(delivered[r]) : delivered[r][i] \in Packets
      BY <3>3
    <3> QED
      BY <2>2, <3>2, <3>3, <3>4
  <2> QED
    BY <2>1, <2>3 DEF Typed, TypeOK
<1>2. QED
  BY <1>1, Inductive, PTL

\* The one keystream that AdnlCodec keeps per direction never gets out of step before the
\* first error: every byte that is still to be decrypted was encrypted with the keystream
\* byte that decode will apply to it.
THEOREM InStepTheorem == Spec => []KeystreamsInStep
<1>1. ASSUME IInv PROVE KeystreamsInStep
  <2>1. SUFFICES ASSUME NEW r \in Roles, codec[r] # NoCodec, ~broken[r]
                 PROVE  InStep(Ahead(r), codec[r])
    BY DEF KeystreamsInStep, InStep, Ahead
  <2>2. Keyed(r)
    BY <1>1, <2>1, Ends DEF IInv, KeysAgree, Roles
  <2>3. Direction(r)
    BY <1>1 DEF IInv, Directions
  <2> QED
    BY <2>1, <2>2, <2>3 DEF Direction, Stream, Flows
<1>2. QED
  BY <1>1, Inductive, PTL

\* perform_custom_handshake waits for the server's first packet, so a client that has a
\* connection has one with a server whose codec mirrors its own.
THEOREM MirroredKeys == Spec => []EstablishedAgree
<1>1. ASSUME IInv PROVE EstablishedAgree
  BY <1>1 DEF IInv, KeysAgree, ClientKeys, ServerKeys, EstablishedAgree
<1>2. QED
  BY <1>1, Inductive, PTL

\* Without a damaged byte or a cut stream no reader returns an error, however the stream
\* is split and whenever the ends go away.
THEOREM NoSpuriousErrors == Spec => []ErrorsNeedFaults
<1>1. ASSUME IInv PROVE ErrorsNeedFaults
  <2>1. SUFFICES ASSUME NEW r \in Roles, broken[r] PROVE faults # 0
    <3>1. faults \in Nat
      BY <1>1 DEF IInv, Typed
    <3>2. faults # 0 => faults > 0
      BY <3>1
    <3> QED
      BY <3>2 DEF ErrorsNeedFaults
  <2>2. Keyed(r)
    BY <1>1, <2>1, Ends DEF IInv, KeysAgree, Roles
  <2>3. Direction(r)
    BY <1>1 DEF IInv, Directions
  <2>4. PICK clean : clean = (faults = 0)
    OBVIOUS
  <2>5. ~clean
    BY <2>1, <2>2, <2>3, <2>4 DEF Direction, Stream
  <2> QED
    BY <2>4, <2>5
<1>2. QED
  BY <1>1, Inductive, PTL

-----------------------------------------------------------------------------
\* The two ends of the FIFO channel.
LEMMA OtherEnds == \A r \in Roles : Chan!OtherEnd(r) = Peer(r)
<1> SUFFICES ASSUME NEW r \in Roles PROVE Chan!OtherEnd(r) = Peer(r)
  OBVIOUS
<1>1. \E o \in Roles : o # r
  BY Ends
<1>2. Chan!OtherEnd(r) \in Roles /\ Chan!OtherEnd(r) # r
  BY <1>1 DEF Chan!OtherEnd
<1>3. QED
  BY <1>2, Ends

\* Every step is a step of the FIFO channel, or does not show there.
LEMMA NextRefines == IInv /\ [Next]_vars => [Chan!ChanNext]_(Chan!chanVars)
<1> SUFFICES ASSUME IInv, [Next]_vars PROVE [Chan!ChanNext]_(Chan!chanVars)
  OBVIOUS
<1> USE Ends
<1>1. ASSUME UNCHANGED <<sent, delivered, broken>>
      PROVE  [Chan!ChanNext]_(Chan!chanVars)
  BY <1>1 DEF Chan!chanVars
<1>2. ASSUME NEW r \in Roles, NEW p \in Packets, sent' = [sent EXCEPT ![r] = Append(@, p)],
             UNCHANGED <<delivered, broken>>
      PROVE  [Chan!ChanNext]_(Chan!chanVars)
  BY <1>2 DEF Chan!ChanNext, Chan!ChanSend
<1>3. ASSUME NEW key \in KnownKeys, ServerAccepts(key)
      PROVE  [Chan!ChanNext]_(Chan!chanVars)
  <2>1. sent["server"] = <<>>
    BY <1>3 DEF IInv, KeysAgree, ServerAccepts
  <2>2. PICK p : p = [id |-> 1, len |-> 0]
    OBVIOUS
  <2>3. p \in Packets
    BY <2>2, Sizes DEF Packets
  <2>4. <<p>> = Append(sent["server"], p)
    BY <2>1
  <2>5. sent' = [sent EXCEPT !["server"] = Append(sent["server"], p)]
    BY <1>3, <2>2, <2>4 DEF ServerAccepts
  <2>6. UNCHANGED <<delivered, broken>>
    BY <1>3 DEF ServerAccepts
  <2> QED
    BY <1>2, <2>3, <2>5, <2>6
<1>4. ASSUME NEW r \in Roles, NEW n \in PayloadSizes, Send(r, n)
      PROVE  [Chan!ChanNext]_(Chan!chanVars)
  <2>1. PICK p : p = [id |-> Len(sent[r]) + 1, len |-> n]
    OBVIOUS
  <2>2. /\ sent' = [sent EXCEPT ![r] = Append(@, p)] /\ UNCHANGED <<delivered, broken>>
        /\ Len(sent[r]) < MaxPackets
    BY <1>4, <2>1 DEF Send
  <2>3. p \in Packets
    <3>1. Len(sent[r]) \in Nat
      BY EndTyped DEF IInv
    <3> QED
      BY <2>1, <2>2, <3>1, Sizes DEF Packets
  <2> QED
    BY <1>2, <2>2, <2>3
<1>5. ASSUME NEW r \in Roles, Decode(r)
      PROVE  [Chan!ChanNext]_(Chan!chanVars)
  <2>1. PICK q \in Roles : q = Peer(r)
    OBVIOUS
  <2>2. /\ Reading(r) /\ framed[r].readable /\ ~framed[r].errored
        /\ \E d, out : Decodes(r, q, d, out) /\ Settles(r, out)
    BY <1>5, <2>1, DecodeSplit
  <2>3. PICK d, out : Decodes(r, q, d, out) /\ Settles(r, out)
    BY <2>2
  <2>4. Keyed(r)
    BY <2>2, Readers
  <2>5. out = "frame" => /\ ~broken[r] /\ d.pkt = Len(delivered[r]) + 1
                         /\ Len(delivered[r]) + 1 \in 1 .. Len(sent[q])
    BY <2>1, <2>2, <2>3, <2>4, DecodedDirection
  <2>6. UNCHANGED sent /\ broken' = [broken EXCEPT ![r] = broken[r] \/ Failed(out)]
    BY <2>3 DEF Decodes
  <2>7. broken \in [Roles -> BOOLEAN]
    BY DEF IInv, Typed
  <2>8. CASE out = "frame"
    <3>1. ~Failed(out)
      BY <2>8 DEF Failed
    <3>2. broken' = broken
      BY <2>6, <2>7, <3>1
    <3>3. delivered' = [delivered EXCEPT ![r] = Append(@, sent[q][Len(delivered[r]) + 1])]
      BY <2>3, <2>5, <2>8 DEF Decodes
    <3>4. Chan!OtherEnd(r) = q
      BY <2>1, OtherEnds
    <3>5. Len(delivered[r]) + 1 <= Len(sent[q])
      BY <2>5, <2>8
    <3>6. Chan!ChanDeliver(r)
      BY <2>5, <2>6, <2>8, <3>2, <3>3, <3>4, <3>5 DEF Chan!ChanDeliver
    <3> QED
      BY <3>6 DEF Chan!ChanNext
  <2>9. CASE out # "frame"
    <3>1. UNCHANGED <<sent, delivered>>
      BY <2>3, <2>9 DEF Decodes
    <3>2. CASE Failed(out)
      <4>1. broken' = [broken EXCEPT ![r] = TRUE]
        BY <2>6, <3>2
      <4>2. Chan!ChanBreak(r)
        BY <3>1, <4>1 DEF Chan!ChanBreak
      <4> QED
        BY <4>2 DEF Chan!ChanNext
    <3>3. CASE ~Failed(out)
      <4>1. broken' = broken
        BY <2>6, <2>7, <3>3
      <4> QED
        BY <1>1, <3>1, <4>1
    <3> QED
      BY <3>2, <3>3
  <2> QED
    BY <2>8, <2>9
<1>6. CASE UNCHANGED <<sent, delivered, broken>>
  BY <1>1, <1>6
<1>7. QED
  BY <1>3, <1>4, <1>5, <1>6
     DEF Next, ConnectFails, ClientHandshakes, ServerRefuses, HandshakeTimeout, ReadSome,
         ReadEof, AfterError, Close, DamageByte, Cut, vars

\* An ADNL connection is a FIFO channel: what a reader gets is what the other end sent, in
\* order and once, through any splitting of the bytes and any damage to them, and nothing
\* after an error, even when it polls on.
THEOREM Refinement == Spec => ImplementsFifoChannel
<1>1. Init => Chan!ChanInit
  BY DEF Init, Chan!ChanInit
<1>2. QED
  BY <1>1, Inductive, NextRefines, PTL DEF Spec, ImplementsFifoChannel, Chan!ChanSpec
=============================================================================
