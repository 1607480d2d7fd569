-------------------------------- MODULE Demux --------------------------------
(***************************************************************************)
(* The demultiplexers of mpeg2dec and extract_mpeg2: a file is read in     *)
(* pieces of one size, cut anywhere, and the elementary stream in it is    *)
(* passed on.  What is left of a header at the end of a piece is kept in   *)
(* head_buf, in static variables, until the next call.                     *)
(*                                                                         *)
(* A pointer into a buffer is the offset in the file of the byte there.    *)
(* An action is one NEEDBYTES, or what the code does between two of them.  *)
(* Bytes are real, as headers are told apart by them.                      *)
(***************************************************************************)
EXTENDS Integers, Sequences, FiniteSets

CONSTANTS
  Files,        \* records [kind, tags, track, bytes]
  Sizes,        \* of the buffer a file is read into
  PacketSize    \* of a transport stream, 188 in the code

Kinds == {"es", "ps", "ts", "pva"}

ASSUME DemuxAssumption ==
  /\ \A f \in Files : f.kind \in Kinds /\ f.tags \in BOOLEAN
                      /\ f.bytes \in Seq(0 .. 255)
  /\ Sizes \subseteq Nat \ {0}
  /\ PacketSize \in Nat \ (0 .. 4)

VARIABLES
  file,         \* which one; tags tells mpeg2dec from extract_mpeg2
  size,         \* buffer_size
  pc,
  start,        \* the offset of the first byte of buffer
  packet,       \* buf of ts_loop
  buf, end,     \* of demux or pva_demux
  state, stateBytes, headBuf,   \* static variables
  inHead,       \* header == head_buf
  need,         \* the NEEDBYTES to be done, and what for
  sent          \* history: the bytes and tags passed on

statics == <<state, stateBytes, headBuf>>
vars == <<file, size, pc, start, packet, buf, end, statics, inHead, need, sent>>

Length == Len(file.bytes)
Ts == file.kind = "ts"                          \* demux_pid
Pva == file.kind = "pva"
PrefixLength == IF Pva THEN 2 ELSE 4
NeedPrefix == [n |-> PrefixLength, of |-> "prefix"]
Least(a, b) == IF a < b THEN a ELSE b
Run(from, n) == [k \in 1 .. n |-> [byte |-> from + k - 1]]
SEND(from, to) == Run(from, to - from)          \* decode_mpeg2, fwrite

Init ==
  /\ file \in Files
  /\ size \in {n \in Sizes : Ts => n >= 2 * PacketSize - 2}
  /\ pc = "read" /\ start = 0 /\ packet = 0 /\ buf = 0 /\ end = 0
  /\ state = "skip" /\ stateBytes = 0 /\ headBuf = <<>>
  /\ inHead = FALSE /\ need = NeedPrefix
  /\ sent = <<>>

-----------------------------------------------------------------------------
(* es_loop, ps_loop and pva_loop.  A signal that ends them early is left   *)
(* out.                                                                    *)
Read ==
  /\ pc = "read" /\ ~Ts
  /\ start' = end /\ end' = Least(end + size, Length)
  /\ IF file.kind = "es"
       THEN buf' = end' /\ sent' = sent \o SEND(end, end') /\ pc' = "returned"
       ELSE buf' = end /\ pc' = "switch" /\ UNCHANGED sent
  /\ UNCHANGED <<file, size, packet, statics, inHead, need>>

Returned ==
  /\ pc = "returned" /\ ~Ts
  /\ pc' = IF end = start + size THEN "read" ELSE "done"
  /\ UNCHANGED <<file, size, start, packet, buf, end, statics, inHead, need,
                 sent>>

(* ts_loop.  What is left of the buffer moves to its front before the rest *)
(* is filled.  (A buffer of less than two packets, option -b, may make     *)
(* memcpy copy onto its source: Sizes are larger.)                         *)
Fill ==
  /\ pc = "read" /\ Ts
  /\ start' = packet /\ pc' = "packet"
  /\ UNCHANGED <<file, size, packet, buf, end, statics, inHead, need, sent>>

At(p) == file.bytes[p + 1]
Pid(p) == (At(p + 1) * 256 + At(p + 2)) % 8192
Payload(p) == IF (At(p + 3) \div 32) % 2 = 1 THEN p + 5 + At(p + 4) ELSE p + 4
HasPayload(p) == (At(p + 3) \div 16) % 2 = 1
PayloadStart(p) == (At(p + 1) \div 64) % 2 = 1

Wanted(p) ==
  /\ At(p) = 71 /\ Pid(p) = file.track
  /\ HasPayload(p) /\ Payload(p) <= p + PacketSize

FillEnd == Least(start + size, Length)
Packet ==
  /\ pc = "packet" /\ packet + PacketSize <= FillEnd
  /\ packet' = packet + (IF At(packet) = 71 THEN PacketSize ELSE 1)
  /\ IF Wanted(packet)
       THEN /\ buf' = Payload(packet) /\ end' = packet'
            /\ pc' = IF PayloadStart(packet) THEN "need" ELSE "switch"
       ELSE UNCHANGED <<pc, buf, end>>
  /\ inHead' = FALSE /\ need' = NeedPrefix
  /\ UNCHANGED <<file, size, start, statics, sent>>

LastPacket ==
  /\ pc = "packet" /\ packet + PacketSize > FillEnd
  /\ pc' = IF FillEnd = start + size THEN "read" ELSE "done"
  /\ UNCHANGED <<file, size, start, packet, buf, end, statics, inHead, need, sent>>

Back == IF Ts THEN "packet" ELSE "returned"

-----------------------------------------------------------------------------
(* demux and pva_demux: the switch on what the call before left            *)
Switch ==
  /\ pc = "switch"
  /\ inHead' = (state = "header" /\ stateBytes > 0)
  /\ need' = NeedPrefix
  /\ LET all == state # "header" /\ (Ts \/ stateBytes > end - buf)
         to == IF state = "header" THEN buf ELSE IF all THEN end
               ELSE buf + stateBytes
     IN /\ sent' = IF state = "data" THEN sent \o SEND(buf, to) ELSE sent
        /\ buf' = to
        /\ IF all
             THEN stateBytes' = stateBytes - (end - buf) /\ pc' = Back
                  /\ UNCHANGED state
             ELSE IF Ts /\ ~inHead'
               THEN state' = "skip" /\ pc' = Back /\ UNCHANGED stateBytes
               ELSE pc' = "need" /\ UNCHANGED <<state, stateBytes>>
  /\ UNCHANGED <<file, size, start, packet, end, headBuf>>

(* The header, as far as it is there: bytes and header[k].  The first      *)
(* stateBytes of head_buf are those that belong to it.                     *)
Bytes == IF inHead THEN stateBytes ELSE end - buf
Offset(k) == IF inHead THEN headBuf[k + 1] ELSE buf + k
Header(k) == At(Offset(k))
Bits(k, n) == Header(k) \div n          \* header[k] >> log2 (n)
Long(k) == Header(k) * 256 + Header(k + 1)
Copy(n, from) == [k \in 1 .. n |-> from + k - 1]

(* NEEDBYTES: more of a header that is in head_buf already                 *)
NeedBytes ==
  /\ pc = "need" /\ inHead /\ need.n > Bytes
  /\ LET n == Least(need.n - Bytes, end - buf) IN
     /\ headBuf' = SubSeq(headBuf, 1, Bytes) \o Copy(n, buf)
     /\ stateBytes' = Bytes + n
     /\ IF need.n - Bytes <= end - buf
          THEN buf' = buf + n /\ UNCHANGED pc
          ELSE pc' = Back /\ UNCHANGED buf
  /\ UNCHANGED <<file, size, start, packet, end, state, inHead, need, sent>>

(* NEEDBYTES: the rest of this call is the beginning of a header.          *)
SaveHeader ==
  /\ pc = "need" /\ ~inHead /\ need.n > Bytes
  /\ headBuf' = Copy(Bytes, buf)
  /\ state' = "header" /\ stateBytes' = Bytes
  /\ pc' = Back
  /\ UNCHANGED <<file, size, start, packet, buf, end, inHead, need, sent>>

(* DONEBYTES                                                               *)
Done(n) == IF inHead THEN buf ELSE buf + n

Satisfied == pc = "need" /\ need.n <= Bytes

(* On to the next header                                                   *)
NextHeader(from) ==
  /\ buf' = from /\ inHead' = FALSE /\ need' = NeedPrefix
  /\ IF Ts THEN state' = "skip" /\ pc' = Back ELSE UNCHANGED <<state, pc>>
  /\ UNCHANGED <<file, size, start, packet, end, stateBytes, headBuf>>

(* On to another NEEDBYTES of this header                                  *)
NeedMore(n, of) ==
  /\ need' = [n |-> n, of |-> of]
  /\ UNCHANGED <<file, size, pc, start, packet, buf, end, statics, inHead, sent>>

(* What follows the header, to be passed on or to be skipped               *)
Contents(from, n, what, before) ==
  IF (what = "data" /\ Ts) \/ n > end - from
    THEN /\ sent' = IF what = "data" THEN before \o SEND(from, end) ELSE before
         /\ state' = what /\ stateBytes' = n - (end - from)
         /\ buf' = end /\ pc' = Back
         /\ UNCHANGED <<file, size, start, packet, end, headBuf, inHead, need>>
    ELSE /\ sent' = IF what = "data" /\ n > 0
                      THEN before \o SEND(from, from + n) ELSE before
         /\ NextHeader(IF n > 0 THEN from + n ELSE from)

-----------------------------------------------------------------------------
(* Headers of a program stream, or of the packets of a transport stream    *)
Prefix == Header(0) = 0 /\ Header(1) = 0 /\ Header(2) = 1
Satisfies(of) == Satisfied /\ need.of = of /\ ~Pva

(* Mutant: the last bytes of head_buf are not kept as a beginning.         *)
NoPrefixForgets ==
  /\ Satisfies("prefix") /\ ~Prefix
  /\ IF Ts \/ ~inHead
       THEN NextHeader(IF Ts THEN buf ELSE buf + 1) /\ UNCHANGED sent
       ELSE /\ headBuf' = <<>> /\ stateBytes' = 0
            /\ UNCHANGED <<file, size, pc, start, packet, buf, end, state,
                           inHead, need, sent>>

(* Mutant: buf is not advanced.                                            *)
NoPrefixStays ==
  /\ Satisfies("prefix") /\ ~Prefix
  /\ IF Ts \/ ~inHead THEN NextHeader(buf) /\ UNCHANGED sent
     ELSE /\ headBuf' = <<headBuf[2], headBuf[3], headBuf[4]>>
          /\ stateBytes' = 3
          /\ UNCHANGED <<file, size, pc, start, packet, buf, end, state, inHead,
                         need, sent>>

NoPrefix ==
  /\ Satisfies("prefix") /\ ~Prefix
  /\ IF Ts THEN NextHeader(buf) /\ UNCHANGED sent
     ELSE IF ~inHead THEN NextHeader(buf + 1) /\ UNCHANGED sent
     ELSE /\ headBuf' = <<headBuf[2], headBuf[3], headBuf[4]>>
          /\ stateBytes' = 3
          /\ UNCHANGED <<file, size, pc, start, packet, buf, end, state, inHead,
                         need, sent>>

Stop(where) ==
  /\ pc' = where
  /\ UNCHANGED <<file, size, start, packet, buf, end, statics, inHead, need, sent>>

StreamId ==
  /\ Satisfies("prefix") /\ Prefix
  /\ LET id == Header(3) IN
     IF Ts THEN IF id \in 224 .. 239 THEN NeedMore(7, "pes") ELSE Stop("exit")
     ELSE IF id = 185 THEN Stop("done")          \* program end code
     ELSE IF id = 186 THEN NeedMore(5, "pack")
     ELSE IF id = file.track THEN NeedMore(7, "pes")
     ELSE IF id < 185 THEN NextHeader(Done(4)) /\ UNCHANGED sent
     ELSE NeedMore(6, "other")

PackHeader ==
  \/ /\ Satisfies("pack")
     /\ IF Bits(4, 64) = 1 THEN NeedMore(14, "pack2")
        ELSE IF Bits(4, 16) = 2 THEN NeedMore(12, "packEnd")
        ELSE NextHeader(Done(5)) /\ UNCHANGED sent
  \/ /\ Satisfies("pack2") /\ NeedMore(14 + (Header(13) % 8), "packEnd")
  \/ /\ Satisfies("packEnd") /\ NextHeader(Done(need.n)) /\ UNCHANGED sent

OtherPacket ==
  Satisfies("other") /\ Contents(Done(6), Long(4), "skip", sent)

(* The fields of a packet header.  mpeg1_skip_table tells by the first     *)
(* bits of what follows stuffing and buffer size how long time stamps are. *)
mpeg1_skip_table == [k \in 0 .. 15 |-> IF k = 2 THEN 4 ELSE IF k = 3 THEN 9 ELSE 0]
AfterStuffing(len) ==
  IF Bits(len - 1, 64) = 1
    THEN NeedMore(len + 2, "buffer")
    ELSE NeedMore(len + mpeg1_skip_table[Bits(len - 1, 16)],
                  IF Bits(len - 1, 32) = 1 THEN "stamped" ELSE "plain")
Stuffing(len) ==
  IF Header(len - 1) = 255 /\ len <= 23
    THEN NeedMore(len + 1, "stuffing") ELSE AfterStuffing(len)

PesHeader ==
  \/ /\ Satisfies("pes")
     /\ IF Bits(6, 64) = 2 THEN NeedMore(9, "pes2") ELSE Stuffing(7)
  \/ Satisfies("stuffing") /\ Stuffing(need.n)
  \/ /\ Satisfies("buffer")
     /\ NeedMore(need.n + mpeg1_skip_table[Bits(need.n - 1, 16)],
                 IF Bits(need.n - 1, 32) = 1 THEN "stamped" ELSE "plain")
  \/ /\ Satisfies("pes2")
     /\ NeedMore(9 + Header(8), IF Header(7) >= 128 THEN "stamped" ELSE "plain")

(* mpeg2_tag_picture is called with the time stamps of the header, which   *)
(* are not looked at here, before its packet is decoded.                   *)
TAG(tag) == IF tag /\ file.tags THEN <<[tag |-> Offset(0)]>> ELSE <<>>

PesPacket ==
  /\ Satisfied /\ need.of \in {"stamped", "plain"} /\ ~Pva
  /\ Contents(Done(need.n), 6 + Long(4) - need.n, "data",
              sent \o TAG(need.of = "stamped"))

-----------------------------------------------------------------------------
(* pva_demux                                                               *)
PvaPrefix ==
  /\ Satisfied /\ Pva /\ need.of = "prefix"
  /\ IF Header(0) = 65 /\ Header(1) = 86 THEN NeedMore(8, "pva")
     ELSE IF ~inHead THEN NextHeader(buf + 1) /\ UNCHANGED sent
     ELSE /\ headBuf' = <<headBuf[2]>> /\ stateBytes' = 1
          /\ UNCHANGED <<file, size, pc, start, packet, buf, end, state, inHead,
                         need, sent>>

(* Mutant: more bits are taken for the number of bytes before the picture. *)
PvaHeaderWide ==
  /\ Satisfied /\ Pva /\ need.of = "pva"
  /\ IF Header(2) # 1 THEN Contents(Done(8), Long(6), "skip", sent)
     ELSE IF Bits(5, 16) % 2 = 1 THEN NeedMore(12 + (Header(5) % 8), "pvaEnd")
     ELSE Contents(Done(8), Long(6), "data", sent)

(* A packet of video may begin with a time stamp, and with up to three     *)
(* bytes that belong to the picture before it.  extract_mpeg2 leaves them  *)
(* to the contents.                                                        *)
PvaHeader ==
  /\ Satisfied /\ Pva /\ need.of = "pva"
  /\ IF Header(2) # 1 THEN Contents(Done(8), Long(6), "skip", sent)
     ELSE IF Bits(5, 16) % 2 = 1
       THEN NeedMore(12 + (IF file.tags THEN Header(5) % 4 ELSE 0), "pvaEnd")
     ELSE Contents(Done(8), Long(6), "data", sent)

PvaPacket ==
  /\ Satisfied /\ Pva /\ need.of = "pvaEnd"
  /\ Contents(Done(need.n), Long(6) + 8 - need.n, "data",
              sent \o [k \in 1 .. need.n - 12 |-> [byte |-> Offset(11 + k)]]
                   \o TAG(TRUE))

Next ==
  \/ Read \/ Returned \/ Fill \/ Packet \/ LastPacket
  \/ Switch \/ NeedBytes \/ SaveHeader
  \/ NoPrefix \/ StreamId \/ PackHeader \/ OtherPacket \/ PesHeader \/ PesPacket
  \/ PvaPrefix \/ PvaHeader \/ PvaPacket

Spec == Init /\ [][Next]_vars /\ WF_vars(Next)
-----------------------------------------------------------------------------
(* The elementary stream of a file, without any regard to pieces: what     *)
(* follows the header of each packet.  A header, or a part of a transport  *)
(* packet, is a sequence of offsets.                                       *)
Byte(f, p) == IF p < Len(f.bytes) THEN f.bytes[p + 1] ELSE 0
Item(f, q, k) == IF k < Len(q) THEN Byte(f, q[k + 1]) ELSE 0

SizeField(f, q) ==
  CHOOSE len \in 7 .. 24 :
    /\ Item(f, q, len - 1) # 255 \/ len = 24
    /\ \A k \in 7 .. len - 1 : Item(f, q, k - 1) = 255
StampField(f, q) ==
  LET len == SizeField(f, q)
  IN IF Item(f, q, len - 1) \div 64 = 1 THEN len + 2 ELSE len
IsMpeg2(f, q) == Item(f, q, 6) \div 64 = 2
HeaderLength(f, q) ==
  IF IsMpeg2(f, q) THEN 9 + Item(f, q, 8)
  ELSE LET len == StampField(f, q) IN
       len + (CASE Item(f, q, len - 1) \div 16 = 2 -> 4
                [] Item(f, q, len - 1) \div 16 = 3 -> 9
                [] OTHER -> 0)
Stamped(f, q) ==
  f.tags /\ IF IsMpeg2(f, q) THEN Item(f, q, 7) >= 128
            ELSE Item(f, q, StampField(f, q) - 1) \div 32 = 1
Stamp(q) == <<[tag |-> q[1]]>>
Sent(q) == [k \in DOMAIN q |-> [byte |-> q[k]]]
From(q, n) == SubSeq(q, n + 1, Len(q))

(* A packet of video that starts q and has n bytes                         *)
PesStream(f, q, n) ==
  IF HeaderLength(f, q) > Len(q) THEN <<>>
  ELSE (IF Stamped(f, q) THEN Stamp(q) ELSE <<>>) \o
       Sent(From(SubSeq(q, 1, Least(n, Len(q))), HeaderLength(f, q)))

PackLength(f, q) ==
  CASE Item(f, q, 4) \div 64 = 1 -> 14 + (Item(f, q, 13) % 8)
    [] Item(f, q, 4) \div 16 = 2 -> 12
    [] OTHER -> 5

Greatest(a, b) == IF a > b THEN a ELSE b
FromByte(f, p) == Copy(Len(f.bytes) - p, p)
StartsWith(f, q, code) ==
  Len(q) >= Len(code) /\ \A k \in DOMAIN code : Item(f, q, k - 1) = code[k]

(* What is passed on from the byte p on, if rest[n] is from n on, n > p    *)
ProgramFrom(f, rest, p) ==
  LET q == FromByte(f, p)
      id == Item(f, q, 3)
      n == 6 + Item(f, q, 4) * 256 + Item(f, q, 5)
  IN IF Len(q) < 4 THEN <<>>
     ELSE IF ~StartsWith(f, q, <<0, 0, 1>>) THEN rest[p + 1]
     ELSE CASE id = 185 -> <<>>
            [] id = 186 -> rest[p + PackLength(f, q)]
            [] id = f.track /\ id \notin {185, 186} ->
                 PesStream(f, q, n) \o rest[p + Greatest(n, HeaderLength(f, q))]
            [] id < 185 /\ id # f.track -> rest[p + 4]
            [] id > 186 /\ id # f.track -> rest[p + n]

PvaStamped(f, q) == (Item(f, q, 5) \div 16) % 2 = 1
PvaEarly(f, q) == IF f.tags THEN Item(f, q, 5) % 4 ELSE 0
PvaHeaderLength(f, q) ==
  IF Item(f, q, 2) = 1 /\ PvaStamped(f, q) THEN 12 + PvaEarly(f, q) ELSE 8
PvaPacketStream(f, q, n) ==
  LET len == PvaHeaderLength(f, q) IN
  IF Item(f, q, 2) # 1 \/ Len(q) < len THEN <<>>
  ELSE Sent(SubSeq(q, 13, len)) \o
       (IF f.tags /\ len > 8 THEN Stamp(q) ELSE <<>>) \o
       Sent(From(SubSeq(q, 1, Least(n, Len(q))), len))

PvaFrom(f, rest, p) ==
  LET q == FromByte(f, p)
      n == 8 + Item(f, q, 6) * 256 + Item(f, q, 7)
  IN IF Len(q) < 2 THEN <<>>
     ELSE IF ~StartsWith(f, q, <<65, 86>>) THEN rest[p + 1]
     ELSE PvaPacketStream(f, q, n) \o rest[p + Greatest(n, PvaHeaderLength(f, q))]

(* Transport packets carry packets of video piece by piece.  Of those from *)
(* p on: what comes now, to the packet of video begun before p, and what   *)
(* is passed on later.  A packet of video starts with its first byte: a    *)
(* transport packet that has none starts nothing.                          *)
Field(f, p, k) == Byte(f, p + k)
Body(f, p) ==
  p + (IF (Field(f, p, 3) \div 32) % 2 = 1 THEN 5 + Field(f, p, 4) ELSE 4)
Mine(f, p) ==
  /\ (Field(f, p, 1) * 256 + Field(f, p, 2)) % 8192 = f.track
  /\ (Field(f, p, 3) \div 16) % 2 = 1 /\ Body(f, p) <= p + PacketSize
Video(f, q) ==
  IF StartsWith(f, q, <<0, 0, 1>>) THEN PesStream(f, q, Len(q)) ELSE <<>>

Nothing == [now |-> <<>>, later |-> <<>>]
UnitsFrom(f, rest, p) ==
  IF p + PacketSize > Len(f.bytes) THEN Nothing
  ELSE IF Field(f, p, 0) # 71 THEN rest[p + 1]
  ELSE LET next == rest[p + PacketSize]
           body == Copy(p + PacketSize - Body(f, p), Body(f, p))
       IN IF ~Mine(f, p) THEN next
          ELSE IF (Field(f, p, 1) \div 64) % 2 = 0
            THEN [now |-> body \o next.now, later |-> next.later]
          ELSE [now |-> <<>>,
                later |-> (IF body = <<>> THEN <<>> ELSE Video(f, body \o next.now))
                          \o next.later]

StreamFrom(f, rest, p) ==
  CASE f.kind = "es" -> Sent(FromByte(f, p))
    [] f.kind = "ps" -> ProgramFrom(f, rest, p)
    [] f.kind = "pva" -> PvaFrom(f, rest, p)
    [] f.kind = "ts" -> UnitsFrom(f, rest, p)
Remaining(f) == LET Rest[p \in Nat] == StreamFrom(f, Rest, p) IN Rest

ElementaryStream ==
  [f \in Files |-> IF f.kind = "ts" THEN Remaining(f)[0].later ELSE Remaining(f)[0]]

-----------------------------------------------------------------------------
HeadSize == CASE ~Pva -> 264 [] Pva /\ file.tags -> 15 [] OTHER -> 12

(* With it: a header that is collected fits into head_buf.                 *)
TypeOK ==
  /\ file \in Files /\ size \in Sizes
  /\ pc \in {"read", "returned", "packet", "switch", "need", "done", "exit"}
  /\ {start, packet} \subseteq 0 .. Length
  /\ buf <= end /\ end \in 0 .. Length /\ buf \in Nat
  /\ state \in {"header", "data", "skip"} /\ stateBytes \in Int
  /\ inHead \in BOOLEAN /\ Len(headBuf) <= HeadSize
  /\ state = "header" => stateBytes \in 0 .. Len(headBuf)

(* However the file is cut into pieces, also inside of headers, their      *)
(* prefixes and what is skipped, the bytes passed on to the decoder are    *)
(* those of the elementary stream, in order, and each tag comes before the *)
(* bytes of its packet.                                                    *)
AsInOnePiece ==
  /\ Len(sent) <= Len(ElementaryStream[file])
  /\ sent = SubSeq(ElementaryStream[file], 1, Len(sent))
  /\ pc = "done" => sent = ElementaryStream[file]

(* The loops of the demultiplexers come to the end of every file: each     *)
(* turn without a return uses up bytes.                                    *)
EndsEverywhere == <>(pc \in {"done", "exit"})
=============================================================================
