------------------------------- MODULE MCDemux -------------------------------
(* Demux with files of each kind.  Payloads hold bytes that look like parts *)
(* of headers.                                                              *)
EXTENDS Demux

Of(n, byte) == [k \in 1 .. n |-> byte]
Size16(n) == <<n \div 256, n % 256>>
Look == <<0, 0, 1, 224>>

(* Packets of a program stream                                             *)
Pack2(stuffing) == <<0, 0, 1, 186, 68>> \o Of(8, 1) \o <<248 + stuffing>> \o Of(stuffing, 255)
Pack1 == <<0, 0, 1, 186, 33>> \o Of(7, 1)
WeirdPack == <<0, 0, 1, 186, 0>>
Pes2(id, flags, header, payload) ==
  <<0, 0, 1, id>> \o Size16(3 + Len(header) + Len(payload)) \o
  <<128, flags, Len(header)>> \o header \o payload
Pes1(id, header, payload) ==
  <<0, 0, 1, id>> \o Size16(Len(header) + Len(payload)) \o header \o payload
Padding(n) == <<0, 0, 1, 190>> \o Size16(n) \o Of(n, 255)
Stamp1 == <<33, 0, 1, 0, 1>>
Stamp2 == <<49, 0, 1, 0, 1, 17, 0, 1, 0, 1>>
EndCode == <<0, 0, 1, 185>>

ProgramStreams ==
  {Pack2(2) \o Pes2(224, 128, Stamp1, Look) \o Padding(3) \o
     Pes2(224, 0, <<>>, <<0, 0>>) \o EndCode \o Pes2(224, 0, <<>>, <<9>>),
   Pack1 \o Pes1(224, <<255, 255, 64, 32>> \o Stamp2, Look) \o <<0, 0>> \o
     Pes1(224, <<15>>, <<0, 0, 1>>) \o Pes1(225, <<15>>, <<5>>),
   WeirdPack \o Pes1(224, Stamp1, <<>>) \o <<0, 0, 1, 179, 0, 0, 0>> \o
     Pes1(224, Of(20, 255) \o <<15>>, <<7>>) \o <<0, 0, 1, 224, 0, 1, 128, 0, 4, 1>>}

(* Packets of PVA                                                          *)
PvaPack(stream, flags, header, payload) ==
  <<65, 86, stream, 0, 85, flags>> \o Size16(Len(header) + Len(payload)) \o
  header \o payload
PvaFile ==
  PvaPack(2, 0, <<>>, <<65, 86>>) \o PvaPack(1, 23, <<0, 0, 0, 9>>, <<65, 65, 86, 1>>)
  \o <<65>> \o PvaPack(1, 0, <<>>, <<7>>) \o PvaPack(1, 18, <<0, 0, 0, 9>>, <<>>)
  \o PvaPack(1, 16, <<0, 0, 0, 9>>, <<65>>) \o <<65, 86, 1, 0>>

(* Transport packets of sixteen bytes                                      *)
TsPacket(begin, pid, payload) ==
  LET room == 12 - Len(payload) IN
  <<71, IF begin THEN 64 ELSE 0, pid>> \o
  (IF room = 0 THEN <<16>> ELSE <<48, room - 1>> \o Of(room - 1, 255)) \o payload
TsNone(pid) == <<71, 0, pid, 32, 11>> \o Of(11, 255)
TransportStreams ==
  {<<1>> \o TsPacket(FALSE, 17, Of(12, 3)) \o
     TsPacket(TRUE, 17, <<0, 0, 1, 224, 0, 0, 128, 128, 5, 33, 1>>) \o
     TsPacket(TRUE, 18, Look \o Of(8, 4)) \o TsPacket(FALSE, 17, Of(9, 1)) \o
     TsNone(17) \o <<71, 0>> \o TsPacket(TRUE, 17, <<0, 0>>) \o
     TsPacket(FALSE, 17, <<1, 225, 0, 9, 15>> \o Look),
   TsPacket(TRUE, 17, <<0, 0, 2, 1>>) \o TsPacket(FALSE, 17, Look) \o
     TsPacket(TRUE, 17, <<0, 0, 1, 224, 0, 0, 15, 6>>) \o TsPacket(TRUE, 17, <<0, 0>>)
     \o TsPacket(TRUE, 17, <<0, 0, 1, 200>>)}

File(kind, tags, track, bytes) ==
  [kind |-> kind, tags |-> tags, track |-> track, bytes |-> bytes]
SomeFiles ==
  {File("es", TRUE, 0, Of(9, 0))} \cup
  {File("ps", tags, 224, b) : tags \in BOOLEAN, b \in ProgramStreams} \cup
  {File("pva", tags, 0, PvaFile) : tags \in BOOLEAN} \cup
  {File("ts", tags, 17, b) : tags \in BOOLEAN, b \in TransportStreams}
=============================================================================
