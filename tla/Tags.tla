-------------------------------- MODULE Tags --------------------------------
(***************************************************************************)
(* The tags of libmpeg2 (mpeg2_tag_picture, mpeg2_header_picture): time    *)
(* stamps that the application sets between two calls and that come back   *)
(* with a picture.  A picture starts at the first byte of its start code,  *)
(* but its tag is chosen when its header is complete, up to the whole of   *)
(* the next start code later; the library looks back with bytes_since_tag  *)
(* and remembers one earlier tag.                                          *)
(*                                                                         *)
(* The stream is a position: a buffer may end, and a tag be set, at any    *)
(* byte.  Tags are numbered as they are set, 0 is none.                    *)
(***************************************************************************)
EXTENDS Integers, Sequences

CONSTANTS
  BufferSize,   \* the size of chunk_buffer
  MaxBytes,     \* bound on the bytes of the stream
  MaxTags       \* bound on the tags set

Prefix == 3                   \* 00 00 01

ASSUME TagsAssumption ==
  BufferSize \in Nat /\ MaxBytes \in Nat /\ MaxTags \in Nat

VARIABLES
  pc,           \* "scan"; "header" while a picture header is collected
  pos,          \* history: the bytes consumed
  scanned,      \* history: the bytes consumed since the last start code
  chunk,        \* chunk_ptr - chunk_start
  bytesSinceTag, numTags, tagCurrent, tagPrevious,
  tag,          \* the tag of new_picture
  setAt,        \* history: the position at which each tag was set
  start,        \* history: where the picture of the header starts
  decided,      \* history: the tags given to a picture, passed by or dropped
  crowded,      \* history: two tags were set inside one picture header
  expected      \* history: the tag new_picture should have

library == <<chunk, bytesSinceTag, numTags, tagCurrent, tagPrevious, tag>>
history == <<setAt, start, decided, crowded, expected>>
vars == <<pc, pos, scanned, chunk, bytesSinceTag, numTags, tagCurrent,
          tagPrevious, tag, setAt, start, decided, crowded, expected>>

Init ==
  /\ pc = "scan" /\ pos = 0 /\ scanned = 0
  /\ chunk = 0 /\ bytesSinceTag = 0 /\ numTags = 0
  /\ tagCurrent = 0 /\ tagPrevious = 0 /\ tag = 0
  /\ setAt = <<>> /\ start = 0 /\ decided = 0
  /\ crowded = FALSE /\ expected = 0

-----------------------------------------------------------------------------
(* mpeg2_tag_picture                                                       *)
TagPicture ==
  /\ Len(setAt) < MaxTags
  /\ tagPrevious' = tagCurrent /\ tagCurrent' = Len(setAt) + 1
  /\ numTags' = numTags + 1 /\ bytesSinceTag' = 0
  /\ setAt' = Append(setAt, pos)
  /\ UNCHANGED <<pc, pos, scanned, chunk, tag, start, decided, crowded,
                 expected>>

(* skip_chunk and copy_chunk on a byte that completes no start code.       *)
ByteUnchecked ==                                         \* mutant
  /\ pos < MaxBytes
  /\ pos' = pos + 1 /\ scanned' = scanned + 1
  /\ bytesSinceTag' = bytesSinceTag + 1
  /\ chunk' = IF pc = "header" THEN chunk + 1 ELSE chunk
  /\ UNCHANGED <<pc, numTags, tagCurrent, tagPrevious, tag, history>>
Byte ==
  /\ pos < MaxBytes
  /\ pc = "header" => chunk < BufferSize
  /\ pos' = pos + 1 /\ scanned' = scanned + 1
  /\ bytesSinceTag' = bytesSinceTag + 1
  /\ chunk' = IF pc = "header" THEN chunk + 1 ELSE chunk
  /\ UNCHANGED <<pc, numTags, tagCurrent, tagPrevious, tag, history>>

(* A start code is complete; of a picture whose header is collected next,  *)
(* or another one (also of a picture while no sequence is known).          *)
StartCode(picture) ==
  /\ pos' = pos + 1 /\ scanned' = 0
  /\ pc' = IF picture THEN "header" ELSE "scan"
  /\ start' = IF picture THEN pos - Prefix ELSE start

ScanFound(picture) ==
  /\ pc = "scan" /\ pos < MaxBytes /\ scanned >= Prefix
  /\ StartCode(picture)
  /\ bytesSinceTag' = bytesSinceTag + 1
  /\ chunk' = 0
  /\ UNCHANGED <<numTags, tagCurrent, tagPrevious, tag, setAt, decided,
                 crowded, expected>>

(* The choice mpeg2_header_picture makes; chunk_ptr is past the next start *)
(* code.                                                                   *)
AfterTagLate(bytes, length) == bytes >= length + Prefix  \* mutant
AfterTag(bytes, length) == bytes >= length + Prefix + 1

(* Tag m is the last one set before the picture started, and before it no  *)
(* earlier picture did; if m = decided there is no such tag.               *)
LastBefore(m) ==
  /\ m \in decided .. Len(setAt)
  /\ m # decided => setAt[m] <= start
  /\ \A k \in m + 1 .. Len(setAt) : setAt[k] > start

(* mpeg2_parse_header calls mpeg2_header_picture.                          *)
HeaderFound(picture) ==
  /\ pc = "header" /\ pos < MaxBytes /\ scanned >= Prefix
  /\ chunk < BufferSize
  /\ StartCode(picture)
  /\ bytesSinceTag' = bytesSinceTag + 1
  /\ IF numTags > 0 /\ AfterTag(bytesSinceTag', chunk + 1)
       THEN tag' = tagCurrent /\ numTags' = 0
       ELSE IF numTags > 1
              THEN tag' = tagPrevious /\ numTags' = 1
              ELSE tag' = 0 /\ UNCHANGED numTags
  /\ chunk' = 0
  /\ \E m \in 0 .. Len(setAt) : /\ LastBefore(m)
                                /\ decided' = m
                                /\ expected' = IF m = decided THEN 0 ELSE m
  /\ crowded' = (crowded \/ \E j, k \in DOMAIN setAt : j < k /\ setAt[j] > start)
  /\ UNCHANGED <<tagCurrent, tagPrevious, setAt>>

(* The header fills the chunk buffer, and is given up.                     *)
HeaderOverflow ==
  /\ pc = "header" /\ chunk = BufferSize
  /\ pc' = "scan"
  /\ UNCHANGED <<pos, scanned, library, history>>

(* mpeg2_reset                                                             *)
Reset ==
  /\ pc' = "scan" /\ scanned' = 0 /\ numTags' = 0
  /\ decided' = Len(setAt)
  /\ UNCHANGED <<pos, chunk, bytesSinceTag, tagCurrent, tagPrevious, tag,
                 setAt, start, crowded, expected>>

Next ==
  \/ TagPicture \/ Byte \/ HeaderOverflow \/ Reset
  \/ \E picture \in BOOLEAN : ScanFound(picture) \/ HeaderFound(picture)

Spec == Init /\ [][Next]_vars
-----------------------------------------------------------------------------
(* Every variable has its type, and a header fits in the chunk buffer.     *)
TypeOK ==
  /\ pc \in {"scan", "header"}
  /\ pos \in Nat /\ scanned \in Nat /\ start \in Nat
  /\ chunk \in 0 .. BufferSize /\ bytesSinceTag \in Nat
  /\ numTags \in Nat
  /\ setAt \in Seq(Nat)
  /\ tagCurrent \in 0 .. Len(setAt) /\ tagPrevious \in 0 .. Len(setAt)
  /\ tag \in 0 .. Len(setAt)
  /\ decided \in 0 .. Len(setAt) /\ expected \in 0 .. Len(setAt)
  /\ crowded \in BOOLEAN

(* A picture gets the last tag set before the first byte of its start      *)
(* code, unless an earlier picture did, wherever the buffers end; at most  *)
(* one tag may be set between there and the end of a header.               *)
TagsFollowPictures == ~crowded => tag = expected
=============================================================================
