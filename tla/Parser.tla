------------------------------- MODULE Parser -------------------------------
(***************************************************************************)
(* The control of libmpeg2: mpeg2_parse, mpeg2_seek_header,                *)
(* mpeg2_parse_header and the scanning of start codes (decode.c), with the *)
(* header handlers they call (header.c) reduced to what steers control.    *)
(*                                                                         *)
(* A call of mpeg2_parse is a run of small steps, from Parse to the step   *)
(* that sets pc back to "app"; between calls the application owns the      *)
(* decoder.  "pc" names the function or loop that runs, "action" is the    *)
(* continuation the decoder stores between calls.  The stream is not       *)
(* stored: the next start code, and where it lies, are chosen when it is   *)
(* found, so every way of cutting every stream into buffers is explored.   *)
(***************************************************************************)
EXTENDS Integers

CONSTANTS
  Prefix,       \* bytes of a start code before its last one: 00 00 01, so 3
  BufferSize,   \* bytes of chunk_buffer (BUFFER_SIZE in mpeg2_internal.h)
  MaxInput,     \* the longest piece the application gives to mpeg2_buffer
  Geometries,   \* values of the sequence fields that force a restart
  NoSequence,   \* sequence.width = (unsigned)-1, and "no buffers allocated"
  PlainExt,     \* picture extensions that leave control alone: quant_matrix
                \* and copyright
  Regions,      \* what the application passes to mpeg2_slice_region
  ResetAt       \* returned states after which the application may reset

ASSUME BufferAssumption ==
  BufferSize \in Nat /\ MaxInput \in Nat /\ Prefix \in 1 .. BufferSize
ASSUME RegionAssumption == Regions \subseteq SUBSET {"slice1", "slice2"}
ASSUME ExtensionAssumption ==
  PlainExt \cap {"sequence", "sequence_display", "coding", "picture_display"} = {}
ASSUME SequenceAssumption == NoSequence \notin Geometries

VARIABLES
  pc,           \* "app", or the function or loop that runs
  ret,          \* what the last call returned; "READY" until a call returns
  action,       \* mpeg2dec->action
  code,         \* mpeg2dec->code
  state,        \* mpeg2dec->state
  input,        \* buf_end - buf_start
  scanned,      \* bytes since the last start code, up to BufferSize + 1
  chunkStart,   \* chunk_start - chunk_buffer
  chunkPtr,     \* chunk_ptr - chunk_buffer
  userDataLen,  \* mpeg2dec->user_data_len
  userData,     \* info.user_data_len (info.user_data is NULL when 0)
  extState,     \* mpeg2dec->ext_state: the extensions still accepted
  newSequence,  \* geometry in new_sequence
  sequence,     \* geometry in sequence
  decoder,      \* geometry in decoder (width, height, stride_frame, ...)
  buffers,      \* geometry the frame buffers were allocated for
  newFields,    \* new_picture.nb_fields: 1, or 2 for two and more
  fields,       \* picture->nb_fields
  region,       \* first_decode_slice and nb_decode_slices, as a set of codes
  announced     \* history: a picture was announced and not yet delivered

stream == <<input, scanned>>
chunk  == <<chunkStart, chunkPtr, userDataLen>>
header == <<extState, newSequence, newFields>>
setup  == <<sequence, decoder, buffers, region>>
vars   == <<pc, ret, action, code, state, input, scanned, chunkStart,
            chunkPtr, userDataLen, userData, extState, newSequence, sequence,
            decoder, buffers, newFields, fields, region, announced>>

SliceCodes == {"slice1", "slice2"}     \* 0x01, and 0x02 .. 0xaf
Codes == SliceCodes \cup
  {"picture", "user_data", "sequence", "extension", "end", "gop", "other"}
HeaderCodes == {"picture", "extension", "user_data", "sequence", "gop"}

States == {"INVALID", "SEQUENCE", "SEQUENCE_REPEATED", "SEQUENCE_MODIFIED",
           "GOP", "PICTURE", "SLICE_1ST", "PICTURE_2ND", "SLICE",
           "INVALID_END"}
Results == States \cup {"BUFFER", "END", "READY", "RESET"}
Actions == {"none", "seek_chunk", "seek_header", "parse_header",
            "slice_start", "invalid_end", "seek_sequence"}
Loops == (Actions \ {"none"}) \cup {"app", "process", "transition", "slices"}

SequenceExt == {"sequence", "sequence_display"}
PictureExt  == {"coding", "picture_display"} \cup PlainExt
Checked == {"sequence", "sequence_display", "coding", "picture_display"}

Saturate(n) == IF n > BufferSize THEN BufferSize + 1 ELSE n
Room == BufferSize - chunkPtr

Return(r) == /\ pc' = "app"
             /\ ret' = r
             /\ announced' = CASE r \in {"PICTURE", "PICTURE_2ND"} -> TRUE
                               [] r = "SLICE" -> FALSE
                               [] OTHER -> announced

Goto(l) == /\ pc' = l
           /\ UNCHANGED <<ret, announced>>

-----------------------------------------------------------------------------
(* Scanning.  A start code can end after k more bytes when at least the    *)
(* prefix bytes were scanned since the last one (the shift register  *)
(* is reset at every start code).                                          *)

FoundAfter(k) == /\ scanned + k > Prefix
                 /\ input' = input - k
                 /\ scanned' = 0

SkipFound(c) == \E k \in 1 .. input : FoundAfter(k) /\ code' = c

(* Mutant: buf_start is not advanced past the bytes scanned.               *)
SkipStarvedStays == /\ scanned' = Saturate(scanned + input)
                    /\ UNCHANGED <<input, code>>

SkipStarved == /\ input' = 0
               /\ scanned' = Saturate(scanned + input)
               /\ UNCHANGED code

(* copy_chunk stores k - 1 bytes and leaves chunk_ptr one past them.       *)
CopyFound == \E k \in 1 .. input : /\ k <= Room
                                   /\ FoundAfter(k)
                                   /\ chunkPtr' = chunkPtr + k

(* Mutant: the size of the chunk buffer is not tested.                     *)
CopyStarvedUnchecked == /\ input' = 0
                        /\ scanned' = Saturate(scanned + input)
                        /\ chunkPtr' = chunkPtr + input

CopyStarved == /\ input <= Room
               /\ input' = 0
               /\ scanned' = Saturate(scanned + input)
               /\ chunkPtr' = chunkPtr + input

(* The chunk buffer fills up: chunk_ptr is not stored back.                *)
CopyOverflow == /\ input > Room
                /\ input' = input - Room
                /\ scanned' = Saturate(scanned + Room)
                /\ UNCHANGED chunkPtr

-----------------------------------------------------------------------------
(* Mutant: the frame buffers of the last sequence are kept.                *)
StateInitKeepsBuffers == region' = SliceCodes /\ UNCHANGED buffers

(* mpeg2_header_state_init, as far as control depends on it.               *)
StateInit == /\ buffers' = NoSequence
             /\ region' = SliceCodes

Init ==
  /\ pc = "app" /\ ret = "READY" /\ action = "seek_header"
  /\ code = "other" /\ state = "INVALID"
  /\ input = 0 /\ scanned = 0
  /\ chunkStart = 0 /\ chunkPtr = 0 /\ userDataLen = 0 /\ userData = 0
  /\ extState = {} /\ newFields = 2 /\ fields = 2
  /\ newSequence = NoSequence /\ sequence = NoSequence
  /\ decoder = NoSequence /\ buffers = NoSequence
  /\ region = SliceCodes /\ announced = FALSE

-----------------------------------------------------------------------------
(* The application.                                                        *)

Buffer(n) ==                                             \* mpeg2_buffer
  /\ pc = "app" /\ ret \in {"BUFFER", "RESET"}
  /\ input' = n
  /\ ret' = "READY"
  /\ UNCHANGED <<pc, action, code, state, scanned, chunk, userData,
                 header, setup, fields, announced>>

SetRegion(r) ==                           \* mpeg2_skip, mpeg2_slice_region
  /\ pc = "app" /\ ret \in {"SEQUENCE", "PICTURE"}
  /\ region' = r
  /\ UNCHANGED <<pc, ret, action, code, state, stream, chunk, userData,
                 header, sequence, decoder, buffers, fields, announced>>

(* Mutant: mpeg2_reset leaves the stored action.                           *)
ResetKeepsAction(full) ==
  /\ pc = "app" /\ ret \in ResetAt
  /\ input' = 0 /\ scanned' = 0 /\ code' = "other" /\ state' = "INVALID"
  /\ userData' = 0 /\ ret' = "RESET" /\ announced' = FALSE
  /\ IF full THEN StateInit /\ sequence' = NoSequence
             ELSE UNCHANGED <<sequence, buffers, region>>
  /\ UNCHANGED <<pc, action, chunk, header, decoder, fields>>

Reset(full) ==                                           \* mpeg2_reset
  /\ pc = "app" /\ ret \in ResetAt
  /\ input' = 0 /\ scanned' = 0
  /\ code' = "other" /\ action' = "seek_header" /\ state' = "INVALID"
  /\ userData' = 0
  /\ ret' = "RESET" /\ announced' = FALSE
  /\ IF full THEN StateInit /\ sequence' = NoSequence
             ELSE UNCHANGED <<sequence, buffers, region>>
  /\ UNCHANGED <<pc, chunk, header, decoder, fields>>

(* mpeg2_parse, lines 156 to 162: call the stored action, or fall through  *)
(* into the slice loop.                                                    *)
Parse ==
  /\ pc = "app"
  /\ pc' = IF action = "none" THEN "slices" ELSE action
  /\ ret' = "READY"
  /\ userData' = IF action = "parse_header" THEN 0 ELSE userData
  /\ UNCHANGED <<announced, action, code, state, stream, chunk, header, setup,
                 fields>>

-----------------------------------------------------------------------------
(* Looking for a header.                                                   *)

SeekChunk ==                   \* the action seek_chunk, left by mpeg2_parse
  /\ pc = "seek_chunk"
  /\ \/ SkipStarved /\ Return("BUFFER")
     \/ (\E c \in Codes : SkipFound(c)) /\ Goto("slices")
  /\ UNCHANGED <<action, state, chunk, userData, header, setup, fields>>

AtHeader == \/ code = "sequence"
            \/ code \in {"end", "gop", "picture"} /\ sequence # NoSequence

(* Mutant: the search is repeated when the buffer is used up.              *)
SeekHeaderInsists ==
  /\ pc = "seek_header" /\ ~AtHeader
  /\ SkipStarved \/ \E c \in Codes : SkipFound(c)
  /\ Goto("seek_header")
  /\ UNCHANGED <<action, state, chunk, userData, header, setup, fields>>

SeekHeader ==
  /\ pc = "seek_header" /\ ~AtHeader
  /\ \/ SkipStarved /\ Return("BUFFER")
     \/ (\E c \in Codes : SkipFound(c)) /\ Goto("seek_header")
  /\ UNCHANGED <<action, state, chunk, userData, header, setup, fields>>

(* Mutant: user_data_len still counts the user data of the last header.    *)
StartHeaderKeepsLength ==
  /\ pc = "seek_header" /\ AtHeader /\ code # "end"
  /\ chunkStart' = 0 /\ chunkPtr' = 0
  /\ action' = "parse_header" /\ userData' = 0
  /\ Goto("parse_header")
  /\ UNCHANGED <<code, state, stream, userDataLen, header, setup, fields>>

StartHeader ==
  /\ pc = "seek_header" /\ AtHeader /\ code # "end"
  /\ chunkStart' = 0 /\ chunkPtr' = 0 /\ userDataLen' = 0
  /\ action' = "parse_header" /\ userData' = 0
  /\ Goto("parse_header")
  /\ UNCHANGED <<code, state, stream, header, setup, fields>>

(* Mutant: the library looks for the next header, which it is at already.  *)
HeaderEndSeeksHeader ==
  /\ pc = "seek_header" /\ AtHeader /\ code = "end"
  /\ chunkStart' = 0 /\ chunkPtr' = 0 /\ userDataLen' = 0
  /\ action' = "seek_header"
  /\ Return("END")
  /\ UNCHANGED <<code, state, stream, userData, header, setup, fields>>

HeaderEnd ==                                             \* mpeg2_header_end
  /\ pc = "seek_header" /\ AtHeader /\ code = "end"
  /\ chunkStart' = 0 /\ chunkPtr' = 0 /\ userDataLen' = 0
  /\ action' = "seek_sequence"
  /\ Return("END")
  /\ UNCHANGED <<code, state, stream, userData, header, setup, fields>>

SeekSequence ==
  /\ pc = "seek_sequence"
  /\ StateInit /\ sequence' = NoSequence
  /\ action' = "seek_header"
  /\ Goto("seek_header")
  /\ UNCHANGED <<code, state, stream, chunk, userData, header, decoder,
                 fields>>

-----------------------------------------------------------------------------
(* mpeg2_parse_header: collect a header, process it, and decide by the     *)
(* start code that follows it.                                             *)

HeaderStarved ==
  /\ pc = "parse_header" /\ CopyStarved
  /\ Return("BUFFER")
  /\ UNCHANGED <<action, code, state, chunkStart, userDataLen, userData,
                 header, setup, fields>>

HeaderOverflow ==
  /\ pc = "parse_header" /\ CopyOverflow
  /\ code' = "other" /\ action' = "seek_header"
  /\ Return("INVALID")
  /\ UNCHANGED <<state, chunkStart, userDataLen, userData, header,
                 setup, fields>>

HeaderFound ==
  /\ pc = "parse_header" /\ CopyFound
  /\ Goto("process")
  /\ UNCHANGED <<action, code, state, chunkStart, userDataLen, userData,
                 header, setup, fields>>

Accept == /\ pc = "process"
          /\ code' \in Codes        \* buf_start[-1]
          /\ Goto("transition")
          /\ UNCHANGED <<action, stream, chunkPtr, userData, setup,
                         fields>>

(* Mutant: a picture header does not replace ext_state.                    *)
PictureHeaderKeepsExtensions ==
  /\ code = "picture" /\ Accept
  /\ state' = IF state = "SLICE_1ST" THEN "PICTURE_2ND" ELSE "PICTURE"
  /\ extState' = extState \cup {"coding"} /\ newFields' = 2
  /\ UNCHANGED <<chunkStart, userDataLen, newSequence>>

PictureHeader ==                                         \* mpeg2_header_picture
  /\ code = "picture" /\ Accept
  /\ state' = IF state = "SLICE_1ST" THEN "PICTURE_2ND" ELSE "PICTURE"
  /\ extState' = {"coding"} /\ newFields' = 2
  /\ UNCHANGED <<chunkStart, userDataLen, newSequence>>

SequenceHeader(g) ==                                     \* mpeg2_header_sequence
  /\ code = "sequence" /\ Accept
  /\ state' = "SEQUENCE" /\ extState' = {"sequence"} /\ newSequence' = g
  /\ UNCHANGED <<chunkStart, userDataLen, newFields>>

GopHeader ==                                             \* mpeg2_header_gop
  /\ code = "gop" /\ Accept
  /\ state' = "GOP"
  /\ UNCHANGED <<chunkStart, userDataLen, header>>

UserData ==                                              \* mpeg2_header_user_data
  /\ code = "user_data" /\ Accept
  /\ userDataLen' = userDataLen + chunkPtr - 1 - chunkStart
  /\ chunkStart' = chunkPtr - 1
  /\ UNCHANGED <<state, header>>

(* mpeg2_header_extension: an extension that is not expected is ignored.   *)
Extension(e) ==
  /\ code = "extension" /\ Accept
  /\ CASE e \notin extState  -> UNCHANGED header
       [] e \in extState /\ e = "sequence" ->
            /\ newSequence' \in Geometries
            /\ extState' = {"sequence_display"} /\ UNCHANGED newFields
       [] e \in extState /\ e = "coding" ->
            /\ newFields' \in {1, 2}
            /\ extState' = PictureExt \ {"coding"} /\ UNCHANGED newSequence
       [] OTHER ->
            /\ extState' = extState \ {e}
            /\ UNCHANGED <<newSequence, newFields>>
  /\ UNCHANGED <<state, chunkStart, userDataLen>>

(* A header whose handler returns 1: a missing marker bit, an illegal size *)
(* or structure.  sequence_ext finds out after it changed new_sequence.    *)
HeaderRejected ==
  /\ pc = "process"
  /\ \/ code \in {"sequence", "gop"} /\ UNCHANGED <<extState, newSequence>>
     \/ /\ code = "extension"
        /\ \E e \in extState \cap Checked :
             /\ extState' = extState \ {e}
             /\ \/ e = "sequence" /\ newSequence' \in Geometries
                \/ UNCHANGED newSequence
  /\ code' \in Codes /\ action' = "seek_header"
  /\ Return("INVALID")
  /\ UNCHANGED <<state, stream, chunk, userData, newFields, setup, fields>>

(* The end of mpeg2_parse_header, lines 287 to 289; info_user_data has     *)
(* reported what was collected (not in the INVALID_END case).              *)
Deliver(r) == /\ chunkStart' = 0 /\ chunkPtr' = 0 /\ userDataLen' = 0
              /\ Return(r)
              /\ UNCHANGED <<code, stream, header>>
InfoUserData == userData' = IF userDataLen # 0 THEN userDataLen - Prefix
                                               ELSE userData

(* mpeg2_header_sequence_finalize, for a sequence as it was or a first one. *)
SequenceFinalize(s) ==
  /\ pc = "transition" /\ state = "SEQUENCE" /\ code \in {"picture", "gop"}
  /\ sequence \in {NoSequence, newSequence}
  /\ (s = "SEQUENCE") <=> (sequence = NoSequence)
  /\ state' = s
  /\ sequence' = newSequence /\ decoder' = newSequence
  /\ InfoUserData /\ Deliver(s)
  /\ UNCHANGED <<action, buffers, region, fields>>

(* ... and for one with another geometry: the decoder already takes the    *)
(* new one, the sequence and the buffers wait for invalid_end_action.      *)
SequenceChanged ==
  /\ pc = "transition" /\ state = "SEQUENCE" /\ code \in {"picture", "gop"}
  /\ sequence \notin {NoSequence, newSequence}
  /\ state' = "INVALID_END" /\ action' = "invalid_end"
  /\ decoder' = newSequence
  /\ Deliver("INVALID_END")
  /\ UNCHANGED <<userData, sequence, buffers, region, fields>>

InvalidEnd ==                                            \* invalid_end_action
  /\ pc = "invalid_end"
  /\ StateInit /\ sequence' = newSequence
  /\ InfoUserData
  /\ action' = "seek_header" /\ state' = "SEQUENCE"
  /\ Return("SEQUENCE")
  /\ UNCHANGED <<code, stream, chunk, header, decoder, fields>>

GopFinalize ==
  /\ pc = "transition" /\ state = "GOP" /\ code = "picture"
  /\ InfoUserData /\ Deliver("GOP")
  /\ UNCHANGED <<action, state, setup, fields>>

PictureFinalize ==
  /\ pc = "transition" /\ state \in {"PICTURE", "PICTURE_2ND"}
  /\ code = "slice1"
  /\ buffers' = IF state = "PICTURE" /\ buffers = NoSequence
                  THEN sequence ELSE buffers
  /\ fields' = newFields
  /\ action' = "slice_start"
  /\ InfoUserData /\ Deliver(state)
  /\ UNCHANGED <<state, sequence, decoder, region>>

Legal == \/ state = "SEQUENCE" /\ code \in {"picture", "gop"}
         \/ state = "GOP" /\ code = "picture"
         \/ state \in {"PICTURE", "PICTURE_2ND"} /\ code = "slice1"
Continues == \/ /\ code = "user_data"
                /\ state \in {"SEQUENCE", "GOP", "PICTURE", "PICTURE_2ND"}
             \/ /\ code = "extension"
                /\ state \in {"SEQUENCE", "PICTURE", "PICTURE_2ND"}

(* Mutant: chunk_ptr is not set back over the start code stored.           *)
HeaderContinuesLate ==
  /\ pc = "transition" /\ Continues
  /\ Goto("parse_header")
  /\ UNCHANGED <<action, code, state, stream, chunk, userData, header, setup,
                 fields>>

HeaderContinues ==
  /\ pc = "transition" /\ Continues
  /\ chunkPtr' = chunkStart
  /\ Goto("parse_header")
  /\ UNCHANGED <<action, code, state, stream, chunkStart, userDataLen,
                 userData, header, setup, fields>>

HeaderIllegal ==
  /\ pc = "transition" /\ ~Legal /\ ~Continues
  /\ action' = "seek_header"
  /\ Return("INVALID")
  /\ UNCHANGED <<code, state, stream, chunk, userData, header, setup,
                 fields>>

-----------------------------------------------------------------------------
(* The slices of a picture.                                                *)

(* Mutant: info.user_data outlives the chunk it points to.                 *)
SliceStartKeepsUserData ==
  /\ pc = "slice_start"
  /\ state' = IF fields > 1 \/ state = "PICTURE_2ND" THEN "SLICE"
                                                     ELSE "SLICE_1ST"
  /\ action' = "none"
  /\ Goto("slices")
  /\ UNCHANGED <<code, stream, chunk, userData, header, setup, fields>>

SliceStart ==                                            \* mpeg2_header_slice_start
  /\ pc = "slice_start"
  /\ userData' = 0
  /\ state' = IF fields > 1 \/ state = "PICTURE_2ND" THEN "SLICE"
                                                     ELSE "SLICE_1ST"
  /\ action' = "none"
  /\ Goto("slices")
  /\ UNCHANGED <<code, stream, chunk, header, setup, fields>>

SliceStarved ==
  /\ pc = "slices" /\ code \in region /\ CopyStarved
  /\ Return("BUFFER")
  /\ UNCHANGED <<action, code, state, chunkStart, userDataLen, userData,
                 header, setup, fields>>

SliceOverflow ==
  /\ pc = "slices" /\ code \in region /\ CopyOverflow
  /\ action' = "seek_chunk"
  /\ Return("INVALID")
  /\ UNCHANGED <<code, state, chunkStart, userDataLen, userData, header,
                 setup, fields>>

(* The chunk is complete: mpeg2_slice is called in the next step.          *)
(* Mutant: chunk_ptr is not set back after a slice.                        *)
SliceFoundAppends ==
  /\ pc = "slices" /\ code \in region
  /\ CopyFound /\ code' \in Codes
  /\ Goto("slices")
  /\ UNCHANGED <<action, state, chunkStart, userDataLen, userData, header,
                 setup, fields>>

(* The chunk is complete, and mpeg2_slice decodes it.                      *)
SliceFound ==
  /\ pc = "slices" /\ code \in region
  /\ \E k \in 1 .. input : k <= Room /\ FoundAfter(k)
  /\ code' \in Codes
  /\ chunkPtr' = chunkStart
  /\ Goto("slices")
  /\ UNCHANGED <<action, state, chunkStart, userDataLen, userData,
                 header, setup, fields>>

SliceSkipped ==                       \* a slice outside the decoded region
  /\ pc = "slices" /\ code \in SliceCodes \ region
  /\ \/ SkipStarved /\ Return("BUFFER")
     \/ (\E c \in Codes : SkipFound(c)) /\ Goto("slices")
  /\ UNCHANGED <<action, state, chunk, userData, header, setup, fields>>

(* Mutant: the next call starts in the slice loop again.                   *)
SlicesEndStays ==
  /\ pc = "slices" /\ code \notin SliceCodes
  /\ LET resumes == code \in {"picture", "sequence", "end", "gop"}
     IN  Return(IF resumes /\ (code = "picture" \/ state = "SLICE")
                  THEN state ELSE "INVALID")
  /\ UNCHANGED <<action, code, state, stream, chunk, userData, header, setup,
                 fields>>

SlicesEnd ==
  /\ pc = "slices" /\ code \notin SliceCodes
  /\ LET resumes == code \in {"picture", "sequence", "end", "gop"}
     IN  /\ action' = IF resumes THEN "seek_header" ELSE "seek_chunk"
         /\ Return(IF resumes /\ (code = "picture" \/ state = "SLICE")
                     THEN state ELSE "INVALID")
  /\ UNCHANGED <<code, state, stream, chunk, userData, header, setup,
                 fields>>

-----------------------------------------------------------------------------
Library ==
  \/ SeekChunk \/ SeekHeader \/ StartHeader \/ HeaderEnd \/ SeekSequence
  \/ HeaderStarved \/ HeaderOverflow \/ HeaderFound
  \/ PictureHeader \/ GopHeader \/ UserData \/ HeaderRejected
  \/ \E g \in Geometries : SequenceHeader(g)
  \/ \E e \in SequenceExt \cup PictureExt : Extension(e)
  \/ \E s \in {"SEQUENCE", "SEQUENCE_REPEATED", "SEQUENCE_MODIFIED"} :
       SequenceFinalize(s)
  \/ SequenceChanged \/ InvalidEnd \/ GopFinalize \/ PictureFinalize
  \/ HeaderContinues \/ HeaderIllegal
  \/ SliceStart \/ SliceStarved \/ SliceOverflow \/ SliceFound
  \/ SliceSkipped \/ SlicesEnd

Application ==
  \/ Parse
  \/ \E n \in 1 .. MaxInput : Buffer(n)
  \/ \E r \in Regions : SetRegion(r)
  \/ \E full \in BOOLEAN : Reset(full)

Next == Application \/ Library
Spec == Init /\ [][Next]_vars

(* mpeg2_parse runs to its return, and the application calls it again      *)
(* until the piece it gave is used up.                                     *)
FairSpec == Spec /\ WF_vars(Library) /\ WF_vars(Parse)
-----------------------------------------------------------------------------
(* Every variable ranges over its type; in particular chunk_ptr never      *)
(* leaves chunk_buffer (the size_chunk tests of decode.c:170 and 227).     *)
TypeOK ==
  /\ pc \in Loops /\ ret \in Results /\ action \in Actions
  /\ code \in Codes /\ state \in States
  /\ input \in Nat /\ scanned \in 0 .. BufferSize + 1
  /\ chunkPtr \in 0 .. BufferSize /\ chunkStart \in 0 .. chunkPtr
  /\ userDataLen \in 0 .. BufferSize /\ userData \in 0 .. BufferSize
  /\ extState \in SUBSET (SequenceExt \cup PictureExt)
  /\ newSequence \in Geometries \cup {NoSequence}
  /\ sequence \in Geometries \cup {NoSequence}
  /\ decoder \in Geometries \cup {NoSequence}
  /\ buffers \in Geometries \cup {NoSequence}
  /\ newFields \in {1, 2} /\ fields \in {1, 2}
  /\ region \in SUBSET SliceCodes /\ announced \in BOOLEAN

(* Slices are only ever decoded inside a picture whose header was          *)
(* finalized: mpeg2_parse reaches its slice loop, now or in a later call,  *)
(* only in the states SLICE_1ST and SLICE, with a sequence and buffers.    *)
SlicesInsidePicture ==
  pc = "slices" \/ action \in {"none", "seek_chunk"} =>
    /\ state \in {"SLICE_1ST", "SLICE"}
    /\ sequence # NoSequence /\ buffers # NoSequence

(* While slices are decoded the decoder, the sequence reported to the      *)
(* application and the frame buffers have one and the same geometry, on    *)
(* every path through repeated, modified and changed sequence headers.     *)
GeometryAgrees ==
  pc = "slices" => decoder = sequence /\ buffers = sequence

(* doc/libmpeg2.txt:49: after mpeg2_reset with "full_reset" zero "the lib  *)
(* starts decoding at the next picture", which needs what GeometryAgrees   *)
(* says, wherever the application calls it.                                *)
GeometryAgreesAfterReset ==
  pc = "slices" => decoder = sequence /\ buffers = sequence

(* STATE_BUFFER is returned only when the whole piece was consumed, so     *)
(* that mpeg2_buffer, which overwrites buf_start and buf_end, loses        *)
(* nothing.                                                                *)
BufferDrained == pc = "app" /\ ret = "BUFFER" => input = 0

(* info.user_data points into chunk_buffer: it is withdrawn before the     *)
(* bytes it points to are overwritten by the next header or slice.         *)
UserDataIntact == pc \in {"parse_header", "slices"} => userData = 0

(* The user data counted so far is what lies before the current header in  *)
(* the chunk buffer, over any number of user data and extension chunks.    *)
UserDataCounted ==
  pc \in {"parse_header", "process", "transition"} => userDataLen = chunkStart

(* A header handler sees the bytes since its start code, all of them and   *)
(* nothing else, however the stream was cut into buffers.                  *)
HeaderIsWhole == pc = "parse_header" => chunkPtr - chunkStart = scanned

(* The same for a slice, as long as mpeg2_parse is not resynchronising     *)
(* after an illegal start code or an overflow.                             *)
SliceIsWhole ==
  pc = "slices" /\ code \in region /\ action = "none" =>
    chunkPtr - chunkStart = scanned

(* An extension is only offered to a handler of the header it belongs to.  *)
ExtensionsMatch ==
  pc = "process" /\ code = "extension" =>
    extState \subseteq (IF state = "SEQUENCE" THEN SequenceExt ELSE PictureExt)

(* Every STATE_SLICE answers a STATE_PICTURE or STATE_PICTURE_2ND that was *)
(* returned after the previous STATE_SLICE.                                *)
SliceFollowsPicture ==
  [][pc # "app" /\ pc' = "app" /\ ret' = "SLICE" => announced]_vars

(* A call of mpeg2_parse always returns.                                   *)
CallsReturn == pc # "app" ~> pc = "app"

(* An application that keeps calling mpeg2_parse gets to the end of the    *)
(* piece it gave: no cycle of returned states leaves the input in place.   *)
InputDrains == input > 0 ~> input = 0
=============================================================================
