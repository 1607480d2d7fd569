---------------------------- MODULE ParserProofs ----------------------------
(***************************************************************************)
(* Proofs about Parser, for every chunk buffer, every set of geometries    *)
(* and every stream.  The inductive invariant says, for each place where   *)
(* control can be, inside a call or between two, what chunk_buffer holds   *)
(* and which of sequence, decoder and buffers are already set.             *)
(***************************************************************************)
EXTENDS Parser, TLAPS

(* Control: the function that runs is the stored action, the value         *)
(* returned last determines some of the actions, and a picture whose       *)
(* slices are awaited was announced.                                       *)
ControlInv ==
  /\ pc \in {"parse_header", "process", "transition"} =>
       action = "parse_header"
  /\ pc = "slices" => action \in {"none", "seek_chunk"}
  /\ pc \in {"seek_chunk", "seek_header", "slice_start", "invalid_end",
             "seek_sequence"} => action = pc
  /\ pc = "app" /\ ret = "PICTURE" => action = "slice_start"
  /\ pc = "app" /\ ret = "SEQUENCE" => action \in {"parse_header", "seek_header"}
  /\ pc = "app" /\ action = "invalid_end" => ret = "INVALID_END"
  /\ pc = "app" /\ action = "none" => code \in SliceCodes
  /\ action = "invalid_end" => code \in {"picture", "gop"}
  /\ action = "seek_sequence" => code = "end"
  /\ action \in {"none", "seek_chunk", "slice_start"} => announced
  /\ pc = "app" /\ ret = "BUFFER" => input = 0

(* A header is being collected, in this call or across calls.              *)
InHeader == pc = "parse_header" \/ (pc = "app" /\ action = "parse_header")

(* The bytes between chunk_start and chunk_ptr.                            *)
ChunkInv ==
  /\ userDataLen = 0 \/ userDataLen >= Prefix
  /\ InHeader => chunkPtr - chunkStart = scanned /\ userDataLen = chunkStart
  /\ pc \in {"process", "transition"} => scanned = 0 /\ userDataLen = chunkStart
  /\ pc = "process" => chunkPtr - chunkStart > Prefix
  /\ action \in {"seek_header", "invalid_end"} /\ AtHeader => scanned = 0
  /\ pc = "slices" /\ code \notin SliceCodes => scanned = 0
  /\ action = "slice_start" => scanned = 0 /\ chunkPtr = chunkStart
  /\ action = "none" /\ pc \in {"app", "slices"} =>
       chunkPtr - chunkStart = IF code \in region THEN scanned ELSE 0
  /\ pc \in {"parse_header", "process", "transition", "slices"} =>
       userData = 0
  /\ action \in {"none", "seek_chunk"} => userData = 0

(* The sequence, the state that needs it, and the buffers.                 *)
SetupInv ==
  /\ action \in {"none", "seek_chunk"} => state \in {"SLICE_1ST", "SLICE"}
  /\ action = "slice_start" => state \in {"PICTURE", "PICTURE_2ND"}
  /\ action = "invalid_end" => sequence # NoSequence
  /\ action \in {"none", "seek_chunk", "slice_start"} =>
       sequence # NoSequence /\ buffers # NoSequence
  /\ sequence = NoSequence =>
       /\ InHeader \/ pc = "process" =>
            \/ code = "sequence"
            \/ state = "SEQUENCE" /\ code \in {"user_data", "extension"}
       /\ pc = "transition" => state = "SEQUENCE"
  /\ state \in {"SLICE_1ST", "PICTURE_2ND"} /\ sequence # NoSequence =>
       buffers # NoSequence
  /\ state = "SEQUENCE" \/ action = "invalid_end" => newSequence # NoSequence
  /\ buffers \in {NoSequence, sequence}

(* The extensions still accepted are those of the header last processed.   *)
ExtensionInv ==
  \/ pc = "transition"
  \/ (InHeader \/ pc = "process") /\ code \in {"user_data", "extension"}
  =>
       /\ state = "SEQUENCE" => extState \subseteq SequenceExt
       /\ state \in {"PICTURE", "PICTURE_2ND"} => extState \subseteq PictureExt
       /\ code = "extension" /\ pc # "transition" =>
            state \in {"SEQUENCE", "PICTURE", "PICTURE_2ND"}

(* The decoder runs ahead of the sequence only until invalid_end_action.   *)
DecoderInv ==
  /\ sequence # NoSequence /\ action # "invalid_end" => decoder = sequence
  /\ action = "invalid_end" => decoder = newSequence

IInv == TypeOK /\ ControlInv /\ ChunkInv /\ SetupInv /\ ExtensionInv

-----------------------------------------------------------------------------
(* Every step preserves the inductive invariant: one step per action, and  *)
(* one per conjunct.                                                       *)
LEMMA Inductive == IInv /\ [Next]_vars => IInv'
  <1> SUFFICES ASSUME IInv, [Next]_vars PROVE IInv'
    OBVIOUS
  <1> USE BufferAssumption, RegionAssumption, ExtensionAssumption,
          SequenceAssumption
      DEF Loops, Results, States, Actions, Codes, SliceCodes, HeaderCodes,
          SequenceExt, PictureExt, stream, chunk, header, setup
  <1>1. ASSUME NEW n \in 1 .. MaxInput, Buffer(n) PROVE IInv'
    <2>1. TypeOK'
      BY <1>1 DEF Buffer, IInv, TypeOK
    <2>2. ControlInv'
      BY <1>1 DEF Buffer, IInv, ControlInv
    <2>3. ChunkInv'
      BY <1>1 DEF Buffer, IInv, ChunkInv, InHeader, AtHeader
    <2>4. SetupInv'
      BY <1>1 DEF Buffer, IInv, SetupInv, InHeader
    <2>5. ExtensionInv'
      BY <1>1 DEF Buffer, IInv, ExtensionInv, InHeader
    <2> QED BY <2>1, <2>2, <2>3, <2>4, <2>5 DEF IInv
  <1>2. ASSUME NEW r \in Regions, SetRegion(r) PROVE IInv'
    <2>1. TypeOK'
      BY <1>2 DEF SetRegion, IInv, TypeOK
    <2>2. ControlInv'
      BY <1>2 DEF SetRegion, IInv, ControlInv
    <2>3. ChunkInv'
      BY <1>2 DEF SetRegion, IInv, ChunkInv, TypeOK, ControlInv, InHeader,
         AtHeader
    <2>4. SetupInv'
      BY <1>2 DEF SetRegion, IInv, SetupInv, InHeader
    <2>5. ExtensionInv'
      BY <1>2 DEF SetRegion, IInv, ExtensionInv, InHeader
    <2> QED BY <2>1, <2>2, <2>3, <2>4, <2>5 DEF IInv
  <1>3. ASSUME NEW full \in BOOLEAN, Reset(full) PROVE IInv'
    <2>1. TypeOK'
      <3>1. /\ pc' \in Loops /\ ret' \in Results /\ action' \in Actions
           /\ code' \in Codes /\ state' \in States
        BY <1>3 DEF Reset, StateInit, IInv, TypeOK
      <3>2. announced' \in BOOLEAN
        BY <1>3 DEF Reset, StateInit, IInv, TypeOK
      <3>3. /\ input' \in Nat /\ scanned' \in 0 .. BufferSize + 1
           /\ chunkPtr' \in 0 .. BufferSize /\ chunkStart' \in 0 .. chunkPtr'
           /\ userDataLen' \in 0 .. BufferSize
           /\ userData' \in 0 .. BufferSize
        BY <1>3 DEF Reset, StateInit, IInv, TypeOK
      <3>4. /\ extState' \in SUBSET (SequenceExt \cup PictureExt)
           /\ newSequence' \in Geometries \cup {NoSequence}
           /\ sequence' \in Geometries \cup {NoSequence}
           /\ decoder' \in Geometries \cup {NoSequence}
           /\ buffers' \in Geometries \cup {NoSequence}
        BY <1>3 DEF Reset, StateInit, IInv, TypeOK
      <3>5. newFields' \in {1, 2} /\ fields' \in {1, 2}
        BY <1>3 DEF Reset, StateInit, IInv, TypeOK
      <3>6. region' \in SUBSET SliceCodes
        BY <1>3 DEF Reset, StateInit, IInv, TypeOK
      <3> QED BY <3>1, <3>2, <3>3, <3>4, <3>5, <3>6 DEF TypeOK
    <2>2. ControlInv'
      BY <1>3 DEF Reset, StateInit, IInv, ControlInv
    <2>3. ChunkInv'
      BY <1>3 DEF Reset, StateInit, IInv, ChunkInv, InHeader, AtHeader
    <2>4. SetupInv'
      BY <1>3 DEF Reset, StateInit, IInv, SetupInv, InHeader
    <2>5. ExtensionInv'
      BY <1>3 DEF Reset, StateInit, IInv, ExtensionInv, InHeader
    <2> QED BY <2>1, <2>2, <2>3, <2>4, <2>5 DEF IInv
  <1>4. ASSUME Parse PROVE IInv'
    <2>1. TypeOK'
      BY <1>4 DEF Parse, IInv, TypeOK
    <2>2. ControlInv'
      BY <1>4 DEF Parse, IInv, ControlInv, TypeOK
    <2>3. ChunkInv'
      BY <1>4 DEF Parse, IInv, ChunkInv, TypeOK, ControlInv, InHeader, AtHeader
    <2>4. SetupInv'
      BY <1>4 DEF Parse, IInv, SetupInv, TypeOK, InHeader
    <2>5. ExtensionInv'
      BY <1>4 DEF Parse, IInv, ExtensionInv, TypeOK, InHeader
    <2> QED BY <2>1, <2>2, <2>3, <2>4, <2>5 DEF IInv
  <1>5. ASSUME SeekChunk PROVE IInv'
    <2>1. TypeOK'
      BY <1>5 DEF SeekChunk, SkipStarved, SkipFound, FoundAfter, Saturate,
         Return, Goto, IInv, TypeOK
    <2>2. ControlInv'
      BY <1>5 DEF SeekChunk, SkipStarved, SkipFound, FoundAfter, Saturate,
         Return, Goto, IInv, ControlInv
    <2>3. ChunkInv'
      BY <1>5 DEF SeekChunk, SkipStarved, SkipFound, FoundAfter, Saturate,
         Return, Goto, IInv, ChunkInv, TypeOK, ControlInv, InHeader, AtHeader
    <2>4. SetupInv'
      BY <1>5 DEF SeekChunk, SkipStarved, SkipFound, FoundAfter, Saturate,
         Return, Goto, IInv, SetupInv, TypeOK, ControlInv, InHeader
    <2>5. ExtensionInv'
      BY <1>5 DEF SeekChunk, SkipStarved, SkipFound, FoundAfter, Saturate,
         Return, Goto, IInv, ExtensionInv, TypeOK, ControlInv, InHeader
    <2> QED BY <2>1, <2>2, <2>3, <2>4, <2>5 DEF IInv
  <1>6. ASSUME SeekHeader PROVE IInv'
    <2>1. TypeOK'
      BY <1>6 DEF SeekHeader, SkipStarved, SkipFound, FoundAfter, Saturate,
         Return, Goto, IInv, TypeOK
    <2>2. ControlInv'
      BY <1>6 DEF SeekHeader, SkipStarved, SkipFound, FoundAfter, Saturate,
         Return, Goto, IInv, ControlInv
    <2>3. ChunkInv'
      BY <1>6 DEF SeekHeader, SkipStarved, SkipFound, FoundAfter, Saturate,
         Return, Goto, IInv, ChunkInv, TypeOK, ControlInv, InHeader, AtHeader
    <2>4. SetupInv'
      BY <1>6 DEF SeekHeader, SkipStarved, SkipFound, FoundAfter, Saturate,
         Return, Goto, IInv, SetupInv, TypeOK, ControlInv, InHeader
    <2>5. ExtensionInv'
      BY <1>6 DEF SeekHeader, SkipStarved, SkipFound, FoundAfter, Saturate,
         Return, Goto, IInv, ExtensionInv, TypeOK, ControlInv, InHeader
    <2> QED BY <2>1, <2>2, <2>3, <2>4, <2>5 DEF IInv
  <1>7. ASSUME StartHeader PROVE IInv'
    <2>1. TypeOK'
      BY <1>7 DEF StartHeader, Goto, IInv, TypeOK
    <2>2. ControlInv'
      BY <1>7 DEF StartHeader, Goto, IInv, ControlInv
    <2>3. ChunkInv'
      BY <1>7 DEF StartHeader, Goto, IInv, ChunkInv, TypeOK, ControlInv,
         InHeader, AtHeader
    <2>4. SetupInv'
      BY <1>7 DEF StartHeader, Goto, IInv, SetupInv, TypeOK, ControlInv,
         ChunkInv, InHeader, AtHeader
    <2>5. ExtensionInv'
      BY <1>7 DEF StartHeader, Goto, IInv, ExtensionInv, TypeOK, ControlInv,
         ChunkInv, InHeader, AtHeader
    <2> QED BY <2>1, <2>2, <2>3, <2>4, <2>5 DEF IInv
  <1>8. ASSUME HeaderEnd PROVE IInv'
    <2>1. TypeOK'
      BY <1>8 DEF HeaderEnd, AtHeader, Return, IInv, TypeOK
    <2>2. ControlInv'
      BY <1>8 DEF HeaderEnd, AtHeader, Return, IInv, ControlInv
    <2>3. ChunkInv'
      BY <1>8 DEF HeaderEnd, AtHeader, Return, IInv, ChunkInv, InHeader
    <2>4. SetupInv'
      BY <1>8 DEF HeaderEnd, AtHeader, Return, IInv, SetupInv, InHeader
    <2>5. ExtensionInv'
      BY <1>8 DEF HeaderEnd, AtHeader, Return, IInv, ExtensionInv, InHeader
    <2> QED BY <2>1, <2>2, <2>3, <2>4, <2>5 DEF IInv
  <1>9. ASSUME SeekSequence PROVE IInv'
    <2>1. TypeOK'
      BY <1>9 DEF SeekSequence, StateInit, Goto, IInv, TypeOK
    <2>2. ControlInv'
      BY <1>9 DEF SeekSequence, StateInit, Goto, IInv, ControlInv
    <2>3. ChunkInv'
      BY <1>9 DEF SeekSequence, StateInit, Goto, IInv, ChunkInv, TypeOK,
         ControlInv, InHeader, AtHeader
    <2>4. SetupInv'
      BY <1>9 DEF SeekSequence, StateInit, Goto, IInv, SetupInv, InHeader
    <2>5. ExtensionInv'
      BY <1>9 DEF SeekSequence, StateInit, Goto, IInv, ExtensionInv, InHeader
    <2> QED BY <2>1, <2>2, <2>3, <2>4, <2>5 DEF IInv
  <1>10. ASSUME HeaderStarved PROVE IInv'
    <2>1. TypeOK'
      BY <1>10 DEF HeaderStarved, CopyStarved, Room, Saturate, Return, IInv,
         TypeOK
    <2>2. ControlInv'
      BY <1>10 DEF HeaderStarved, CopyStarved, Room, Saturate, Return, IInv,
         ControlInv
    <2>3. ChunkInv'
      BY <1>10 DEF HeaderStarved, CopyStarved, Room, Saturate, Return, IInv,
         ChunkInv, TypeOK, ControlInv, InHeader, AtHeader
    <2>4. SetupInv'
      BY <1>10 DEF HeaderStarved, CopyStarved, Room, Saturate, Return, IInv,
         SetupInv, InHeader
    <2>5. ExtensionInv'
      BY <1>10 DEF HeaderStarved, CopyStarved, Room, Saturate, Return, IInv,
         ExtensionInv, InHeader
    <2> QED BY <2>1, <2>2, <2>3, <2>4, <2>5 DEF IInv
  <1>11. ASSUME HeaderOverflow PROVE IInv'
    <2>1. TypeOK'
      BY <1>11 DEF HeaderOverflow, CopyOverflow, Room, Saturate, Return, IInv,
         TypeOK
    <2>2. ControlInv'
      BY <1>11 DEF HeaderOverflow, CopyOverflow, Room, Saturate, Return, IInv,
         ControlInv
    <2>3. ChunkInv'
      BY <1>11 DEF HeaderOverflow, CopyOverflow, Room, Saturate, Return, IInv,
         ChunkInv, InHeader, AtHeader
    <2>4. SetupInv'
      BY <1>11 DEF HeaderOverflow, CopyOverflow, Room, Saturate, Return, IInv,
         SetupInv, InHeader
    <2>5. ExtensionInv'
      BY <1>11 DEF HeaderOverflow, CopyOverflow, Room, Saturate, Return, IInv,
         ExtensionInv, InHeader
    <2> QED BY <2>1, <2>2, <2>3, <2>4, <2>5 DEF IInv
  <1>12. ASSUME HeaderFound PROVE IInv'
    <2>1. TypeOK'
      BY <1>12 DEF HeaderFound, CopyFound, FoundAfter, Room, Goto, IInv, TypeOK
    <2>2. ControlInv'
      BY <1>12 DEF HeaderFound, CopyFound, FoundAfter, Room, Goto, IInv,
         ControlInv
    <2>3. ChunkInv'
      BY <1>12 DEF HeaderFound, CopyFound, FoundAfter, Room, Goto, IInv,
         ChunkInv, TypeOK, ControlInv, InHeader, AtHeader
    <2>4. SetupInv'
      BY <1>12 DEF HeaderFound, CopyFound, FoundAfter, Room, Goto, IInv,
         SetupInv, InHeader
    <2>5. ExtensionInv'
      BY <1>12 DEF HeaderFound, CopyFound, FoundAfter, Room, Goto, IInv,
         ExtensionInv, InHeader
    <2> QED BY <2>1, <2>2, <2>3, <2>4, <2>5 DEF IInv
  <1>13. ASSUME PictureHeader PROVE IInv'
    <2>1. TypeOK'
      BY <1>13 DEF PictureHeader, Accept, Goto, IInv, TypeOK
    <2>2. ControlInv'
      BY <1>13 DEF PictureHeader, Accept, Goto, IInv, ControlInv
    <2>3. ChunkInv'
      BY <1>13 DEF PictureHeader, Accept, Goto, IInv, ChunkInv, InHeader,
         AtHeader
    <2>4. SetupInv'
      BY <1>13 DEF PictureHeader, Accept, Goto, IInv, SetupInv, TypeOK,
         ControlInv, InHeader
    <2>5. ExtensionInv'
      BY <1>13 DEF PictureHeader, Accept, Goto, IInv, ExtensionInv, InHeader
    <2> QED BY <2>1, <2>2, <2>3, <2>4, <2>5 DEF IInv
  <1>14. ASSUME GopHeader PROVE IInv'
    <2>1. TypeOK'
      BY <1>14 DEF GopHeader, Accept, Goto, IInv, TypeOK
    <2>2. ControlInv'
      BY <1>14 DEF GopHeader, Accept, Goto, IInv, ControlInv
    <2>3. ChunkInv'
      BY <1>14 DEF GopHeader, Accept, Goto, IInv, ChunkInv, InHeader, AtHeader
    <2>4. SetupInv'
      BY <1>14 DEF GopHeader, Accept, Goto, IInv, SetupInv, TypeOK,
         ControlInv, InHeader
    <2>5. ExtensionInv'
      BY <1>14 DEF GopHeader, Accept, Goto, IInv, ExtensionInv, InHeader
    <2> QED BY <2>1, <2>2, <2>3, <2>4, <2>5 DEF IInv
  <1>15. ASSUME UserData PROVE IInv'
    <2>1. TypeOK'
      BY <1>15 DEF UserData, Accept, Goto, IInv, TypeOK, ControlInv, ChunkInv,
         InHeader, AtHeader
    <2>2. ControlInv'
      BY <1>15 DEF UserData, Accept, Goto, IInv, ControlInv
    <2>3. ChunkInv'
      BY <1>15 DEF UserData, Accept, Goto, IInv, ChunkInv, TypeOK, InHeader,
         AtHeader
    <2>4. SetupInv'
      BY <1>15 DEF UserData, Accept, Goto, IInv, SetupInv, InHeader
    <2>5. ExtensionInv'
      BY <1>15 DEF UserData, Accept, Goto, IInv, ExtensionInv, InHeader
    <2> QED BY <2>1, <2>2, <2>3, <2>4, <2>5 DEF IInv
  <1>16. ASSUME HeaderRejected PROVE IInv'
    <2>1. TypeOK'
      BY <1>16 DEF HeaderRejected, Return, IInv, TypeOK
    <2>2. ControlInv'
      BY <1>16 DEF HeaderRejected, Return, IInv, ControlInv
    <2>3. ChunkInv'
      BY <1>16 DEF HeaderRejected, Return, IInv, ChunkInv, InHeader, AtHeader
    <2>4. SetupInv'
      BY <1>16 DEF HeaderRejected, Return, IInv, SetupInv, InHeader
    <2>5. ExtensionInv'
      BY <1>16 DEF HeaderRejected, Return, IInv, ExtensionInv, InHeader
    <2> QED BY <2>1, <2>2, <2>3, <2>4, <2>5 DEF IInv
  <1>17. ASSUME NEW g \in Geometries, SequenceHeader(g) PROVE IInv'
    <2>1. TypeOK'
      BY <1>17 DEF SequenceHeader, Accept, Goto, IInv, TypeOK
    <2>2. ControlInv'
      BY <1>17 DEF SequenceHeader, Accept, Goto, IInv, ControlInv
    <2>3. ChunkInv'
      BY <1>17 DEF SequenceHeader, Accept, Goto, IInv, ChunkInv, InHeader,
         AtHeader
    <2>4. SetupInv'
      BY <1>17 DEF SequenceHeader, Accept, Goto, IInv, SetupInv, TypeOK,
         ControlInv, InHeader
    <2>5. ExtensionInv'
      BY <1>17 DEF SequenceHeader, Accept, Goto, IInv, ExtensionInv, InHeader
    <2> QED BY <2>1, <2>2, <2>3, <2>4, <2>5 DEF IInv
  <1>18. ASSUME NEW e \in SequenceExt \cup PictureExt, Extension(e) PROVE IInv'
    <2>1. TypeOK'
      BY <1>18 DEF Extension, Accept, Goto, IInv, TypeOK
    <2>2. ControlInv'
      BY <1>18 DEF Extension, Accept, Goto, IInv, ControlInv
    <2>3. ChunkInv'
      BY <1>18 DEF Extension, Accept, Goto, IInv, ChunkInv, InHeader, AtHeader
    <2>4. SetupInv'
      BY <1>18 DEF Extension, Accept, Goto, IInv, SetupInv, InHeader
    <2>5. ExtensionInv'
      BY <1>18 DEF Extension, Accept, Goto, IInv, ExtensionInv, InHeader
    <2> QED BY <2>1, <2>2, <2>3, <2>4, <2>5 DEF IInv
  <1>19. ASSUME NEW s \in {"SEQUENCE", "SEQUENCE_REPEATED", "SEQUENCE_MODIFIED"},
                SequenceFinalize(s)
        PROVE  IInv'
    <2>1. TypeOK'
      <3>1. /\ pc' \in Loops /\ ret' \in Results /\ action' \in Actions
           /\ code' \in Codes /\ state' \in States
        BY <1>19 DEF SequenceFinalize, InfoUserData, Deliver, Return, IInv,
           TypeOK
      <3>2. announced' \in BOOLEAN
        BY <1>19 DEF SequenceFinalize, InfoUserData, Deliver, Return, IInv,
           TypeOK
      <3>3. /\ input' \in Nat /\ scanned' \in 0 .. BufferSize + 1
           /\ chunkPtr' \in 0 .. BufferSize /\ chunkStart' \in 0 .. chunkPtr'
           /\ userDataLen' \in 0 .. BufferSize
           /\ userData' \in 0 .. BufferSize
        BY <1>19 DEF SequenceFinalize, InfoUserData, Deliver, Return, IInv,
           TypeOK, ControlInv, ChunkInv, InHeader, AtHeader
      <3>4. /\ extState' \in SUBSET (SequenceExt \cup PictureExt)
           /\ newSequence' \in Geometries \cup {NoSequence}
           /\ sequence' \in Geometries \cup {NoSequence}
           /\ decoder' \in Geometries \cup {NoSequence}
           /\ buffers' \in Geometries \cup {NoSequence}
        BY <1>19 DEF SequenceFinalize, InfoUserData, Deliver, Return, IInv,
           TypeOK
      <3>5. newFields' \in {1, 2} /\ fields' \in {1, 2}
        BY <1>19 DEF SequenceFinalize, InfoUserData, Deliver, Return, IInv,
           TypeOK
      <3>6. region' \in SUBSET SliceCodes
        BY <1>19 DEF SequenceFinalize, InfoUserData, Deliver, Return, IInv,
           TypeOK
      <3> QED BY <3>1, <3>2, <3>3, <3>4, <3>5, <3>6 DEF TypeOK
    <2>2. ControlInv'
      BY <1>19 DEF SequenceFinalize, InfoUserData, Deliver, Return, IInv,
         ControlInv
    <2>3. ChunkInv'
      BY <1>19 DEF SequenceFinalize, InfoUserData, Deliver, Return, IInv,
         ChunkInv, TypeOK, ControlInv, InHeader, AtHeader
    <2>4. SetupInv'
      BY <1>19 DEF SequenceFinalize, InfoUserData, Deliver, Return, IInv,
         SetupInv, InHeader
    <2>5. ExtensionInv'
      BY <1>19 DEF SequenceFinalize, InfoUserData, Deliver, Return, IInv,
         ExtensionInv, InHeader
    <2> QED BY <2>1, <2>2, <2>3, <2>4, <2>5 DEF IInv
  <1>20. ASSUME SequenceChanged PROVE IInv'
    <2>1. TypeOK'
      BY <1>20 DEF SequenceChanged, Deliver, Return, IInv, TypeOK
    <2>2. ControlInv'
      BY <1>20 DEF SequenceChanged, Deliver, Return, IInv, ControlInv
    <2>3. ChunkInv'
      BY <1>20 DEF SequenceChanged, Deliver, Return, IInv, ChunkInv, InHeader,
         AtHeader
    <2>4. SetupInv'
      BY <1>20 DEF SequenceChanged, Deliver, Return, IInv, SetupInv, InHeader
    <2>5. ExtensionInv'
      BY <1>20 DEF SequenceChanged, Deliver, Return, IInv, ExtensionInv,
         InHeader
    <2> QED BY <2>1, <2>2, <2>3, <2>4, <2>5 DEF IInv
  <1>21. ASSUME InvalidEnd PROVE IInv'
    <2>1. TypeOK'
      BY <1>21 DEF InvalidEnd, StateInit, InfoUserData, Return, IInv, TypeOK,
         ControlInv, ChunkInv, InHeader, AtHeader
    <2>2. ControlInv'
      BY <1>21 DEF InvalidEnd, StateInit, InfoUserData, Return, IInv,
         ControlInv
    <2>3. ChunkInv'
      BY <1>21 DEF InvalidEnd, StateInit, InfoUserData, Return, IInv,
         ChunkInv, TypeOK, ControlInv, SetupInv, InHeader, AtHeader
    <2>4. SetupInv'
      BY <1>21 DEF InvalidEnd, StateInit, InfoUserData, Return, IInv,
         SetupInv, TypeOK, ControlInv, InHeader
    <2>5. ExtensionInv'
      BY <1>21 DEF InvalidEnd, StateInit, InfoUserData, Return, IInv,
         ExtensionInv, InHeader
    <2> QED BY <2>1, <2>2, <2>3, <2>4, <2>5 DEF IInv
  <1>22. ASSUME GopFinalize PROVE IInv'
    <2>1. TypeOK'
      BY <1>22 DEF GopFinalize, InfoUserData, Deliver, Return, IInv, TypeOK,
         ControlInv, ChunkInv, InHeader, AtHeader
    <2>2. ControlInv'
      BY <1>22 DEF GopFinalize, InfoUserData, Deliver, Return, IInv, ControlInv
    <2>3. ChunkInv'
      BY <1>22 DEF GopFinalize, InfoUserData, Deliver, Return, IInv, ChunkInv,
         TypeOK, ControlInv, InHeader, AtHeader
    <2>4. SetupInv'
      BY <1>22 DEF GopFinalize, InfoUserData, Deliver, Return, IInv, SetupInv,
         InHeader
    <2>5. ExtensionInv'
      BY <1>22 DEF GopFinalize, InfoUserData, Deliver, Return, IInv,
         ExtensionInv, InHeader
    <2> QED BY <2>1, <2>2, <2>3, <2>4, <2>5 DEF IInv
  <1>23. ASSUME PictureFinalize PROVE IInv'
    <2>1. TypeOK'
      <3>1. /\ pc' \in Loops /\ ret' \in Results /\ action' \in Actions
           /\ code' \in Codes /\ state' \in States
        BY <1>23 DEF PictureFinalize, InfoUserData, Deliver, Return, IInv,
           TypeOK
      <3>2. announced' \in BOOLEAN
        BY <1>23 DEF PictureFinalize, InfoUserData, Deliver, Return, IInv,
           TypeOK
      <3>3. /\ input' \in Nat /\ scanned' \in 0 .. BufferSize + 1
           /\ chunkPtr' \in 0 .. BufferSize /\ chunkStart' \in 0 .. chunkPtr'
           /\ userDataLen' \in 0 .. BufferSize
           /\ userData' \in 0 .. BufferSize
        BY <1>23 DEF PictureFinalize, InfoUserData, Deliver, Return, IInv,
           TypeOK, ControlInv, ChunkInv, InHeader, AtHeader
      <3>4. /\ extState' \in SUBSET (SequenceExt \cup PictureExt)
           /\ newSequence' \in Geometries \cup {NoSequence}
           /\ sequence' \in Geometries \cup {NoSequence}
           /\ decoder' \in Geometries \cup {NoSequence}
           /\ buffers' \in Geometries \cup {NoSequence}
        BY <1>23 DEF PictureFinalize, InfoUserData, Deliver, Return, IInv,
           TypeOK
      <3>5. newFields' \in {1, 2} /\ fields' \in {1, 2}
        BY <1>23 DEF PictureFinalize, InfoUserData, Deliver, Return, IInv,
           TypeOK
      <3>6. region' \in SUBSET SliceCodes
        BY <1>23 DEF PictureFinalize, InfoUserData, Deliver, Return, IInv,
           TypeOK
      <3> QED BY <3>1, <3>2, <3>3, <3>4, <3>5, <3>6 DEF TypeOK
    <2>2. ControlInv'
      BY <1>23 DEF PictureFinalize, InfoUserData, Deliver, Return, IInv,
         ControlInv
    <2>3. ChunkInv'
      BY <1>23 DEF PictureFinalize, InfoUserData, Deliver, Return, IInv,
         ChunkInv, InHeader, AtHeader
    <2>4. SetupInv'
      BY <1>23 DEF PictureFinalize, InfoUserData, Deliver, Return, IInv,
         SetupInv, InHeader
    <2>5. ExtensionInv'
      BY <1>23 DEF PictureFinalize, InfoUserData, Deliver, Return, IInv,
         ExtensionInv, InHeader
    <2> QED BY <2>1, <2>2, <2>3, <2>4, <2>5 DEF IInv
  <1>24. ASSUME HeaderContinues PROVE IInv'
    <2>1. TypeOK'
      BY <1>24 DEF HeaderContinues, Continues, Goto, IInv, TypeOK
    <2>2. ControlInv'
      BY <1>24 DEF HeaderContinues, Continues, Goto, IInv, ControlInv
    <2>3. ChunkInv'
      BY <1>24 DEF HeaderContinues, Continues, Goto, IInv, ChunkInv, TypeOK,
         InHeader, AtHeader
    <2>4. SetupInv'
      BY <1>24 DEF HeaderContinues, Continues, Goto, IInv, SetupInv, InHeader
    <2>5. ExtensionInv'
      BY <1>24 DEF HeaderContinues, Continues, Goto, IInv, ExtensionInv,
         InHeader
    <2> QED BY <2>1, <2>2, <2>3, <2>4, <2>5 DEF IInv
  <1>25. ASSUME HeaderIllegal PROVE IInv'
    <2>1. TypeOK'
      BY <1>25 DEF HeaderIllegal, Return, IInv, TypeOK
    <2>2. ControlInv'
      BY <1>25 DEF HeaderIllegal, Return, IInv, ControlInv
    <2>3. ChunkInv'
      BY <1>25 DEF HeaderIllegal, Return, IInv, ChunkInv, InHeader, AtHeader
    <2>4. SetupInv'
      BY <1>25 DEF HeaderIllegal, Return, IInv, SetupInv, InHeader
    <2>5. ExtensionInv'
      BY <1>25 DEF HeaderIllegal, Return, IInv, ExtensionInv, InHeader
    <2> QED BY <2>1, <2>2, <2>3, <2>4, <2>5 DEF IInv
  <1>26. ASSUME SliceStart PROVE IInv'
    <2>1. TypeOK'
      BY <1>26 DEF SliceStart, Goto, IInv, TypeOK
    <2>2. ControlInv'
      BY <1>26 DEF SliceStart, Goto, IInv, ControlInv
    <2>3. ChunkInv'
      BY <1>26 DEF SliceStart, Goto, IInv, ChunkInv, TypeOK, ControlInv,
         InHeader, AtHeader
    <2>4. SetupInv'
      BY <1>26 DEF SliceStart, Goto, IInv, SetupInv, TypeOK, ControlInv,
         InHeader
    <2>5. ExtensionInv'
      BY <1>26 DEF SliceStart, Goto, IInv, ExtensionInv, InHeader
    <2> QED BY <2>1, <2>2, <2>3, <2>4, <2>5 DEF IInv
  <1>27. ASSUME SliceStarved PROVE IInv'
    <2>1. TypeOK'
      BY <1>27 DEF SliceStarved, CopyStarved, Room, Saturate, Return, IInv,
         TypeOK
    <2>2. ControlInv'
      BY <1>27 DEF SliceStarved, CopyStarved, Room, Saturate, Return, IInv,
         ControlInv, TypeOK
    <2>3. ChunkInv'
      BY <1>27 DEF SliceStarved, CopyStarved, Room, Saturate, Return, IInv,
         ChunkInv, TypeOK, ControlInv, InHeader, AtHeader
    <2>4. SetupInv'
      BY <1>27 DEF SliceStarved, CopyStarved, Room, Saturate, Return, IInv,
         SetupInv, TypeOK, ControlInv, InHeader
    <2>5. ExtensionInv'
      BY <1>27 DEF SliceStarved, CopyStarved, Room, Saturate, Return, IInv,
         ExtensionInv, TypeOK, InHeader
    <2> QED BY <2>1, <2>2, <2>3, <2>4, <2>5 DEF IInv
  <1>28. ASSUME SliceOverflow PROVE IInv'
    <2>1. TypeOK'
      BY <1>28 DEF SliceOverflow, CopyOverflow, Room, Saturate, Return, IInv,
         TypeOK
    <2>2. ControlInv'
      BY <1>28 DEF SliceOverflow, CopyOverflow, Room, Saturate, Return, IInv,
         ControlInv
    <2>3. ChunkInv'
      BY <1>28 DEF SliceOverflow, CopyOverflow, Room, Saturate, Return, IInv,
         ChunkInv, InHeader, AtHeader
    <2>4. SetupInv'
      BY <1>28 DEF SliceOverflow, CopyOverflow, Room, Saturate, Return, IInv,
         SetupInv, TypeOK, ControlInv, InHeader
    <2>5. ExtensionInv'
      BY <1>28 DEF SliceOverflow, CopyOverflow, Room, Saturate, Return, IInv,
         ExtensionInv, InHeader
    <2> QED BY <2>1, <2>2, <2>3, <2>4, <2>5 DEF IInv
  <1>29. ASSUME SliceFound PROVE IInv'
    <2>1. TypeOK'
      BY <1>29 DEF SliceFound, FoundAfter, Room, Goto, IInv, TypeOK
    <2>2. ControlInv'
      BY <1>29 DEF SliceFound, FoundAfter, Room, Goto, IInv, ControlInv
    <2>3. ChunkInv'
      BY <1>29 DEF SliceFound, FoundAfter, Room, Goto, IInv, ChunkInv, TypeOK,
         InHeader, AtHeader
    <2>4. SetupInv'
      BY <1>29 DEF SliceFound, FoundAfter, Room, Goto, IInv, SetupInv, InHeader
    <2>5. ExtensionInv'
      BY <1>29 DEF SliceFound, FoundAfter, Room, Goto, IInv, ExtensionInv,
         InHeader
    <2> QED BY <2>1, <2>2, <2>3, <2>4, <2>5 DEF IInv
  <1>30. ASSUME SliceSkipped PROVE IInv'
    <2>1. TypeOK'
      BY <1>30 DEF SliceSkipped, SkipStarved, SkipFound, FoundAfter, Saturate,
         Return, Goto, IInv, TypeOK
    <2>2. ControlInv'
      BY <1>30 DEF SliceSkipped, SkipStarved, SkipFound, FoundAfter, Saturate,
         Return, Goto, IInv, ControlInv
    <2>3. ChunkInv'
      BY <1>30 DEF SliceSkipped, SkipStarved, SkipFound, FoundAfter, Saturate,
         Return, Goto, IInv, ChunkInv, TypeOK, ControlInv, InHeader, AtHeader
    <2>4. SetupInv'
      BY <1>30 DEF SliceSkipped, SkipStarved, SkipFound, FoundAfter, Saturate,
         Return, Goto, IInv, SetupInv, TypeOK, ControlInv, InHeader
    <2>5. ExtensionInv'
      BY <1>30 DEF SliceSkipped, SkipStarved, SkipFound, FoundAfter, Saturate,
         Return, Goto, IInv, ExtensionInv, InHeader
    <2> QED BY <2>1, <2>2, <2>3, <2>4, <2>5 DEF IInv
  <1>31. ASSUME SlicesEnd PROVE IInv'
    <2>1. TypeOK'
      BY <1>31 DEF SlicesEnd, Return, IInv, TypeOK, ControlInv, ChunkInv,
         SetupInv, InHeader, AtHeader
    <2>2. ControlInv'
      BY <1>31 DEF SlicesEnd, Return, IInv, ControlInv, TypeOK, ChunkInv,
         SetupInv, InHeader, AtHeader
    <2>3. ChunkInv'
      BY <1>31 DEF SlicesEnd, Return, IInv, ChunkInv, InHeader, AtHeader
    <2>4. SetupInv'
      BY <1>31 DEF SlicesEnd, Return, IInv, SetupInv, TypeOK, ControlInv,
         InHeader
    <2>5. ExtensionInv'
      BY <1>31 DEF SlicesEnd, Return, IInv, ExtensionInv, InHeader
    <2> QED BY <2>1, <2>2, <2>3, <2>4, <2>5 DEF IInv
  <1>32. CASE UNCHANGED vars
    BY <1>32 DEF vars, IInv, TypeOK, ControlInv, ChunkInv, SetupInv,
           ExtensionInv, InHeader, AtHeader
  <1> QED
    BY <1>1, <1>2, <1>3, <1>4, <1>5, <1>6, <1>7, <1>8, <1>9, <1>10, <1>11,
       <1>12, <1>13, <1>14, <1>15, <1>16, <1>17, <1>18, <1>19, <1>20, <1>21,
       <1>22, <1>23, <1>24, <1>25, <1>26, <1>27, <1>28, <1>29, <1>30, <1>31,
       <1>32
    DEF Next, Application, Library

LEMMA Initial == Init => IInv
  <1> SUFFICES ASSUME Init PROVE IInv
    OBVIOUS
  <1> USE BufferAssumption, SequenceAssumption DEF Init, InHeader
  <1>1. TypeOK
    <2>1. /\ pc \in Loops /\ ret \in Results /\ action \in Actions
          /\ code \in Codes /\ state \in States
      BY DEF Loops, Results, States, Actions, Codes, SliceCodes
    <2>2. /\ input \in Nat /\ scanned \in 0 .. BufferSize + 1
          /\ chunkPtr \in 0 .. BufferSize /\ chunkStart \in 0 .. chunkPtr
          /\ userDataLen \in 0 .. BufferSize /\ userData \in 0 .. BufferSize
      OBVIOUS
    <2> QED BY <2>1, <2>2 DEF TypeOK
  <1>2. ControlInv
    BY DEF ControlInv
  <1>3. ChunkInv
    BY DEF ChunkInv, AtHeader
  <1>4. SetupInv /\ ExtensionInv
    BY DEF SetupInv, ExtensionInv
  <1> QED BY <1>1, <1>2, <1>3, <1>4 DEF IInv

LEMMA Invariance == Spec => []IInv
  BY Initial, Inductive, PTL DEF Spec

-----------------------------------------------------------------------------
(* Every variable keeps its type; chunk_ptr stays inside chunk_buffer, for *)
(* every size of the buffer and every way of cutting the stream            *)
(* (copy_chunk, mpeg2_parse_header and the slice loop of mpeg2_parse).     *)
THEOREM TypeCorrect == Spec => []TypeOK
  BY Invariance, PTL DEF IInv

(* The slice loop of mpeg2_parse is only entered, or resumed, for a        *)
(* picture with a sequence and buffers.                                    *)
THEOREM SlicesNeedPicture == Spec => []SlicesInsidePicture
  <1>1. IInv => SlicesInsidePicture
    BY DEF IInv, SlicesInsidePicture, ControlInv, SetupInv, Actions
  <1> QED BY <1>1, Invariance, PTL

(* STATE_BUFFER is returned only when all input was consumed.              *)
THEOREM NoInputLost == Spec => []BufferDrained
  <1>1. IInv => BufferDrained
    BY DEF IInv, BufferDrained, ControlInv
  <1> QED BY <1>1, Invariance, PTL

(* The user data reported in mpeg2_info_t is withdrawn before chunk_buffer *)
(* is written again.                                                       *)
THEOREM UserDataSafe == Spec => []UserDataIntact
  <1>1. IInv => UserDataIntact
    BY DEF IInv, UserDataIntact, ChunkInv
  <1> QED BY <1>1, Invariance, PTL

(* user_data_len is the number of bytes before chunk_start.                *)
THEOREM UserDataLength == Spec => []UserDataCounted
  <1>1. IInv => UserDataCounted
    BY DEF IInv, UserDataCounted, ChunkInv, InHeader
  <1> QED BY <1>1, Invariance, PTL

(* A header handler sees the bytes since its start code, in however many   *)
(* buffers they came.                                                      *)
THEOREM HeadersWhole == Spec => []HeaderIsWhole
  <1>1. IInv => HeaderIsWhole
    BY DEF IInv, HeaderIsWhole, ChunkInv, InHeader
  <1> QED BY <1>1, Invariance, PTL

(* The same for a slice, unless mpeg2_parse is resynchronising.            *)
THEOREM SlicesWhole == Spec => []SliceIsWhole
  <1>1. IInv => SliceIsWhole
    BY DEF IInv, SliceIsWhole, ChunkInv
  <1> QED BY <1>1, Invariance, PTL

(* An extension is only handled if it belongs to the header before it.     *)
THEOREM ExtensionsOfHeader == Spec => []ExtensionsMatch
  <1>1. IInv => ExtensionsMatch
    BY DEF IInv, ExtensionsMatch, ExtensionInv
  <1> QED BY <1>1, Invariance, PTL

(* The answer to every announced picture is one STATE_SLICE: mpeg2_parse   *)
(* returns it only while a picture is announced.                           *)
THEOREM SliceNeedsPicture == Spec => SliceFollowsPicture
  <1> DEFINE Returns == pc # "app" /\ pc' = "app" /\ ret' = "SLICE"
  <1>1. ASSUME IInv, [Next]_vars, Returns PROVE announced
    <2> USE <1>1
    <2>1. ASSUME NEW n \in 1 .. MaxInput, Buffer(n) PROVE FALSE
      BY <2>1 DEF Buffer
    <2>2. ASSUME NEW r \in Regions, SetRegion(r) PROVE FALSE
      BY <2>2 DEF SetRegion
    <2>3. ASSUME NEW full \in BOOLEAN, Reset(full) PROVE FALSE
      BY <2>3 DEF Reset
    <2>4. CASE Parse
      BY <2>4 DEF Parse
    <2>5. CASE SeekChunk
      BY <2>5 DEF SeekChunk, Return, Goto
    <2>6. CASE SeekHeader
      BY <2>6 DEF SeekHeader, Return, Goto
    <2>7. CASE StartHeader
      BY <2>7 DEF StartHeader, Goto
    <2>8. CASE HeaderEnd
      BY <2>8 DEF HeaderEnd, Return
    <2>9. CASE SeekSequence
      BY <2>9 DEF SeekSequence, Goto
    <2>10. CASE HeaderStarved
      BY <2>10 DEF HeaderStarved, Return
    <2>11. CASE HeaderOverflow
      BY <2>11 DEF HeaderOverflow, Return
    <2>12. CASE HeaderFound
      BY <2>12 DEF HeaderFound, Goto
    <2>13. CASE PictureHeader
      BY <2>13 DEF PictureHeader, Accept, Goto
    <2>14. CASE GopHeader
      BY <2>14 DEF GopHeader, Accept, Goto
    <2>15. CASE UserData
      BY <2>15 DEF UserData, Accept, Goto
    <2>16. CASE HeaderRejected
      BY <2>16 DEF HeaderRejected, Return
    <2>17. ASSUME NEW g \in Geometries, SequenceHeader(g) PROVE FALSE
      BY <2>17 DEF SequenceHeader, Accept, Goto
    <2>18. ASSUME NEW e \in SequenceExt \cup PictureExt, Extension(e) PROVE FALSE
      BY <2>18 DEF Extension, Accept, Goto
    <2>19. ASSUME NEW s \in {"SEQUENCE", "SEQUENCE_REPEATED", "SEQUENCE_MODIFIED"},
                 SequenceFinalize(s)
          PROVE  FALSE
      BY <2>19 DEF SequenceFinalize, Deliver, Return
    <2>20. CASE SequenceChanged
      BY <2>20 DEF SequenceChanged, Deliver, Return
    <2>21. CASE InvalidEnd
      BY <2>21 DEF InvalidEnd, Return
    <2>22. CASE GopFinalize
      BY <2>22 DEF GopFinalize, Deliver, Return
    <2>23. CASE PictureFinalize
      BY <2>23 DEF PictureFinalize, Deliver, Return
    <2>24. CASE HeaderContinues
      BY <2>24 DEF HeaderContinues, Goto
    <2>25. CASE HeaderIllegal
      BY <2>25 DEF HeaderIllegal, Return
    <2>26. CASE SliceStart
      BY <2>26 DEF SliceStart, Goto
    <2>27. CASE SliceStarved
      BY <2>27 DEF SliceStarved, Return
    <2>28. CASE SliceOverflow
      BY <2>28 DEF SliceOverflow, Return
    <2>29. CASE SliceFound
      BY <2>29 DEF SliceFound, Goto
    <2>30. CASE SliceSkipped
      BY <2>30 DEF SliceSkipped, Return, Goto
    <2>31. CASE SlicesEnd
      BY <2>31 DEF SlicesEnd, IInv, ControlInv
    <2>32. CASE UNCHANGED vars
      BY <2>32 DEF vars
    <2> QED
      BY <2>1, <2>2, <2>3, <2>4, <2>5, <2>6, <2>7, <2>8, <2>9, <2>10, <2>11,
         <2>12, <2>13, <2>14, <2>15, <2>16, <2>17, <2>18, <2>19, <2>20, <2>21,
         <2>22, <2>23, <2>24, <2>25, <2>26, <2>27, <2>28, <2>29, <2>30, <2>31,
         <2>32
      DEF Next, Application, Library
  <1>2. IInv /\ [Next]_vars => (Returns => announced)
    BY <1>1
  <1> QED BY <1>2, Invariance, PTL DEF Spec, SliceFollowsPicture

LEMMA DecoderInitial == Init => DecoderInv
  BY DEF Init, DecoderInv

LEMMA DecoderInductive ==
  ASSUME "INVALID_END" \notin ResetAt
  PROVE  IInv /\ DecoderInv /\ [Next]_vars => DecoderInv'
  <1> SUFFICES ASSUME IInv, DecoderInv, [Next]_vars PROVE DecoderInv'
    OBVIOUS
  <1> USE DEF DecoderInv, stream, chunk, header, setup
  <1>1. ASSUME NEW n \in 1 .. MaxInput, Buffer(n) PROVE DecoderInv'
    BY <1>1 DEF Buffer, IInv, ControlInv
  <1>2. ASSUME NEW r \in Regions, SetRegion(r) PROVE DecoderInv'
    BY <1>2 DEF SetRegion, IInv, ControlInv
  <1>3. ASSUME NEW full \in BOOLEAN, Reset(full) PROVE DecoderInv'
    BY <1>3 DEF Reset, StateInit, IInv, ControlInv
  <1>4. CASE Parse
    BY <1>4 DEF Parse, IInv, ControlInv
  <1>5. CASE SeekChunk
    BY <1>5 DEF SeekChunk, IInv, ControlInv
  <1>6. CASE SeekHeader
    BY <1>6 DEF SeekHeader, IInv, ControlInv
  <1>7. CASE StartHeader
    BY <1>7 DEF StartHeader, IInv, ControlInv
  <1>8. CASE HeaderEnd
    BY <1>8 DEF HeaderEnd, IInv, ControlInv
  <1>9. CASE SeekSequence
    BY <1>9 DEF SeekSequence, StateInit, IInv, ControlInv
  <1>10. CASE HeaderStarved
    BY <1>10 DEF HeaderStarved, IInv, ControlInv
  <1>11. CASE HeaderOverflow
    BY <1>11 DEF HeaderOverflow, IInv, ControlInv
  <1>12. CASE HeaderFound
    BY <1>12 DEF HeaderFound, IInv, ControlInv
  <1>13. CASE PictureHeader
    BY <1>13 DEF PictureHeader, Accept, IInv, ControlInv
  <1>14. CASE GopHeader
    BY <1>14 DEF GopHeader, Accept, IInv, ControlInv
  <1>15. CASE UserData
    BY <1>15 DEF UserData, Accept, IInv, ControlInv
  <1>16. CASE HeaderRejected
    BY <1>16 DEF HeaderRejected, IInv, ControlInv
  <1>17. ASSUME NEW g \in Geometries, SequenceHeader(g) PROVE DecoderInv'
    BY <1>17 DEF SequenceHeader, Accept, IInv, ControlInv
  <1>18. ASSUME NEW e \in SequenceExt \cup PictureExt,
               Extension(e)
        PROVE  DecoderInv'
    BY <1>18 DEF Extension, Accept, IInv, ControlInv
  <1>19. ASSUME NEW s \in {"SEQUENCE", "SEQUENCE_REPEATED", "SEQUENCE_MODIFIED"},
               SequenceFinalize(s)
        PROVE  DecoderInv'
    BY <1>19 DEF SequenceFinalize, Deliver, IInv, ControlInv
  <1>20. CASE SequenceChanged
    BY <1>20 DEF SequenceChanged, Deliver, IInv, ControlInv
  <1>21. CASE InvalidEnd
    BY <1>21 DEF InvalidEnd, StateInit, IInv, ControlInv
  <1>22. CASE GopFinalize
    BY <1>22 DEF GopFinalize, Deliver, IInv, ControlInv
  <1>23. CASE PictureFinalize
    BY <1>23 DEF PictureFinalize, Deliver, IInv, ControlInv
  <1>24. CASE HeaderContinues
    BY <1>24 DEF HeaderContinues, IInv, ControlInv
  <1>25. CASE HeaderIllegal
    BY <1>25 DEF HeaderIllegal, IInv, ControlInv
  <1>26. CASE SliceStart
    BY <1>26 DEF SliceStart, IInv, ControlInv
  <1>27. CASE SliceStarved
    BY <1>27 DEF SliceStarved, IInv, ControlInv
  <1>28. CASE SliceOverflow
    BY <1>28 DEF SliceOverflow, IInv, ControlInv
  <1>29. CASE SliceFound
    BY <1>29 DEF SliceFound, IInv, ControlInv
  <1>30. CASE SliceSkipped
    BY <1>30 DEF SliceSkipped, IInv, ControlInv
  <1>31. CASE SlicesEnd
    BY <1>31 DEF SlicesEnd, IInv, ControlInv
  <1>32. CASE UNCHANGED vars
    BY <1>32 DEF vars
  <1> QED
    BY <1>1, <1>2, <1>3, <1>4, <1>5, <1>6, <1>7, <1>8, <1>9, <1>10, <1>11,
       <1>12, <1>13, <1>14, <1>15, <1>16, <1>17, <1>18, <1>19, <1>20, <1>21,
       <1>22, <1>23, <1>24, <1>25, <1>26, <1>27, <1>28, <1>29, <1>30, <1>31,
       <1>32
    DEF Next, Application, Library

(* When the application does not reset the decoder at STATE_INVALID_END,   *)
(* the decoder, the sequence and the frame buffers have one geometry while *)
(* slices are decoded (mpeg2_header_sequence_finalize, invalid_end_action, *)
(* mpeg2_header_picture_finalize).                                         *)
THEOREM OneGeometry ==
  ASSUME "INVALID_END" \notin ResetAt
  PROVE  Spec => []GeometryAgrees
  <1>1. IInv /\ DecoderInv => GeometryAgrees
    BY DEF IInv, DecoderInv, GeometryAgrees, ControlInv, SetupInv
  <1> QED
    BY <1>1, Invariance, DecoderInitial, DecoderInductive, PTL DEF Spec

-----------------------------------------------------------------------------
(* Progress.  The function or loop that runs next: mpeg2_parse calls the   *)
(* stored action, or enters its slice loop.                                *)
Running == IF pc # "app" THEN pc ELSE IF action = "none" THEN "slices"
                                                         ELSE action

(* How far it is, at most, to the next place where bytes are consumed: a   *)
(* header that was collected is processed and answered, the header or the  *)
(* picture it announces is started, and what starts it looks for a start   *)
(* code.  A return adds one, for the call that resumes.                    *)
Ahead ==
  CASE Running = "process"                  -> 9
    [] Running = "transition"               -> 8
    [] Running = "slice_start"              -> 6
    [] Running \in {"slices", "invalid_end"} -> 5
    [] Running = "seek_header" /\ AtHeader  -> 3
    [] Running = "parse_header"             -> 2
    [] Running = "seek_sequence"            -> 1
    [] OTHER                                -> 0
Place == IF pc = "app" THEN Ahead + 1 ELSE Ahead

(* What a step of the library, or a call of it, does: consume input, or    *)
(* come nearer to the place where it is consumed, or return STATE_BUFFER   *)
(* because there is none.                                                  *)
Uses == \/ input' < input
        \/ input' = input /\ Place' < Place
        \/ input = 0 /\ input' = 0 /\ pc' = "app" /\ ret' = "BUFFER"

(* Besides, the application may give a piece, reset the decoder or choose  *)
(* a region of slices, which moves nothing.                                *)
UsesUp ==
  \/ Uses
  \/ \E n \in 1 .. MaxInput : Buffer(n)
  \/ \E full \in BOOLEAN : Reset(full)
  \/ \E r \in Regions : SetRegion(r) /\ input' = input /\ Place' = Place

LEMMA PlaceType == Place \in Nat
  BY DEF Place, Ahead

(* Every step of the library and every call of it: one step per action.    *)
LEMMA StepUses ==
  ASSUME IInv, Parse \/ Library
  PROVE  Uses
  <1> USE BufferAssumption
      DEF Uses, Place, Ahead, Running, IInv, ControlInv, stream, chunk, header, setup
  <1>0. input \in Nat /\ pc \in Loops /\ action \in Actions
    BY DEF TypeOK
  <1>1. CASE Parse
    BY <1>1, <1>0 DEF Parse, AtHeader, Actions
  <1>2. CASE SeekChunk
    <2>1. CASE SkipStarved /\ Return("BUFFER")
      BY <2>1, <1>0 DEF SkipStarved, Return
    <2>2. CASE \E c \in Codes : SkipFound(c)
      BY <2>2, <1>0 DEF SkipFound, FoundAfter
    <2> QED BY <1>2, <2>1, <2>2 DEF SeekChunk
  <1>3. CASE SeekHeader
    BY <1>3, <1>0 DEF SeekHeader, SkipStarved, SkipFound, FoundAfter,
       Return, Goto
  <1>4. CASE StartHeader
    BY <1>4, <1>0 DEF StartHeader, Goto, AtHeader, Loops, Actions
  <1>5. CASE HeaderEnd
    BY <1>5, <1>0 DEF HeaderEnd, Return, AtHeader, Loops, Actions
  <1>6. CASE SeekSequence
    BY <1>6, <1>0 DEF SeekSequence, StateInit, Goto, AtHeader, Loops,
       Actions
  <1>7. CASE HeaderStarved
    BY <1>7, <1>0 DEF HeaderStarved, CopyStarved, Return
  <1>8. CASE HeaderOverflow
    <2>1. input' = input \/ input' < input
      BY <1>8, <1>0 DEF HeaderOverflow, CopyOverflow, Room, TypeOK
    <2>2. Place' < Place
      BY <1>8 DEF HeaderOverflow, Return, AtHeader
    <2> QED BY <2>1, <2>2
  <1>9. CASE HeaderFound
    BY <1>9, <1>0 DEF HeaderFound, CopyFound, FoundAfter, Goto
  <1>10. CASE PictureHeader
    BY <1>10, <1>0 DEF PictureHeader, Accept, Goto, AtHeader, Loops,
       Actions
  <1>11. CASE GopHeader
    BY <1>11, <1>0 DEF GopHeader, Accept, Goto, AtHeader, Loops, Actions
  <1>12. CASE UserData
    BY <1>12, <1>0 DEF UserData, Accept, Goto, AtHeader, Loops, Actions
  <1>13. CASE HeaderRejected
    BY <1>13, <1>0 DEF HeaderRejected, Return, AtHeader, Loops, Actions
  <1>14. ASSUME NEW g \in Geometries,
               SequenceHeader(g)
        PROVE  Uses
    BY <1>14, <1>0 DEF SequenceHeader, Accept, Goto, AtHeader, Loops,
       Actions
  <1>15. ASSUME NEW e \in SequenceExt \cup PictureExt,
               Extension(e)
        PROVE  Uses
    BY <1>15, <1>0 DEF Extension, Accept, Goto, AtHeader, Loops, Actions
  <1>16. ASSUME NEW s \in {"SEQUENCE", "SEQUENCE_REPEATED",
                                      "SEQUENCE_MODIFIED"},
               SequenceFinalize(s)
        PROVE  Uses
    BY <1>16, <1>0 DEF SequenceFinalize, Deliver, Return, AtHeader, Loops,
       Actions
  <1>17. CASE SequenceChanged
    BY <1>17, <1>0 DEF SequenceChanged, Deliver, Return, AtHeader, Loops,
       Actions
  <1>18. CASE InvalidEnd
    BY <1>18, <1>0 DEF InvalidEnd, StateInit, Return, AtHeader, Loops,
       Actions
  <1>19. CASE GopFinalize
    BY <1>19, <1>0 DEF GopFinalize, Deliver, Return, AtHeader, Loops,
       Actions
  <1>20. CASE PictureFinalize
    BY <1>20, <1>0 DEF PictureFinalize, Deliver, Return, AtHeader, Loops,
       Actions
  <1>21. CASE HeaderContinues
    BY <1>21, <1>0 DEF HeaderContinues, Goto, AtHeader, Loops, Actions
  <1>22. CASE HeaderIllegal
    BY <1>22, <1>0 DEF HeaderIllegal, Return, AtHeader, Loops, Actions
  <1>23. CASE SliceStart
    BY <1>23, <1>0 DEF SliceStart, Goto, AtHeader, Loops, Actions
  <1>24. CASE SliceStarved
    BY <1>24, <1>0 DEF SliceStarved, CopyStarved, Return
  <1>25. CASE SliceOverflow
    BY <1>25, <1>0 DEF SliceOverflow, CopyOverflow, Room, Return, TypeOK
  <1>26. CASE SliceFound
    BY <1>26, <1>0 DEF SliceFound, FoundAfter, Goto
  <1>27. CASE SliceSkipped
    BY <1>27, <1>0 DEF SliceSkipped, SkipStarved, SkipFound, FoundAfter,
       Return, Goto
  <1>28. CASE SlicesEnd
    BY <1>28, <1>0 DEF SlicesEnd, Return, AtHeader, Loops, Actions
  <1> QED
    BY <1>1, <1>2, <1>3, <1>4, <1>5, <1>6, <1>7, <1>8, <1>9, <1>10, <1>11,
       <1>12, <1>13, <1>14, <1>15, <1>16, <1>17, <1>18, <1>19, <1>20,
       <1>21, <1>22, <1>23, <1>24, <1>25, <1>26, <1>27, <1>28
    DEF Library

(* Every call of mpeg2_parse returns, and an application that keeps        *)
(* calling it gets to the end of its piece, but for fairness: each step    *)
(* lowers the pair of the bytes left and the place, which are natural      *)
(* numbers, so no cycle of functions called or of states returned leaves   *)
(* the input in place (mpeg2_parse, mpeg2_seek_header,                     *)
(* mpeg2_parse_header, seek_sequence, invalid_end_action in decode.c).     *)
THEOREM EveryCallUsesUp ==
  Spec => [](input \in Nat /\ Place \in Nat) /\ [][UsesUp]_vars
  <1>1. IInv => input \in Nat /\ Place \in Nat
    BY PlaceType DEF IInv, TypeOK
  <1>2. ASSUME IInv, [Next]_vars PROVE [UsesUp]_vars
    <2>1. CASE Parse \/ Library
      BY <1>2, <2>1, StepUses DEF UsesUp
    <2>2. ASSUME NEW r \in Regions, SetRegion(r) PROVE UsesUp
      <3>1. input' = input /\ Place' = Place
        BY <2>2 DEF SetRegion, Place, Ahead, Running, AtHeader, stream
      <3> QED BY <2>2, <3>1 DEF UsesUp
    <2>3. CASE \E n \in 1 .. MaxInput : Buffer(n)
      BY <2>3 DEF UsesUp
    <2>4. CASE \E full \in BOOLEAN : Reset(full)
      BY <2>4 DEF UsesUp
    <2>5. CASE UNCHANGED vars
      BY <2>5
    <2> QED BY <1>2, <2>1, <2>2, <2>3, <2>4, <2>5 DEF Next, Application
  <1> QED BY <1>1, <1>2, Invariance, PTL DEF Spec
=============================================================================
