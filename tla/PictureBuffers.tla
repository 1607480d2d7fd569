--------------------------- MODULE PictureBuffers ---------------------------
(***************************************************************************)
(* The frame buffers and picture descriptions of libmpeg2 (header.c, and   *)
(* mpeg2_set_buf and mpeg2_reset of decode.c): which buffer a picture is   *)
(* decoded into and predicted from, and what mpeg2_info reports for        *)
(* display and for reuse.                                                  *)
(*                                                                         *)
(* A step of the library is what happens from one returned state to the    *)
(* next, as module Parser details it; the application answers every        *)
(* returned state.  Two mechanisms must agree: the rotation of fbuf[0..2]  *)
(* over three allocated slots, and the choice among pictures[0..3].        *)
(* Frames are numbered in coding order; "content" is the history of what   *)
(* was rendered where.                                                     *)
(***************************************************************************)
EXTENDS Integers, Sequences

CONSTANTS
  MaxFrames,    \* bound on the number of frames
  Pool,         \* the application's buffers, or the ones the library allocates
  Converts,     \* whether the application may ask for colour conversion
  Customs,      \* whether it may manage the buffers itself
  Skips,        \* whether it may skip B pictures
  Damaged       \* the stream may lose, corrupt or misplace pictures

NULL == -1
Slots == 0 .. 2               \* fbuf_alloc[0..2]

ASSUME ParameterAssumption ==
  /\ MaxFrames \in Nat /\ Damaged \in BOOLEAN
  /\ Converts \subseteq BOOLEAN /\ Customs \subseteq BOOLEAN
  /\ Skips \subseteq BOOLEAN
  /\ NULL \notin Pool /\ 1 .. 3 \subseteq Pool

VARIABLES
  pc,           \* "lib"; "setup" and "app" when the application answers
  ret,          \* the state mpeg2_parse returned, "BUFFER" once answered
  action,       \* what the library does next: mpeg2dec->action
  state,        \* mpeg2dec->state
  valid,        \* sequence.width # (unsigned)-1
  lowDelay,     \* SEQ_FLAG_LOW_DELAY of sequence
  newLowDelay,  \* the same of new_sequence
  convert,      \* mpeg2dec->convert is set
  custom,       \* mpeg2dec->custom_fbuf
  skip,         \* nb_decode_slices = 0
  first,        \* mpeg2dec->first
  codingType,   \* decoder.coding_type
  picture,      \* mpeg2dec->picture - mpeg2dec->pictures
  pictures,     \* pictures[0..3]: frame number, nb_fields, PIC_FLAG_SKIP
  fbuf,         \* fbuf[0..2]: a slot, or NULL
  buf,          \* the buffer of each slot: fbuf_alloc[i].fbuf.buf
  info,         \* the pointers of mpeg2_info_t
  yuv,          \* history: the frame in each of yuv_buf[0..2]
  yuvIndex,     \* mpeg2dec->yuv_index
  content,      \* history: the frame rendered in each buffer
  wanted,       \* buffers the application is about to give
  held,         \* buffers given in custom mode and not discarded since
  n,            \* frames started
  refs,         \* history: the two newest reference frames, [new, old]
  whole,        \* history: the frames decoded to their last field
  source,       \* history: the frames the current picture predicts from
  delivered,    \* history: the last frame returned with STATE_SLICE
  due,          \* history: the reference frame not displayed yet
  out           \* history: the frames displayed (of a conformant stream)

modes   == <<lowDelay, newLowDelay, convert, custom>>
frame   == <<first, codingType, picture, pictures>>
memory  == <<yuv, yuvIndex, content>>
history == <<n, refs, whole, source>>
display == <<delivered, due, out>>
vars == <<pc, ret, action, state, valid, lowDelay, newLowDelay, convert, custom,
          skip, first, codingType, picture, pictures, fbuf, buf, info, yuv,
          yuvIndex, content, wanted, held, n, refs, whole, source, delivered,
          due, out>>

Types == {"I", "P", "B"}              \* D pictures go the way of I pictures
States == {"INVALID", "SEQUENCE", "SEQUENCE_REPEATED", "GOP", "PICTURE",
           "SLICE_1ST", "PICTURE_2ND", "SLICE", "INVALID_END"}
Final == {"SLICE", "END", "INVALID_END"}     \* the application displays

NoInfo == [current_picture |-> NULL, current_picture_2nd |-> NULL,
           display_picture |-> NULL, display_picture_2nd |-> NULL,
           current_fbuf |-> NULL, display_fbuf |-> NULL, discard_fbuf |-> NULL]
NoPicture == [id |-> 0, fields |-> 2, skip |-> FALSE]
NoRefs == [new |-> 0, old |-> 0]

Init ==
  /\ pc = "lib" /\ ret = "BUFFER" /\ action = "header" /\ state = "INVALID"
  /\ valid = FALSE /\ lowDelay = FALSE /\ newLowDelay = FALSE
  /\ convert = FALSE /\ custom = FALSE /\ skip = FALSE
  /\ first = TRUE /\ codingType = "I" /\ picture = 0
  /\ pictures = [i \in 0 .. 3 |-> NoPicture]
  /\ fbuf = [i \in Slots |-> i] /\ buf = [i \in Slots |-> NULL]
  /\ info = NoInfo
  /\ yuv = [i \in Slots |-> 0] /\ yuvIndex = 0 /\ content = [b \in Pool |-> 0]
  /\ wanted = 0 /\ held = {}
  /\ n = 0 /\ refs = NoRefs /\ whole = {} /\ source = NoRefs
  /\ delivered = 0 /\ due = 0 /\ out = <<>>

Return(r) == pc' = "app" /\ ret' = r
Bit(b) == IF b THEN 1 ELSE 0

(* mpeg2_header_state_init                                                 *)
StateInit ==
  /\ codingType' = "I" /\ picture' = 0 /\ first' = TRUE
  /\ fbuf' = [i \in Slots |-> i] /\ buf' = [i \in Slots |-> NULL]
  /\ convert' = FALSE /\ custom' = FALSE /\ skip' = FALSE
  /\ yuvIndex' = 0 /\ yuv' = [i \in Slots |-> 0]
  /\ content' = [b \in Pool |-> 0]
  /\ held' = {} /\ refs' = NoRefs

-----------------------------------------------------------------------------
(* Sequences and groups of pictures.                                       *)

Header == pc = "lib" /\ action = "header"

(* No header but the second field's may follow a first field.              *)
FrameOver == Damaged \/ state # "SLICE_1ST"

Sequence(ld) ==                 \* sequence_finalize, no sequence before
  /\ Header /\ ~valid
  /\ valid' = TRUE /\ lowDelay' = ld /\ newLowDelay' = ld
  /\ state' = "SEQUENCE" /\ info' = NoInfo
  /\ pc' = "setup" /\ ret' = "SEQUENCE"
  /\ UNCHANGED <<action, convert, custom, skip, frame, fbuf, buf, memory,
                 wanted, held, history, display>>

RepeatSequence ==               \* sequence_finalize, the same sequence again
  /\ Header /\ valid /\ FrameOver
  /\ state' = "SEQUENCE_REPEATED" /\ info' = NoInfo
  /\ Return("SEQUENCE_REPEATED")
  /\ UNCHANGED <<action, valid, modes, skip, frame, fbuf, buf, memory, wanted,
                 held, history, display>>

Gop ==                          \* header_gop and gop_finalize
  /\ Header /\ valid /\ FrameOver
  /\ state' = "GOP" /\ info' = NoInfo
  /\ Return("GOP")
  /\ UNCHANGED <<action, valid, modes, skip, frame, fbuf, buf, memory, wanted,
                 held, history, display>>

(* What mpeg2_header_end reports: the last reference frame, in a low delay *)
(* sequence only the buffer to reuse.                                      *)
LastReferenceNoB == IF picture >= 2 THEN 2 ELSE 0        \* mutant
LastReference == IF (picture >= 2) # (codingType = "B") THEN 2 ELSE 0

EndInfo ==
  LET b == Bit(codingType = "B")
      p == LastReference
      freed == IF lowDelay THEN fbuf[b] ELSE fbuf[b + 1]
      base == [NoInfo EXCEPT !.discard_fbuf = IF convert THEN NULL ELSE freed]
  IN IF lowDelay THEN base
     ELSE [base EXCEPT
             !.display_picture = p,
             !.display_picture_2nd =
               IF pictures[p].fields = 1 THEN p + 1 ELSE NULL,
             !.display_fbuf = fbuf[b]]

(* In a conformant stream pictures precede the end of a sequence, also     *)
(* after a seek.                                                           *)
MayEnd == /\ Header /\ valid /\ FrameOver
          /\ Damaged \/ due # 0 \/ (lowDelay /\ refs.new # 0)

End ==                                                 \* mpeg2_header_end
  /\ MayEnd
  /\ info' = EndInfo
  /\ action' = "seek_sequence"
  /\ Return("END")
  /\ UNCHANGED <<state, valid, modes, skip, frame, fbuf, buf, memory, wanted,
                 held, history, display>>

ChangeSequence(ld) ==           \* sequence_finalize, another sequence
  /\ MayEnd
  /\ newLowDelay' = ld /\ state' = "INVALID_END" /\ info' = EndInfo
  /\ action' = "invalid_end"
  /\ Return("INVALID_END")
  /\ UNCHANGED <<valid, lowDelay, convert, custom, skip, frame, fbuf, buf,
                 memory, wanted, held, history, display>>

InvalidEnd ==                                          \* invalid_end_action
  /\ pc = "lib" /\ action = "invalid_end"
  /\ StateInit /\ info' = NoInfo
  /\ lowDelay' = newLowDelay /\ state' = "SEQUENCE" /\ action' = "header"
  /\ pc' = "setup" /\ ret' = "SEQUENCE"
  /\ UNCHANGED <<valid, newLowDelay, pictures, wanted, n, whole, source,
                 display>>

SeekSequence ==
  /\ pc = "lib" /\ action = "seek_sequence"
  /\ StateInit /\ info' = NoInfo
  /\ valid' = FALSE /\ action' = "header"
  /\ UNCHANGED <<pc, ret, state, lowDelay, newLowDelay, pictures, wanted, n,
                 whole, source, display>>

-----------------------------------------------------------------------------
(* Pictures.                                                               *)

(* fbuf[2] = fbuf[1]; fbuf[1] = fbuf[0].                                   *)
RotateSwapped(f) == [f EXCEPT ![1] = f[0], ![2] = f[0]]  \* mutant
Rotate(f) == [f EXCEPT ![1] = f[0], ![2] = f[1]]

(* mpeg2_set_fbuf: the first slot that is not a prediction buffer.         *)
FreeSlotOfOne(f) == CHOOSE i \in Slots : i # f[1]        \* mutant
FreeSlot(f) == CHOOSE i \in Slots : /\ i \notin {f[1], f[2]}
                                    /\ \A j \in Slots : j < i => j \in {f[1], f[2]}

SetFbufInfoKeepB(s, bType, i) ==                         \* mutant
  [i EXCEPT !.current_fbuf = s,
            !.display_fbuf = IF bType \/ lowDelay THEN s ELSE @]
SetFbufInfo(s, bType, i) ==
  LET shows == bType \/ lowDelay
  IN [i EXCEPT
        !.current_fbuf = s,
        !.display_fbuf = IF shows THEN s ELSE @,
        !.discard_fbuf = IF shows /\ (bType \/ convert) THEN s ELSE @]

(* The pair of pictures a frame takes: B frames share one, reference       *)
(* frames alternate.                                                       *)
FramePair == IF (codingType = "B") # (picture < 2) THEN 2 ELSE 0

(* The buffer that a reference frame makes superfluous.                    *)
SupersededEarly(f) == IF lowDelay THEN NULL ELSE f[1]    \* mutant
Superseded(f) == LET k == Bit(~lowDelay) + Bit(~convert)
                 IN IF k > 0 THEN f[k] ELSE NULL

(* mpeg2dec->first: no reference frame to display yet.                     *)
StillFirstAlways(type) == first                          \* mutant
StillFirst(type) == first /\ (type = "B" \/ lowDelay)

(* The info mpeg2_header_picture_finalize fills in for a first field or    *)
(* frame; f is fbuf after the rotation, other the other pair of pictures.  *)
PictureInfo(type, p, other, f, ps) ==
  LET base == [NoInfo EXCEPT !.current_picture = p, !.display_picture = p]
      freed == Superseded(f)
  IN CASE type = "B" -> base
       [] type # "B" /\ lowDelay -> [base EXCEPT !.discard_fbuf = freed]
       [] type # "B" /\ ~lowDelay /\ first ->
            [base EXCEPT !.display_picture = NULL, !.discard_fbuf = freed]
       [] OTHER ->
            [base EXCEPT
               !.display_picture = other,
               !.display_picture_2nd =
                 IF ps[other].fields = 1 THEN other + 1 ELSE NULL,
               !.display_fbuf = f[1],
               !.discard_fbuf = freed]

(* mpeg2_header_picture and mpeg2_header_picture_finalize for a frame, or  *)
(* for the first field of one.                                             *)
Picture(type, fields) ==
  /\ Header /\ valid /\ n < MaxFrames
  /\ state # "SLICE_1ST"
  /\ ~Damaged => /\ type = "B" => refs.new # 0 /\ ~lowDelay
                 /\ refs.new = 0 => type = "I"
  /\ LET oldB == codingType = "B"
         p == FramePair
         f == [(IF oldB THEN fbuf ELSE Rotate(fbuf)) EXCEPT ![0] = NULL]
         ps == [pictures EXCEPT
                  ![p] = [id |-> n + 1, fields |-> fields, skip |-> FALSE]]
         pi == PictureInfo(type, p, 2 - p, f, ps)
     IN /\ codingType' = type
        /\ picture' = p /\ pictures' = ps
        /\ first' = StillFirst(type)
        /\ IF custom
             THEN fbuf' = f /\ info' = pi /\ wanted' = 1 /\ UNCHANGED buf
             ELSE /\ fbuf' = [f EXCEPT ![0] = FreeSlot(f)]
                  /\ info' = SetFbufInfo(FreeSlot(f), type = "B", pi)
                  /\ buf' = [i \in Slots |-> i + 1]
                  /\ wanted' = 0
  /\ state' = "PICTURE" /\ action' = "slice_start"
  /\ Return("PICTURE")
  /\ n' = n + 1
  /\ refs' = IF type = "B" THEN refs ELSE [new |-> n + 1, old |-> refs.new]
  /\ UNCHANGED <<valid, modes, skip, memory, held, whole, source, display>>

(* The same for a second field; in a conformant stream it belongs to the   *)
(* frame of the first one.                                                 *)
SecondField(type, fields) ==
  /\ Header /\ valid /\ state = "SLICE_1ST"
  /\ ~Damaged => /\ (type = "B") <=> (codingType = "B")
                 /\ codingType = "P" => type = "P"
                 /\ fields = 1
  /\ codingType' = type
  /\ picture' = picture + 1
  /\ pictures' = [pictures EXCEPT ![picture + 1] =
                    [id |-> n, fields |-> fields, skip |-> FALSE]]
  /\ info' = [info EXCEPT
                !.current_picture_2nd = picture',
                !.display_picture_2nd =
                  IF lowDelay \/ type = "B" THEN picture' ELSE @]
  /\ state' = "PICTURE_2ND" /\ action' = "slice_start"
  /\ Return("PICTURE_2ND")
  /\ UNCHANGED <<valid, modes, skip, first, fbuf, buf, memory, wanted, held,
                 history, display>>

(* A picture header that is parsed but never finalized.                    *)
PictureLost ==
  /\ Damaged /\ Header /\ valid
  /\ state' = IF state = "SLICE_1ST" THEN "PICTURE_2ND" ELSE "PICTURE"
  /\ Return("INVALID")
  /\ UNCHANGED <<action, valid, modes, skip, frame, fbuf, buf, info, memory,
                 wanted, held, history, display>>

(* The slices to come are the last ones of the frame.                      *)
LastFieldByCount == pictures[picture].fields > 1         \* mutant
LastField == pictures[picture].fields > 1 \/ state = "PICTURE_2ND"

OtherYuvNext(i) == i + 1                                 \* mutant
OtherYuv(i) == 1 - i                                     \* yuv_index ^ 1

(* mpeg2_header_slice_start, with the mpeg2_init_fbuf it calls, and the    *)
(* slices decoded after it.                                                *)
Render(target, forward, backward, done) ==
  /\ content' = [content EXCEPT ![buf[fbuf[0]]] = n]
  /\ source' = [new |-> backward, old |-> forward]
  /\ IF convert
       THEN /\ yuv' = [yuv EXCEPT ![target] = n]
            /\ yuvIndex' = IF codingType # "B" /\ done THEN OtherYuv(yuvIndex)
                                                       ELSE yuvIndex
       ELSE UNCHANGED <<yuv, yuvIndex>>
  /\ whole' = IF done THEN whole \cup {n} ELSE whole

SliceStart ==
  /\ pc = "lib" /\ action = "slice_start"
  /\ LET b == Bit(codingType = "B")
         done == LastField
     IN /\ state' = IF done THEN "SLICE" ELSE "SLICE_1ST"
        /\ CASE skip -> /\ pictures' = [pictures EXCEPT ![picture].skip = TRUE]
                        /\ UNCHANGED <<content, source, yuv, yuvIndex, whole>>
             [] ~skip /\ convert ->
                  /\ Render(IF b = 1 THEN 2 ELSE OtherYuv(yuvIndex),
                            yuv[IF b = 1 THEN OtherYuv(yuvIndex) ELSE yuvIndex],
                            yuv[yuvIndex], done)
                  /\ UNCHANGED pictures
             [] OTHER ->
                  /\ Render(fbuf[0], content[buf[fbuf[b + 1]]],
                            content[buf[fbuf[b]]], done)
                  /\ UNCHANGED pictures
  /\ action' = "none"
  /\ UNCHANGED <<pc, ret, valid, modes, skip, first, codingType, picture, fbuf,
                 buf, info, wanted, held, n, refs, display>>

(* The slice loop of mpeg2_parse ends: at a picture start code the state   *)
(* is returned, at any other header only STATE_SLICE is.                   *)
SlicesEnd(atPicture) ==
  /\ pc = "lib" /\ action = "none"
  /\ atPicture \/ state = "SLICE" \/ Damaged
  /\ action' = "header"
  /\ Return(IF atPicture \/ state = "SLICE" THEN state ELSE "INVALID")
  /\ UNCHANGED <<state, valid, modes, skip, frame, fbuf, buf, info, memory,
                 wanted, held, history, display>>

-----------------------------------------------------------------------------
(* The application.                                                        *)

(* STATE_SEQUENCE: mpeg2_convert, mpeg2_custom_fbuf; two buffers to start. *)
Setup(c, u) ==
  /\ pc = "setup"
  /\ convert' = c /\ custom' = u
  /\ wanted' = IF u THEN 2 ELSE 0
  /\ pc' = "app"
  /\ UNCHANGED <<ret, action, state, valid, lowDelay, newLowDelay, skip, frame,
                 fbuf, buf, info, memory, held, history, display>>

SetBuf(b) ==                                            \* mpeg2_set_buf
  /\ pc = "app" /\ wanted > 0
  /\ b \in Pool \ held
  /\ LET f == IF state = "SEQUENCE" THEN Rotate(fbuf) ELSE fbuf
     IN /\ fbuf' = [f EXCEPT ![0] = FreeSlot(f)]
        /\ buf' = [buf EXCEPT ![FreeSlot(f)] = b]
        /\ info' = SetFbufInfo(FreeSlot(f), codingType = "B", info)
  /\ held' = held \cup {b}
  /\ wanted' = wanted - 1
  /\ UNCHANGED <<pc, ret, action, state, valid, modes, skip, frame, memory,
                 history, display>>

Answer(s) ==           \* any other state; mpeg2_skip at STATE_PICTURE
  /\ pc = "app" /\ wanted = 0 /\ ret \notin Final
  /\ pc' = "lib" /\ ret' = "BUFFER"
  /\ skip' = IF ret = "PICTURE" THEN s /\ codingType = "B" ELSE skip
  /\ UNCHANGED <<action, state, valid, modes, frame, fbuf, buf, info,
                 memory, wanted, held, history, display>>

(* STATE_SLICE, STATE_END, STATE_INVALID_END: draw display_fbuf, reuse     *)
(* discard_fbuf; at the end of a sequence all buffers are given up.        *)
Show ==
  /\ pc = "app" /\ ret \in Final
  /\ pc' = "lib" /\ ret' = "BUFFER"
  /\ out' = IF info.display_fbuf = NULL \/ Damaged THEN out
            ELSE Append(out, pictures[info.display_picture].id)
  /\ held' = CASE ret # "SLICE" -> {}
               [] ret = "SLICE" /\ custom /\ info.discard_fbuf # NULL ->
                    held \ {buf[info.discard_fbuf]}
               [] OTHER -> held
  /\ delivered' = IF ret = "SLICE" THEN n ELSE delivered
  /\ due' = CASE ret # "SLICE" -> 0
              [] ret = "SLICE" /\ codingType # "B" /\ ~lowDelay -> n
              [] OTHER -> due
  /\ UNCHANGED <<action, state, valid, modes, skip, frame, fbuf, buf, info,
                 memory, wanted, history>>

(* mpeg2_reset, where the application skips to another position inside a   *)
(* sequence (module Parser has the resets at its end): between two         *)
(* pictures, or anywhere when Damaged.                                     *)
Reset(full) ==
  /\ pc = "lib" /\ action \notin {"seek_sequence", "invalid_end"}
  /\ Damaged \/ (Header /\ FrameOver)
  /\ action' = "header" /\ state' = "INVALID" /\ info' = NoInfo
  /\ due' = 0
  /\ IF full
       THEN StateInit /\ valid' = FALSE
       ELSE /\ first' = TRUE
            /\ UNCHANGED <<codingType, picture, fbuf, buf, convert, custom, skip,
                           yuvIndex, yuv, content, held, refs, valid>>
  /\ UNCHANGED <<pc, ret, lowDelay, newLowDelay, pictures, wanted, n, whole,
                 source, delivered, out>>

-----------------------------------------------------------------------------
Library ==
  \/ \E ld \in BOOLEAN : Sequence(ld) \/ ChangeSequence(ld)
  \/ RepeatSequence \/ Gop \/ End \/ InvalidEnd \/ SeekSequence
  \/ \E t \in Types, k \in {1, 2} : Picture(t, k) \/ SecondField(t, k)
  \/ PictureLost \/ SliceStart
  \/ \E atPicture \in BOOLEAN : SlicesEnd(atPicture)

Application ==
  \/ \E c \in Converts, u \in Customs : Setup(c, u)
  \/ \E b \in Pool : SetBuf(b)
  \/ \E s \in Skips : Answer(s)
  \/ Show
  \/ \E full \in BOOLEAN : Reset(full)

Next == Library \/ Application
Spec == Init /\ [][Next]_vars
-----------------------------------------------------------------------------
Pointers == {"current_picture", "current_picture_2nd", "display_picture",
             "display_picture_2nd", "current_fbuf", "display_fbuf",
             "discard_fbuf"}

(* Every variable ranges over its type: in particular the info pointers    *)
(* and picture stay inside pictures[0..3] and fbuf_alloc[0..2].            *)
TypeOK ==
  /\ pc \in {"lib", "setup", "app"}
  /\ ret \in States \cup {"END", "BUFFER"} /\ state \in States
  /\ action \in {"header", "slice_start", "none", "invalid_end",
                 "seek_sequence"}
  /\ {valid, lowDelay, newLowDelay, convert, custom, skip, first}
       \subseteq BOOLEAN
  /\ codingType \in Types /\ picture \in 0 .. 3
  /\ pictures \in [0 .. 3 -> [id : 0 .. MaxFrames, fields : {1, 2},
                              skip : BOOLEAN]]
  /\ fbuf \in [Slots -> Slots \cup {NULL}]
  /\ buf \in [Slots -> Pool \cup {NULL}]
  /\ info \in [Pointers -> 0 .. 3 \cup {NULL}]
  /\ yuv \in [Slots -> 0 .. MaxFrames] /\ yuvIndex \in {0, 1}
  /\ content \in [Pool -> 0 .. MaxFrames]
  /\ wanted \in 0 .. 2 /\ held \in SUBSET Pool
  /\ {n, refs.new, refs.old, source.new, source.old, delivered, due}
       \subseteq 0 .. MaxFrames
  /\ whole \in SUBSET (1 .. MaxFrames) /\ out \in Seq(0 .. MaxFrames)

(* From STATE_PICTURE on, and for both fields, the picture has a slot of   *)
(* its own: neither of the two prediction slots, which differ as well, is  *)
(* written.  Holds for any loss or misplacement of headers.                *)
TargetIsFree ==
  action \in {"slice_start", "none"} /\ wanted = 0 =>
    /\ fbuf[0] \in Slots
    /\ fbuf[0] # fbuf[1] /\ fbuf[0] # fbuf[2] /\ fbuf[1] # fbuf[2]

(* mpeg2dec->picture++ for a second field stays inside the pair of         *)
(* pictures chosen for the frame.                                          *)
SecondFieldFits == state = "SLICE_1ST" => picture \in {0, 2}

(* A P picture predicts from the newest complete reference frame before    *)
(* it, a B picture from the two newest, in order: the rotation of fbuf     *)
(* and the toggling of yuv_index agree with the coding order, whichever    *)
(* of the two the mode uses.                                               *)
PredictsNewest ==
  action = "none" /\ ~skip =>
    /\ codingType = "P" /\ refs.old \in whole => source.old = refs.old
    /\ codingType = "B" /\ {refs.old, refs.new} \subseteq whole =>
         source = refs

(* What is handed out for display was rendered, completely, and is what    *)
(* display_picture and display_picture_2nd describe.                       *)
DisplayDescribed ==
  pc = "app" /\ ret \in Final /\ info.display_fbuf # NULL =>
    /\ info.display_picture # NULL
    /\ LET p == pictures[info.display_picture]
           q == info.display_picture_2nd
       IN /\ \/ p.skip
             \/ p.id \in whole /\ content[buf[info.display_fbuf]] = p.id
          /\ (q = NULL) <=> (p.fields = 2)
          /\ q # NULL => pictures[q].id = p.id

(* A buffer that the application got back as discard_fbuf is not decoded   *)
(* into, predicted from or displayed any more, until it is given again,    *)
(* and given again it is never the target and the source of one picture.   *)
NoUseAfterDiscard ==
  custom =>
    /\ action = "none" /\ ~skip =>
         LET b == Bit(codingType = "B")
         IN /\ buf[fbuf[0]] \in held
            /\ ~convert /\ codingType # "I" =>
                 \A i \in 1 .. b + 1 : /\ buf[fbuf[i]] \in held
                                       /\ buf[fbuf[i]] # buf[fbuf[0]]
    /\ pc = "app" /\ ret \in Final /\ info.display_fbuf # NULL =>
         buf[info.display_fbuf] \in held

(* doc/sample5.c:74: the application finds a free buffer among its three   *)
(* for every picture (otherwise "Could not find a free fbuf").             *)
BufferAvailable == pc = "app" /\ wanted > 0 => Pool \ held # {}

(* The frames come out in display order, each once.                        *)
Order == INSTANCE DisplayOrder WITH
           Frames <- 1 .. MaxFrames, decoded <- delivered, pending <- due
DisplayOrderImplemented == Order!Spec
=============================================================================
