------------------------ MODULE PictureBuffersProofs ------------------------
(***************************************************************************)
(* Proofs about PictureBuffers, for any number of frames and buffers.      *)
(*                                                                         *)
(* First, for any application and any damage of the stream: where pictures *)
(* are decoded (FInv).                                                     *)
(*                                                                         *)
(* Then for streams that lose nothing (~Damaged): what the decoder         *)
(* predicts from, displays and gives back, that it implements              *)
(* DisplayOrder, and that no frame is shown twice.                         *)
(*                                                                         *)
(* The invariant IInv says where each frame that is still needed is: in    *)
(* which buffer (ContentInv, YuvInv), described by which picture           *)
(* (PicturesInv), reported how (InfoInv), and which of the application's   *)
(* buffers are in use (HeldInv), from the header of a frame to its last    *)
(* slice and on to the next frame.  The steps fall into three groups:      *)
(* those that leave the frames alone (Quiet), those that start over        *)
(* (Fresh), and those that begin, continue and render a frame.             *)
(***************************************************************************)
EXTENDS PictureBuffers, TLAPS

(* The prediction slots differ, and the current slot differs from both     *)
(* except while the application is asked for its buffer.                   *)
Awaited == pc = "app" /\ ret = "PICTURE" /\ state = "PICTURE" /\ wanted = 1
SlotInv ==
  /\ fbuf \in [Slots -> Slots \cup {NULL}]
  /\ fbuf[1] \in Slots /\ fbuf[2] \in Slots /\ fbuf[1] # fbuf[2]
  /\ \/ fbuf[0] \in Slots /\ fbuf[0] # fbuf[1] /\ fbuf[0] # fbuf[2]
     \/ fbuf[0] = NULL /\ Awaited

(* A frame starts at the first picture of a pair.                          *)
PairInv ==
  /\ picture \in 0 .. 3
  /\ action = "slice_start" => state \in {"PICTURE", "PICTURE_2ND"}
  /\ action = "slice_start" /\ state = "PICTURE" => picture \in {0, 2}
  /\ state = "SLICE_1ST" => picture \in {0, 2}

FInv == SlotInv /\ PairInv

-----------------------------------------------------------------------------
(* mpeg2_set_fbuf finds a slot, and none of the prediction slots.          *)
LEMMA FreeSlotFree ==
  ASSUME NEW f, f[1] \in Slots, f[2] \in Slots, f[1] # f[2]
  PROVE  FreeSlot(f) \in Slots \ {f[1], f[2]}
  <1> DEFINE Free(i) == /\ i \notin {f[1], f[2]}
                        /\ \A j \in Slots : j < i => j \in {f[1], f[2]}
  <1>1. \E i \in Slots : Free(i)
    <2>1. CASE 0 \notin {f[1], f[2]}
      <3>1. Free(0)
        BY <2>1 DEF Slots
      <3> QED BY <3>1 DEF Slots
    <2>2. CASE 0 \in {f[1], f[2]} /\ 1 \notin {f[1], f[2]}
      <3>1. Free(1)
        BY <2>2 DEF Slots
      <3> QED BY <3>1 DEF Slots
    <2>3. CASE {f[1], f[2]} = {0, 1}
      <3>1. Free(2)
        BY <2>3 DEF Slots
      <3> QED BY <3>1 DEF Slots
    <2> QED BY <2>1, <2>2, <2>3 DEF Slots
  <1>2. FreeSlot(f) = CHOOSE i \in Slots : Free(i)
    BY DEF FreeSlot
  <1> QED BY <1>1, <1>2

(* The picture chosen for a frame is the first one of a pair.              *)
LEMMA FramePairFirst == FramePair \in {0, 2}
  BY DEF FramePair

LEMMA FramesInitial == Init => FInv
  BY DEF Init, FInv, SlotInv, PairInv, Slots, NULL

LEMMA FramesInductive == FInv /\ [Next]_vars => FInv'
  <1> SUFFICES ASSUME FInv, [Next]_vars PROVE FInv'
    OBVIOUS
  <1> USE DEF frame, modes, memory, history, display, FInv
  <1>1. ASSUME StateInit, UNCHANGED pictures,
               action' \in {"header"}, state' # "SLICE_1ST" \/ state' = state
        PROVE  FInv'
    BY <1>1 DEF StateInit, SlotInv, PairInv, Slots, NULL
  <1>2. ASSUME UNCHANGED <<fbuf, picture>>, action' # "slice_start",
               state' = "SLICE_1ST" => state = "SLICE_1ST",
               ~Awaited \/ Awaited'
        PROVE  FInv'
    BY <1>2 DEF SlotInv, PairInv
  <1>3. ASSUME NEW ld \in BOOLEAN, Sequence(ld) PROVE FInv'
    BY <1>2, <1>3 DEF Sequence, Header, Awaited
  <1>4. ASSUME NEW ld \in BOOLEAN, ChangeSequence(ld) PROVE FInv'
    BY <1>2, <1>4 DEF ChangeSequence, MayEnd, Header, Awaited
  <1>5. CASE RepeatSequence
    BY <1>2, <1>5 DEF RepeatSequence, Header, Awaited
  <1>6. CASE Gop
    BY <1>2, <1>6 DEF Gop, Header, Awaited
  <1>7. CASE End
    BY <1>2, <1>7 DEF End, MayEnd, Header, Awaited
  <1>8. CASE InvalidEnd
    BY <1>1, <1>8 DEF InvalidEnd
  <1>9. CASE SeekSequence
    BY <1>1, <1>9 DEF SeekSequence
  <1>10. ASSUME NEW t \in Types, NEW k \in {1, 2}, Picture(t, k) PROVE FInv'
    <2> DEFINE f == [(IF codingType = "B" THEN fbuf ELSE Rotate(fbuf))
                       EXCEPT ![0] = NULL]
    <2>1. /\ f \in [Slots -> Slots \cup {NULL}]
          /\ f[1] \in Slots /\ f[2] \in Slots /\ f[1] # f[2] /\ f[0] = NULL
      BY <1>10 DEF Picture, Header, SlotInv, Rotate, Slots, NULL, Awaited
    <2>2. PairInv'
      BY <1>10, FramePairFirst DEF Picture, PairInv
    <2>3. /\ custom => fbuf' = f /\ Awaited'
          /\ ~custom => fbuf' = [f EXCEPT ![0] = FreeSlot(f)]
      BY <1>10 DEF Picture, Return, Awaited
    <2> HIDE DEF f
    <2>4. SlotInv'
      BY <2>1, <2>3, FreeSlotFree DEF SlotInv, Slots
    <2> QED BY <2>2, <2>4
  <1>11. ASSUME NEW t \in Types, NEW k \in {1, 2}, SecondField(t, k)
         PROVE  FInv'
    BY <1>11 DEF SecondField, Header, SlotInv, PairInv, Awaited
  <1>12. CASE PictureLost
    BY <1>2, <1>12 DEF PictureLost, Header, Awaited
  <1>13. CASE SliceStart
    BY <1>13 DEF SliceStart, SlotInv, PairInv, Awaited, LastField
  <1>14. ASSUME NEW a \in BOOLEAN, SlicesEnd(a) PROVE FInv'
    BY <1>2, <1>14 DEF SlicesEnd, Awaited
  <1>15. ASSUME NEW c \in Converts, NEW u \in Customs, Setup(c, u) PROVE FInv'
    BY <1>15 DEF Setup, SlotInv, PairInv, Awaited
  <1>16. ASSUME NEW b \in Pool, SetBuf(b) PROVE FInv'
    <2> DEFINE f == IF state = "SEQUENCE" THEN Rotate(fbuf) ELSE fbuf
    <2>1. /\ f \in [Slots -> Slots \cup {NULL}]
          /\ f[1] \in Slots /\ f[2] \in Slots /\ f[1] # f[2]
      BY <1>16 DEF SlotInv, Rotate, Slots, NULL, Awaited
    <2>2. fbuf' = [f EXCEPT ![0] = FreeSlot(f)]
      BY <1>16 DEF SetBuf
    <2>3. SlotInv'
      BY <2>1, <2>2, FreeSlotFree DEF SlotInv, Slots
    <2>4. PairInv'
      BY <1>16 DEF SetBuf, PairInv
    <2> QED BY <2>3, <2>4
  <1>17. ASSUME NEW s \in Skips, Answer(s) PROVE FInv'
    BY <1>17 DEF Answer, SlotInv, PairInv, Awaited
  <1>18. CASE Show
    BY <1>18 DEF Show, Final, SlotInv, PairInv, Awaited
  <1>19. ASSUME NEW full \in BOOLEAN, Reset(full) PROVE FInv'
    <2>1. CASE full
      BY <1>1, <1>19, <2>1 DEF Reset
    <2>2. CASE ~full
      BY <1>2, <1>19, <2>2 DEF Reset, Header, Awaited
    <2> QED BY <2>1, <2>2
  <1>20. CASE UNCHANGED vars
    BY <1>20 DEF vars, SlotInv, PairInv, Awaited
  <1> QED
    BY <1>3, <1>4, <1>5, <1>6, <1>7, <1>8, <1>9, <1>10, <1>11, <1>12, <1>13,
       <1>14, <1>15, <1>16, <1>17, <1>18, <1>19, <1>20
    DEF Next, Library, Application

LEMMA FramesInvariant == Spec => []FInv
  BY FramesInitial, FramesInductive, PTL DEF Spec

-----------------------------------------------------------------------------
(* Whatever headers a damaged stream loses, misplaces or repeats, and      *)
(* wherever the application resets, the current picture is decoded into a  *)
(* slot of its own (mpeg2_set_fbuf after the rotation of fbuf).            *)
THEOREM TargetAlwaysFree == Spec => []TargetIsFree
  <1>1. FInv => TargetIsFree
    BY DEF FInv, SlotInv, TargetIsFree, Awaited
  <1> QED BY <1>1, FramesInvariant, PTL

(* A second field follows the first one of its pair, so that               *)
(* mpeg2dec->picture++ stays inside pictures[0..3].                        *)
THEOREM SecondFieldInPair == Spec => []SecondFieldFits
  <1>1. FInv => SecondFieldFits
    BY DEF FInv, PairInv, SecondFieldFits
  <1> QED BY <1>1, FramesInvariant, PTL

-----------------------------------------------------------------------------
(* Where a frame is: its header was returned; that of its second field     *)
(* was; its first field is decoded; all of it is, and not shown yet.       *)
Begun == action = "slice_start" /\ state = "PICTURE"
Second == action = "slice_start" /\ state = "PICTURE_2ND"
FirstDone == state = "SLICE_1ST"
Finished == state = "SLICE" /\ (action = "none" \/ (pc = "app" /\ ret = "SLICE"))
Showing == Begun \/ Second \/ FirstDone \/ Finished
Closing == action \in {"seek_sequence", "invalid_end"}

IsB == codingType = "B"
Open == ~IsB /\ (Begun \/ Second \/ FirstDone)   \* a reference, not complete
F(i) == buf[fbuf[i]]                             \* the buffer of a slot
Pair == IF picture >= 2 THEN 2 ELSE 0

(* Control: what the stored action and the returned state say of each      *)
(* other.                                                                  *)
ControlInv ==
  /\ action = "slice_start" =>
       state \in {"PICTURE", "PICTURE_2ND"} /\ (pc = "app" => ret = state)
  /\ action = "none" => pc = "lib" /\ state \in {"SLICE_1ST", "SLICE"}
  /\ action = "invalid_end" /\ pc = "app" => ret = "INVALID_END"
  /\ action = "seek_sequence" /\ pc = "app" => ret = "END"
  /\ Closing => ~FirstDone
  /\ action = "header" /\ pc = "app" =>
       /\ ret \in {"SEQUENCE", "SEQUENCE_REPEATED", "GOP", "SLICE_1ST", "SLICE"}
       /\ ret = state
  /\ pc = "setup" => state = "SEQUENCE" /\ action = "header" /\ wanted = 0
                     /\ ret = "SEQUENCE" /\ held = {}
  /\ wanted > 0 =>
       /\ pc = "app" /\ custom
       /\ \/ Begun /\ wanted = 1
          \/ action = "header" /\ state = "SEQUENCE"

(* The stream: reference frames before others, and none in a new sequence. *)
StreamInv ==
  /\ n \in Nat /\ refs \in [new : 0 .. n, old : 0 .. n]
  /\ refs.new = 0 => /\ refs.old = 0 /\ codingType = "I" /\ first /\ due = 0
                     /\ ~Showing /\ picture = 0
  /\ state = "SEQUENCE" => refs.new = 0
  /\ ~valid => /\ refs.new = 0 /\ ~custom
               /\ pc # "setup" /\ action # "invalid_end"
  /\ Showing => delivered < n
  /\ ~Showing => delivered <= n
  /\ Showing /\ ~IsB => refs.new = n /\ refs.old < n
  /\ IsB => ~lowDelay
  /\ Showing /\ skip /\ ~(Begun /\ pc = "app") => IsB

(* Custom buffers: where they are once the application has answered        *)
(* STATE_SEQUENCE, as long as the sequence lasts.                          *)
Kept == IF Showing \/ IsB THEN 1 ELSE 0
Current == IF Showing /\ wanted = 0 THEN {F(0)} ELSE {}
Running == /\ pc # "setup" /\ ~(state = "SEQUENCE" /\ wanted > 0)
           /\ ~(Closing /\ pc = "lib")
Newer == F(Kept)
Older == F(Kept + 1)
Placed ==
  /\ Newer \in Pool /\ Older \in Pool
  /\ Current \subseteq held
  /\ ~lowDelay /\ ~convert =>
       held = {Newer, Older} \cup Current /\ Newer # Older
  /\ ~(lowDelay /\ convert) =>
       Newer \in held /\ \E u \in Pool : held \subseteq {u, Newer} \cup Current
  /\ lowDelay /\ convert => \E u, v \in Pool : held \subseteq {u, v} \cup Current
HeldInv ==
  /\ held \subseteq Pool
  /\ ~custom => held = {}
  /\ ~custom /\ refs.new # 0 => buf = [i \in Slots |-> i + 1]
  /\ Closing /\ pc = "lib" => held = {}
  /\ custom /\ state = "SEQUENCE" /\ pc # "setup" =>
       /\ wanted = 2 => held = {}
       /\ wanted = 1 => held = {F(0)}
       /\ wanted = 0 => held = {F(0), F(1)} /\ F(0) # F(1)
  /\ custom /\ Running => Placed

(* The buffer of the present frame is none that is still needed.           *)
ApartInv ==
  Showing /\ wanted = 0 =>
    /\ F(0) \in Pool
    /\ ~(lowDelay /\ convert) => F(0) # F(1)
    /\ ~lowDelay /\ ~convert => F(0) # F(2)

(* What is in the buffers.                                                 *)
KeepsOld == \/ ~lowDelay /\ ~convert
            \/ Showing /\ ~IsB /\ ~(lowDelay /\ convert)
ContentInv ==
  /\ Showing /\ ~Begun => pictures[Pair].skip \/ content[F(0)] = n
  /\ refs.new # 0 /\ ~(Begun /\ ~IsB) => content[F(Bit(IsB))] = refs.new
  /\ refs.old # 0 /\ KeepsOld => content[F(Bit(IsB) + 1)] = refs.old

WholeInv ==
  /\ refs.new # 0 /\ ~Open => refs.new \in whole
  /\ refs.old # 0 => refs.old \in whole
  /\ Finished => pictures[Pair].skip \/ n \in whole

YuvInv ==
  convert =>
    /\ refs.new # 0 /\ ~Open => yuv[yuvIndex] = refs.new
    /\ refs.old # 0 =>
         yuv[IF Open THEN yuvIndex ELSE OtherYuv(yuvIndex)] = refs.old

(* The pictures that describe a frame.                                     *)
Describe(p, id, complete) ==
  /\ pictures[p].id = id
  /\ complete /\ pictures[p].fields = 1 => pictures[p + 1].id = id
PicturesInv ==
  /\ Showing => Describe(Pair, n, Finished)
  /\ Begun \/ FirstDone => picture = Pair
  /\ Second \/ FirstDone => pictures[Pair].fields = 1
  /\ (Second \/ FirstDone) /\ skip => pictures[Pair].skip
  /\ Second => picture = Pair + 1 /\ pictures[picture].id = n
  /\ Finished => picture = Pair + 2 - pictures[Pair].fields
  /\ refs.new # 0 => Describe(LastReference, refs.new, ~Open)
  /\ Showing /\ ~IsB /\ refs.old # 0 => Describe(2 - Pair, refs.old, TRUE)

(* What is reported.                                                       *)
SecondOf(p) == IF pictures[p].fields = 1 THEN p + 1 ELSE NULL
InfoInv ==
  /\ Showing /\ ~IsB /\ ~(lowDelay /\ convert) =>
       info.discard_fbuf = IF lowDelay \/ convert THEN fbuf[1] ELSE fbuf[2]
  /\ Showing /\ (IsB \/ (lowDelay /\ convert)) /\ wanted = 0 =>
       info.discard_fbuf = fbuf[0]
  /\ Showing /\ (IsB \/ lowDelay) =>
       /\ wanted = 0 => info.display_fbuf = fbuf[0]
       /\ info.display_picture = Pair
       /\ info.display_picture_2nd = IF picture = Pair THEN NULL ELSE picture
  /\ Showing /\ ~IsB /\ ~lowDelay =>
       IF due = 0
         THEN info.display_fbuf = NULL
         ELSE /\ info.display_fbuf = fbuf[1] /\ info.display_picture = 2 - Pair
              /\ info.display_picture_2nd = SecondOf(2 - Pair)
  /\ Closing /\ pc = "app" => info = EndInfo /\ refs.new # 0

(* The reference frame that is to be displayed.                            *)
DueInv ==
  /\ lowDelay \/ (Closing /\ pc = "lib") => due = 0
  /\ Showing /\ ~IsB /\ ~lowDelay => ~first
  /\ due # 0 => due = IF Showing /\ ~IsB THEN refs.old ELSE refs.new
  /\ ~lowDelay /\ ~Closing /\ ~(Showing /\ ~IsB) => (first <=> due = 0)
  /\ ~lowDelay /\ Closing /\ pc = "app" => due # 0

IInv == /\ TypeOK /\ FInv /\ ControlInv /\ StreamInv /\ HeldInv /\ ApartInv
        /\ ContentInv /\ WholeInv /\ YuvInv /\ PicturesInv /\ InfoInv /\ DueInv
        /\ PredictsNewest

-----------------------------------------------------------------------------
(* What a step may do to frames, besides starting or rendering one.        *)
unmoved == <<codingType, picture, pictures, fbuf, buf, yuv, yuvIndex, content,
             n, refs, whole, lowDelay, convert, custom>>
Idle == ~Begun /\ ~Second /\ ~FirstDone /\ ~Finished
Quiet == /\ UNCHANGED unmoved
         /\ Begun \/ UNCHANGED skip
         /\ \/ /\ Begun' <=> Begun
               /\ Second' <=> Second
               /\ FirstDone' <=> FirstDone
               /\ Finished' <=> Finished
            \/ Finished /\ Idle'
Fresh == refs' = NoRefs /\ Idle'

LEMMA IdleNotShowing == Idle <=> ~Showing
  BY DEF Idle, Showing

(* Headers, answers, ends and seeks leave the frames alone.                *)
LEMMA QuietSteps ==
  ASSUME IInv, ~Damaged,
         \/ RepeatSequence \/ Gop \/ End
         \/ \E ld \in BOOLEAN : ChangeSequence(ld)
         \/ \E a \in BOOLEAN : SlicesEnd(a)
         \/ \E s \in Skips : Answer(s)
         \/ Show \/ Reset(FALSE)
         \/ UNCHANGED vars
  PROVE  Quiet
  <1> USE DEF IInv, ControlInv, Quiet, unmoved, Idle, Begun, Second, FirstDone,
              Finished, frame, modes, memory, history, display, Header, FrameOver
  <1>1. CASE RepeatSequence
    BY <1>1 DEF RepeatSequence, Return
  <1>2. CASE Gop
    BY <1>2 DEF Gop, Return
  <1>3. CASE End
    BY <1>3 DEF End, Return, MayEnd
  <1>4. ASSUME NEW ld \in BOOLEAN, ChangeSequence(ld) PROVE Quiet
    BY <1>4 DEF ChangeSequence, Return, MayEnd
  <1>5. ASSUME NEW a \in BOOLEAN, SlicesEnd(a) PROVE Quiet
    BY <1>5 DEF SlicesEnd, Return
  <1>6. ASSUME NEW s \in Skips, Answer(s) PROVE Quiet
    <2>1. ret = "PICTURE" => Begun
      BY <1>6 DEF Answer, TypeOK
    <2> QED BY <1>6, <2>1 DEF Answer
  <1>7. CASE Show
    BY <1>7 DEF Show, Final, Closing
  <1>8. CASE Reset(FALSE)
    BY <1>8 DEF Reset
  <1>9. CASE UNCHANGED vars
    BY <1>9 DEF vars
  <1> QED BY <1>1, <1>2, <1>3, <1>4, <1>5, <1>6, <1>7, <1>8, <1>9

LEMMA FreshSteps ==
  ASSUME IInv, ~Damaged,
         \/ \E ld \in BOOLEAN : Sequence(ld)
         \/ InvalidEnd \/ SeekSequence \/ Reset(TRUE)
         \/ \E c \in Converts, u \in Customs : Setup(c, u)
         \/ \E b \in Pool : SetBuf(b) /\ state = "SEQUENCE"
  PROVE  Fresh
  <1> USE DEF IInv, ControlInv, Fresh, Idle, Begun, Second, FirstDone,
              Finished, frame, modes, memory, history, display, Header, FrameOver
  <1>0. state = "SEQUENCE" \/ ~valid => refs = NoRefs
    BY DEF StreamInv, NoRefs, TypeOK
  <1>1. ASSUME NEW ld \in BOOLEAN, Sequence(ld) PROVE Fresh
    BY <1>0, <1>1 DEF Sequence
  <1>2. CASE InvalidEnd
    BY <1>2 DEF InvalidEnd, StateInit
  <1>3. CASE SeekSequence
    BY <1>3 DEF SeekSequence, StateInit, Closing
  <1>4. CASE Reset(TRUE)
    BY <1>4 DEF Reset, StateInit
  <1>5. ASSUME NEW c \in Converts, NEW u \in Customs, Setup(c, u) PROVE Fresh
    BY <1>0, <1>5 DEF Setup
  <1>6. ASSUME NEW b \in Pool, SetBuf(b), state = "SEQUENCE" PROVE Fresh
    BY <1>0, <1>6 DEF SetBuf
  <1> QED BY <1>1, <1>2, <1>3, <1>4, <1>5, <1>6

Frames == ContentInv /\ WholeInv /\ YuvInv /\ PicturesInv

LEMMA FramesKept ==
  ASSUME IInv, Quiet
  PROVE  Frames'
  <1> USE DEF IInv, Quiet, unmoved
  <1>1. /\ Open' => Open
        /\ Open => Open' \/ Idle'
        /\ Showing' => Showing
        /\ (Begun' <=> Begun) /\ (IsB' <=> IsB)
    BY DEF Open, Showing, Idle, IsB, Begun, Second, FirstDone, Finished
  <1>2. Open' <=> Open
    BY <1>1 DEF Open, Idle, Begun, Second, FirstDone, Finished, IsB
  <1>3. (Second' <=> Second) /\ (FirstDone' <=> FirstDone)
        /\ (Finished' => Finished)
    BY DEF Idle, Begun, Second, FirstDone, Finished
  <1>4. ContentInv'
    BY <1>1 DEF ContentInv, F, Pair, KeepsOld, Bit
  <1>5. WholeInv'
    BY <1>2, <1>3 DEF WholeInv, Pair
  <1>6. YuvInv'
    BY <1>2 DEF YuvInv, OtherYuv
  <1>7. PicturesInv'
    <2>1. (Second \/ FirstDone)' => UNCHANGED skip
      BY <1>1, <1>3 DEF Begun, Second, FirstDone
    <2> QED
      BY <1>1, <1>2, <1>3, <2>1
      DEF PicturesInv, Describe, Pair, LastReference, IsB
  <1> QED BY <1>4, <1>5, <1>6, <1>7 DEF Frames

LEMMA FramesFresh ==
  ASSUME Fresh
  PROVE  Frames'
  BY DEF Frames, Fresh, NoRefs, Idle, Showing, ContentInv, WholeInv, YuvInv,
         PicturesInv

(* mpeg2_set_buf at STATE_PICTURE                                          *)
Given(b) == SetBuf(b) /\ state # "SEQUENCE"
LEMMA GivenEffect ==
  ASSUME IInv, NEW b \in Pool, Given(b)
  PROVE  /\ Begun /\ Begun' /\ wanted = 1 /\ wanted' = 0 /\ custom
         /\ fbuf'[0] \in Slots /\ fbuf'[1] = fbuf[1] /\ fbuf'[2] = fbuf[2]
         /\ F(0)' = b /\ F(1)' = F(1) /\ F(2)' = F(2)
         /\ info' = SetFbufInfo(fbuf'[0], IsB, info)
         /\ ~Second' /\ ~FirstDone' /\ ~Finished'
         /\ ~Second /\ ~FirstDone /\ ~Finished
  <1>1. /\ Begun /\ wanted = 1 /\ custom
    BY DEF IInv, ControlInv, Given, SetBuf, TypeOK
  <1>2. Begun' /\ wanted' = 0
    BY <1>1 DEF Given, SetBuf, Begun
  <1>3. /\ fbuf' = [fbuf EXCEPT ![0] = FreeSlot(fbuf)]
        /\ buf' = [buf EXCEPT ![FreeSlot(fbuf)] = b]
        /\ info' = SetFbufInfo(FreeSlot(fbuf), IsB, info)
    BY DEF Given, SetBuf, IsB
  <1>4. FreeSlot(fbuf) \in Slots \ {fbuf[1], fbuf[2]}
    BY FreeSlotFree DEF IInv, FInv, SlotInv
  <1>5. /\ fbuf'[0] = FreeSlot(fbuf)
        /\ fbuf'[1] = fbuf[1] /\ fbuf'[2] = fbuf[2]
    BY <1>3 DEF IInv, FInv, SlotInv, Slots
  <1>6. /\ buf'[fbuf'[0]] = b
        /\ buf'[fbuf[1]] = buf[fbuf[1]] /\ buf'[fbuf[2]] = buf[fbuf[2]]
    BY <1>3, <1>4, <1>5 DEF IInv, TypeOK, FInv, SlotInv
  <1> QED
    BY <1>1, <1>2, <1>3, <1>4, <1>5, <1>6
    DEF F, Begun, Second, FirstDone, Finished

LEMMA FramesGiven ==
  ASSUME IInv, NEW b \in Pool, Given(b)
  PROVE  Frames'
  <1> USE GivenEffect
  <1>1. UNCHANGED <<codingType, picture, pictures, yuv, yuvIndex, content, n,
                    refs, whole, lowDelay, convert>>
    BY DEF Given, SetBuf, modes, frame, memory, history
  <1>2. (IsB' <=> IsB) /\ Showing /\ Showing' /\ (Open' <=> Open)
    BY <1>1 DEF IsB, Showing, Open
  <1>3. ContentInv'
    BY <1>1, <1>2 DEF IInv, ContentInv, KeepsOld, Bit
  <1>4. WholeInv' /\ YuvInv'
    BY <1>1, <1>2 DEF IInv, WholeInv, YuvInv, OtherYuv
  <1>5. PicturesInv'
    BY <1>1, <1>2 DEF IInv, PicturesInv, Describe, Pair, LastReference, IsB
  <1> QED BY <1>3, <1>4, <1>5 DEF Frames

-----------------------------------------------------------------------------
(* A frame begins.                                                         *)
Rotated == IF IsB THEN fbuf ELSE Rotate(fbuf)

Begins(t, k) ==
  /\ Begun' /\ ~Second' /\ ~FirstDone' /\ ~Finished' /\ Idle /\ ~Open
  /\ codingType' = t /\ n' = n + 1 /\ valid /\ action = "header"
  /\ picture' = FramePair /\ Pair' = FramePair
  /\ FramePair = 2 - LastReference /\ FramePair \in {0, 2}
  /\ pictures' = [pictures EXCEPT ![FramePair] =
                    [id |-> n + 1, fields |-> k, skip |-> FALSE]]
  /\ refs' = IF t = "B" THEN refs ELSE [new |-> n + 1, old |-> refs.new]
  /\ UNCHANGED <<yuv, yuvIndex, content, whole, lowDelay, convert,
                 custom, held, due, skip>>
  /\ t = "B" => refs.new # 0 /\ ~lowDelay
  /\ refs.new = 0 => t = "I"

LEMMA PictureEffect ==
  ASSUME IInv, ~Damaged, NEW t \in Types, NEW k \in {1, 2}, Picture(t, k)
  PROVE  Begins(t, k)
  <1>1. state # "SLICE_1ST" /\ action = "header" /\ pc = "lib"
    BY DEF Picture, Header
  <1>2. Idle /\ ~Open
    BY <1>1 DEF Idle, Begun, Second, FirstDone, Finished, Open
  <1>3. Begun' /\ ~Second' /\ ~FirstDone' /\ ~Finished'
    BY DEF Picture, Begun, Second, FirstDone, Finished
  <1>4. picture' = FramePair /\ FramePair \in {0, 2}
    BY FramePairFirst DEF Picture
  <1>5. FramePair = 2 - LastReference
    BY DEF FramePair, LastReference, IInv, TypeOK
  <1>6. /\ codingType' = t /\ n' = n + 1 /\ valid
        /\ pictures' = [pictures EXCEPT ![FramePair] =
                          [id |-> n + 1, fields |-> k, skip |-> FALSE]]
        /\ refs' = IF t = "B" THEN refs ELSE [new |-> n + 1, old |-> refs.new]
    BY DEF Picture
  <1>7. UNCHANGED <<yuv, yuvIndex, content, whole, lowDelay, convert, custom,
                    held, due, skip>>
    BY DEF Picture, memory, modes, display
  <1>8. (t = "B" => refs.new # 0 /\ ~lowDelay) /\ (refs.new = 0 => t = "I")
    BY DEF Picture
  <1> QED
    BY <1>1, <1>2, <1>3, <1>4, <1>5, <1>6, <1>7, <1>8 DEF Begins, Pair

LEMMA PictureSlots ==
  ASSUME IInv, ~Damaged, NEW t \in Types, NEW k \in {1, 2}, Picture(t, k)
  PROVE  /\ fbuf'[1] = fbuf[Bit(IsB)] /\ fbuf'[2] = fbuf[Bit(IsB) + 1]
         /\ custom => wanted' = 1
         /\ ~custom => wanted' = 0 /\ fbuf'[0] \in Slots \ {fbuf'[1], fbuf'[2]}
         /\ fbuf'[1] \in Slots /\ fbuf'[2] \in Slots /\ fbuf'[1] # fbuf'[2]
         /\ ~custom => buf' = [i \in Slots |-> i + 1]
         /\ custom => UNCHANGED buf
         /\ refs.new # 0 => F(1)' = F(Bit(IsB)) /\ F(2)' = F(Bit(IsB) + 1)
         /\ F(1)' = IF custom THEN F(Bit(IsB)) ELSE fbuf'[1] + 1
         /\ F(2)' = IF custom THEN F(Bit(IsB) + 1) ELSE fbuf'[2] + 1
  <1> DEFINE f == [Rotated EXCEPT ![0] = NULL]
  <1>1. /\ fbuf \in [Slots -> Slots \cup {NULL}]
        /\ fbuf[1] \in Slots /\ fbuf[2] \in Slots /\ fbuf[1] # fbuf[2]
        /\ fbuf[0] \in Slots /\ fbuf[0] # fbuf[1] /\ fbuf[0] # fbuf[2]
    BY DEF IInv, FInv, SlotInv, Picture, Header, Awaited
  <1>2. f[1] = fbuf[Bit(IsB)] /\ f[2] = fbuf[Bit(IsB) + 1]
    BY <1>1 DEF Rotated, Rotate, Bit, Slots
  <1>3. f[1] \in Slots /\ f[2] \in Slots /\ f[1] # f[2]
    BY <1>1, <1>2 DEF Bit
  <1>4. f = [f EXCEPT ![0] = NULL] /\ f \in [Slots -> Slots \cup {NULL}]
    BY <1>1 DEF Rotated, Rotate, Slots
  <1>5. /\ custom => fbuf' = f /\ wanted' = 1 /\ UNCHANGED buf
        /\ ~custom => /\ fbuf' = [f EXCEPT ![0] = FreeSlot(f)]
                      /\ buf' = [i \in Slots |-> i + 1] /\ wanted' = 0
    BY DEF Picture, Rotated, IsB
  <1> HIDE DEF f
  <1>6. /\ fbuf'[1] = f[1] /\ fbuf'[2] = f[2]
        /\ ~custom => fbuf'[0] \in Slots \ {f[1], f[2]}
    BY <1>3, <1>4, <1>5, FreeSlotFree DEF Slots
  <1>7. refs.new # 0 => buf' = buf
    BY <1>5 DEF IInv, HeldInv
  <1>8. /\ refs.new # 0 => F(1)' = F(Bit(IsB)) /\ F(2)' = F(Bit(IsB) + 1)
        /\ custom => F(1)' = F(Bit(IsB)) /\ F(2)' = F(Bit(IsB) + 1)
    BY <1>2, <1>5, <1>6, <1>7 DEF F
  <1>9. ~custom => F(1)' = fbuf'[1] + 1 /\ F(2)' = fbuf'[2] + 1
    BY <1>3, <1>5, <1>6 DEF F
  <1> QED BY <1>2, <1>3, <1>5, <1>6, <1>8, <1>9

LEMMA FramesBegun ==
  ASSUME IInv, ~Damaged, NEW t \in Types, NEW k \in {1, 2}, Picture(t, k)
  PROVE  Frames'
  <1>0. Begins(t, k)
    BY PictureEffect
  <1> USE <1>0 DEF Begins
  <1>1. Showing' /\ ~Showing /\ (IsB' <=> t = "B") /\ (Open' <=> t # "B")
    BY DEF Showing, IsB, Open, Idle
  <1>2. ContentInv'
    <2>1. refs.new # 0 => F(1)' = F(Bit(IsB)) /\ F(2)' = F(Bit(IsB) + 1)
      BY PictureSlots
    <2>2. refs.new # 0 => content[F(Bit(IsB))] = refs.new
      BY <1>1 DEF IInv, ContentInv, Open
    <2>3. refs.old # 0 /\ ~lowDelay /\ ~convert =>
            content[F(Bit(IsB) + 1)] = refs.old
      BY <1>1 DEF IInv, ContentInv, KeepsOld
    <2>4. refs.new = 0 => refs.old = 0
      BY DEF IInv, StreamInv
    <2>5. CASE t = "B"
      BY <1>1, <2>1, <2>2, <2>3, <2>4, <2>5 DEF ContentInv, KeepsOld, Bit
    <2>6. CASE t # "B"
      BY <1>1, <2>1, <2>2, <2>6 DEF ContentInv, KeepsOld, Bit
    <2> QED BY <2>5, <2>6
  <1>3. WholeInv'
    BY <1>1 DEF IInv, WholeInv, Pair
  <1>4. YuvInv'
    BY <1>1 DEF IInv, YuvInv, OtherYuv
  <1>5. PicturesInv'
    <2>0. LastReference \in {0, 2} /\ DOMAIN pictures = 0 .. 3
      BY DEF IInv, TypeOK, LastReference
    <2>1. /\ pictures'[FramePair] = [id |-> n + 1, fields |-> k, skip |-> FALSE]
          /\ pictures'[LastReference] = pictures[LastReference]
          /\ pictures'[LastReference + 1] = pictures[LastReference + 1]
      BY <2>0
    <2>2. Describe(Pair, n, FALSE)'
      BY <2>1 DEF Describe
    <2>3. refs.new # 0 => Describe(LastReference, refs.new, TRUE)
      BY DEF IInv, PicturesInv, Describe
    <2>4. LastReference' = IF t = "B" THEN LastReference ELSE FramePair
      BY DEF LastReference
    <2>5. t = "B" /\ refs.new # 0 => Describe(LastReference, refs.new, TRUE)'
      BY <2>1, <2>3, <2>4 DEF Describe
    <2>6. t # "B" /\ refs.new # 0 => Describe(2 - Pair, refs.old, TRUE)'
      <3>1. (2 - Pair)' = LastReference
        BY <2>0
      <3>2. t # "B" => refs'.old = refs.new
        OBVIOUS
      <3> QED BY <2>1, <2>3, <3>1, <3>2 DEF Describe
    <2>7. t # "B" => Describe(LastReference, refs.new, FALSE)'
      BY <2>2, <2>4, <2>1 DEF Describe
    <2>8. /\ Describe(Pair, n, Finished)' /\ picture' = Pair'
          /\ ~Second' /\ ~FirstDone' /\ ~Finished'
      BY <2>2 DEF Describe
    <2>9. (refs.new # 0 => Describe(LastReference, refs.new, ~Open))'
      <3>1. CASE t = "B"
        BY <2>5, <3>1 DEF Describe
      <3>2. CASE t # "B"
        BY <1>1, <2>7, <3>2 DEF Describe
      <3> QED BY <3>1, <3>2
    <2>10. (Showing /\ ~IsB /\ refs.old # 0 => Describe(2 - Pair, refs.old, TRUE))'
      BY <1>1, <2>6
    <2> QED BY <2>8, <2>9, <2>10 DEF PicturesInv
  <1> QED BY <1>2, <1>3, <1>4, <1>5 DEF Frames

-----------------------------------------------------------------------------
(* The header of a second field.                                           *)
Continues(t) ==
  /\ FirstDone /\ Second' /\ ~Begun /\ ~Finished /\ ~Second
  /\ ~Begun' /\ ~Finished' /\ ~FirstDone'
  /\ Showing /\ Showing' /\ (IsB' <=> IsB) /\ (Open' <=> Open)
  /\ codingType' = t /\ picture = Pair /\ Pair' = Pair /\ picture' = Pair + 1
  /\ pictures' = [pictures EXCEPT ![Pair + 1] =
                    [id |-> n, fields |-> 1, skip |-> FALSE]]
  /\ info' = [info EXCEPT
                !.current_picture_2nd = picture',
                !.display_picture_2nd = IF lowDelay \/ IsB THEN picture' ELSE @]
  /\ wanted = 0 /\ wanted' = 0
  /\ UNCHANGED <<fbuf, buf, yuv, yuvIndex, content, n, refs, whole, lowDelay,
                 convert, custom, skip, held, due, first>>

LEMMA SecondFieldEffect ==
  ASSUME IInv, ~Damaged, NEW t \in Types, NEW k \in {1, 2}, SecondField(t, k)
  PROVE  Continues(t)
  <1>1. /\ FirstDone /\ action = "header" /\ pc = "lib" /\ k = 1
        /\ (t = "B" <=> IsB) /\ codingType' = t
        /\ state' = "PICTURE_2ND" /\ action' = "slice_start"
    BY DEF SecondField, Header, FirstDone, IsB
  <1>2. /\ ~Begun /\ ~Finished /\ ~Second
        /\ Second' /\ ~Begun' /\ ~Finished' /\ ~FirstDone'
    BY <1>1 DEF Begun, Second, FirstDone, Finished
  <1>3. Showing /\ Showing' /\ (IsB' <=> IsB) /\ (Open' <=> Open)
    BY <1>1, <1>2 DEF Showing, Open, IsB
  <1>4. picture = Pair /\ Pair \in {0, 2}
    BY <1>1 DEF IInv, PicturesInv, Pair
  <1>5. picture' = Pair + 1 /\ Pair' = Pair
    BY <1>4 DEF SecondField, Pair
  <1>6. pictures' = [pictures EXCEPT ![Pair + 1] =
                       [id |-> n, fields |-> 1, skip |-> FALSE]]
    BY <1>1, <1>4 DEF SecondField
  <1>7. wanted = 0 /\ wanted' = 0
    BY <1>1 DEF IInv, TypeOK, ControlInv, SecondField
  <1>8. info' = [info EXCEPT
                   !.current_picture_2nd = picture',
                   !.display_picture_2nd = IF lowDelay \/ IsB THEN picture'
                                           ELSE @]
    BY <1>1 DEF SecondField
  <1>9. UNCHANGED <<fbuf, buf, yuv, yuvIndex, content, n, refs, whole, lowDelay,
                    convert, custom, skip, held, due, first>>
    BY DEF SecondField, memory, modes, history, display
  <1> QED
    BY <1>1, <1>2, <1>3, <1>4, <1>5, <1>6, <1>7, <1>8, <1>9 DEF Continues

LEMMA FramesContinued ==
  ASSUME IInv, ~Damaged, NEW t \in Types, NEW k \in {1, 2}, SecondField(t, k)
  PROVE  Frames'
  <1>0. Continues(t)
    BY SecondFieldEffect
  <1> USE <1>0 DEF Continues
  <1>1. /\ \A p \in 0 .. 3 : p # Pair + 1 => pictures'[p] = pictures[p]
        /\ pictures'[Pair + 1] = [id |-> n, fields |-> 1, skip |-> FALSE]
        /\ Pair \in {0, 2}
    BY DEF IInv, TypeOK, Pair
  <1>2. ContentInv'
    <2>1. (Showing /\ ~Begun => pictures[Pair].skip \/ content[F(0)] = n)'
      BY <1>1 DEF IInv, ContentInv, F
    <2>2. (refs.new # 0 /\ ~(Begun /\ ~IsB) => content[F(Bit(IsB))] = refs.new)'
      BY DEF IInv, ContentInv, F, Bit
    <2>3. (refs.old # 0 /\ KeepsOld => content[F(Bit(IsB) + 1)] = refs.old)'
      BY DEF IInv, ContentInv, F, Bit, KeepsOld
    <2> QED BY <2>1, <2>2, <2>3 DEF ContentInv
  <1>3. WholeInv' /\ YuvInv'
    BY DEF IInv, WholeInv, YuvInv, OtherYuv
  <1>4. PicturesInv'
    <2>1. pictures[Pair].fields = 1 /\ (skip => pictures[Pair].skip)
      BY DEF IInv, PicturesInv
    <2>2. Describe(Pair, n, FALSE)'
      BY <1>1 DEF IInv, PicturesInv, Describe
    <2>3. LastReference' = LastReference
          /\ LastReference = IF IsB THEN 2 - Pair ELSE Pair
      BY <1>1 DEF LastReference, IsB, Pair
    <2>4. (refs.new # 0 => Describe(LastReference, refs.new, ~Open))'
      <3>1. CASE IsB
        BY <1>1, <2>3, <3>1 DEF IInv, PicturesInv, Describe, Open
      <3>2. CASE ~IsB
        BY <1>1, <2>3, <3>2 DEF IInv, PicturesInv, Describe, Open
      <3> QED BY <3>1, <3>2
    <2>5. (Showing /\ ~IsB /\ refs.old # 0 => Describe(2 - Pair, refs.old, TRUE))'
      BY <1>1 DEF IInv, PicturesInv, Describe
    <2>6. (Second => picture = Pair + 1 /\ pictures[picture].id = n)'
      BY <1>1
    <2>7. (Second \/ FirstDone =>
             pictures[Pair].fields = 1 /\ (skip => pictures[Pair].skip))'
      BY <1>1, <2>1
    <2> QED BY <2>2, <2>4, <2>5, <2>6, <2>7 DEF PicturesInv, Describe
  <1> QED BY <1>2, <1>3, <1>4 DEF Frames

-----------------------------------------------------------------------------
(* The slices of a field or frame.                                         *)
Done == pictures[picture].fields > 1 \/ Second
SamePicture(p) == /\ pictures'[p].id = pictures[p].id
                  /\ pictures'[p].fields = pictures[p].fields
                  /\ pictures[p].skip => pictures'[p].skip

Renders ==
  /\ Begun \/ Second
  /\ ~Begun' /\ ~Second' /\ (FirstDone' <=> ~Done) /\ (Finished' <=> Done)
  /\ ~Finished /\ ~FirstDone /\ Showing /\ Showing'
  /\ pc = "lib" /\ wanted = 0 /\ action' = "none"
  /\ UNCHANGED <<codingType, picture, fbuf, buf, n, refs, lowDelay, convert,
                 custom, skip, held, wanted, due, first, info, pc, delivered>>
  /\ \A p \in 0 .. 3 : SamePicture(p)
  /\ picture \in 0 .. 3 /\ F(0) \in Pool
  /\ \/ /\ skip /\ IsB
        /\ UNCHANGED <<content, source, yuv, yuvIndex, whole>>
        /\ pictures'[picture].skip
     \/ /\ ~skip
        /\ UNCHANGED pictures
        /\ content' = [content EXCEPT ![F(0)] = n]
        /\ whole' = IF Done THEN whole \cup {n} ELSE whole
        /\ convert =>
             /\ yuv' = [yuv EXCEPT ![IF IsB THEN 2 ELSE OtherYuv(yuvIndex)] = n]
             /\ yuvIndex' = IF ~IsB /\ Done THEN OtherYuv(yuvIndex) ELSE yuvIndex
             /\ source' = [new |-> yuv[yuvIndex],
                           old |-> yuv[IF IsB THEN OtherYuv(yuvIndex)
                                              ELSE yuvIndex]]
        /\ ~convert =>
             /\ UNCHANGED <<yuv, yuvIndex>>
             /\ source' = [new |-> content[F(Bit(IsB))],
                           old |-> content[F(Bit(IsB) + 1)]]

LEMMA SliceStartEffect ==
  ASSUME IInv, SliceStart
  PROVE  Renders
  <1>1. /\ pc = "lib" /\ action = "slice_start" /\ action' = "none"
        /\ state \in {"PICTURE", "PICTURE_2ND"}
        /\ state' = IF LastField THEN "SLICE" ELSE "SLICE_1ST"
    BY DEF SliceStart, IInv, ControlInv
  <1>2. /\ Begun \/ Second
        /\ ~Finished /\ ~FirstDone /\ ~Begun' /\ ~Second'
        /\ (Done <=> LastField)
    BY <1>1 DEF Begun, Second, FirstDone, Finished, Done, LastField
  <1>3. (FirstDone' <=> ~Done) /\ (Finished' <=> Done)
    BY <1>1, <1>2 DEF FirstDone, Finished
  <1>4. Showing /\ Showing'
    BY <1>2, <1>3 DEF Showing
  <1>5. wanted = 0
    BY <1>1 DEF IInv, TypeOK, ControlInv
  <1>6. UNCHANGED <<codingType, picture, fbuf, buf, n, refs, lowDelay, convert,
                    custom, skip, held, wanted, due, first, info, pc, delivered>>
    BY DEF SliceStart, modes, display
  <1>7. picture \in 0 .. 3 /\ F(0) \in Pool
    BY <1>4, <1>5 DEF IInv, TypeOK, ApartInv
  <1>8. CASE skip
    <2>1. IsB
      BY <1>1, <1>4, <1>8 DEF IInv, StreamInv
    <2>2. /\ pictures' = [pictures EXCEPT ![picture].skip = TRUE]
          /\ UNCHANGED <<content, source, yuv, yuvIndex, whole>>
      BY <1>8 DEF SliceStart
    <2>3. \A p \in 0 .. 3 : SamePicture(p)
      <3> TAKE p \in 0 .. 3
      <3>1. CASE p = picture
        BY <2>2, <3>1 DEF SamePicture, IInv, TypeOK
      <3>2. CASE p # picture
        BY <2>2, <3>2 DEF SamePicture, IInv, TypeOK
      <3> QED BY <3>1, <3>2
    <2>4. pictures'[picture].skip
      BY <1>7, <2>2 DEF IInv, TypeOK
    <2> QED
      BY <1>1, <1>2, <1>3, <1>4, <1>5, <1>6, <1>7, <1>8, <2>1, <2>2, <2>3, <2>4
      DEF Renders
  <1>9. CASE ~skip
    <2>1. /\ UNCHANGED pictures
          /\ content' = [content EXCEPT ![F(0)] = n]
          /\ whole' = IF Done THEN whole \cup {n} ELSE whole
      BY <1>2, <1>9 DEF SliceStart, Render, F
    <2>2. \A p \in 0 .. 3 : SamePicture(p)
      BY <2>1 DEF SamePicture
    <2>3. CASE convert
      <3>1. /\ yuv' = [yuv EXCEPT ![IF IsB THEN 2 ELSE OtherYuv(yuvIndex)] = n]
            /\ yuvIndex' = IF ~IsB /\ Done THEN OtherYuv(yuvIndex) ELSE yuvIndex
            /\ source' = [new |-> yuv[yuvIndex],
                          old |-> yuv[IF IsB THEN OtherYuv(yuvIndex)
                                             ELSE yuvIndex]]
        BY <1>2, <1>9, <2>3 DEF SliceStart, Render, Bit, IsB
      <3> QED
        BY <1>1, <1>2, <1>3, <1>4, <1>5, <1>6, <1>7, <1>9, <2>1, <2>2, <2>3,
           <3>1
        DEF Renders
    <2>4. CASE ~convert
      <3>1. /\ UNCHANGED <<yuv, yuvIndex>>
            /\ source' = [new |-> content[F(Bit(IsB))],
                          old |-> content[F(Bit(IsB) + 1)]]
        BY <1>2, <1>9, <2>4 DEF SliceStart, Render, Bit, IsB, F
      <3> QED
        BY <1>1, <1>2, <1>3, <1>4, <1>5, <1>6, <1>7, <1>9, <2>1, <2>2, <2>4,
           <3>1
        DEF Renders
    <2> QED BY <2>3, <2>4
  <1> QED BY <1>8, <1>9

LEMMA FramesRendered ==
  ASSUME IInv, SliceStart
  PROVE  Frames'
  <1>0. Renders
    BY SliceStartEffect
  <1> USE <1>0 DEF Renders
  <1>1. /\ IsB' <=> IsB
        /\ Open <=> ~IsB
        /\ Open' <=> ~IsB /\ ~Done
        /\ Pair' = Pair /\ Pair \in {0, 2}
        /\ KeepsOld' <=> KeepsOld
        /\ F(0)' = F(0) /\ F(1)' = F(1) /\ F(2)' = F(2)
    BY DEF IsB, Open, Pair, KeepsOld, F
  <1>2. /\ content \in [Pool -> 0 .. MaxFrames] /\ yuvIndex \in {0, 1}
        /\ yuv \in [Slots -> 0 .. MaxFrames]
    BY DEF IInv, TypeOK
  <1>3. /\ ~skip => content'[F(0)] = n
        /\ F(1) # F(0) => content'[F(1)] = content[F(1)]
        /\ F(2) # F(0) => content'[F(2)] = content[F(2)]
    <2>1. CASE skip
      BY <2>1
    <2>2. CASE ~skip
      <3>1. content' = [content EXCEPT ![F(0)] = n]
        BY <2>2
      <3> QED BY <1>2, <3>1
    <2> QED BY <2>1, <2>2
  <1>4. /\ ~(lowDelay /\ convert) => F(0) # F(1)
        /\ ~lowDelay /\ ~convert => F(0) # F(2)
        /\ IsB => ~lowDelay
        /\ skip => IsB
        /\ ~IsB => refs.new = n
        /\ refs.new # 0
    BY DEF IInv, ApartInv, StreamInv
  <1>5. ContentInv'
    <2>1. (Showing /\ ~Begun => pictures[Pair].skip \/ content[F(0)] = n)'
      <3>1. CASE ~skip
        BY <1>1, <1>3, <3>1
      <3>2. CASE skip /\ Begun
        BY <1>1, <3>2 DEF IInv, PicturesInv
      <3>3. CASE skip /\ Second
        BY <1>1, <3>3 DEF IInv, PicturesInv, SamePicture
      <3> QED BY <3>1, <3>2, <3>3
    <2>2. (refs.new # 0 /\ ~(Begun /\ ~IsB) => content[F(Bit(IsB))] = refs.new)'
      <3>1. CASE IsB
        BY <1>1, <1>3, <1>4, <3>1 DEF IInv, ContentInv, Bit
      <3>2. CASE ~IsB
        BY <1>1, <1>3, <1>4, <3>2 DEF Bit
      <3> QED BY <3>1, <3>2
    <2>3. (refs.old # 0 /\ KeepsOld => content[F(Bit(IsB) + 1)] = refs.old)'
      <3>1. CASE IsB
        BY <1>1, <1>3, <1>4, <3>1 DEF IInv, ContentInv, Bit, KeepsOld
      <3>2. CASE ~IsB
        BY <1>1, <1>3, <1>4, <3>2 DEF IInv, ContentInv, Bit, KeepsOld
      <3> QED BY <3>1, <3>2
    <2> QED BY <2>1, <2>2, <2>3 DEF ContentInv
  <1>6. WholeInv'
    <2>1. whole \subseteq whole' /\ (~skip /\ Done => n \in whole')
      OBVIOUS
    <2>2. (refs.new # 0 /\ ~Open => refs.new \in whole)'
      BY <1>1, <1>4, <2>1 DEF IInv, WholeInv
    <2>3. (Finished => pictures[Pair].skip \/ n \in whole)'
      <3>1. CASE ~skip
        BY <2>1, <3>1
      <3>2. CASE skip /\ Begun
        BY <1>1, <3>2 DEF IInv, PicturesInv
      <3>3. CASE skip /\ Second
        BY <1>1, <3>3 DEF IInv, PicturesInv, SamePicture
      <3> QED BY <3>1, <3>2, <3>3
    <2> QED BY <2>1, <2>2, <2>3 DEF IInv, WholeInv
  <1>7. YuvInv'
    <2> SUFFICES ASSUME convert PROVE YuvInv'
      BY DEF YuvInv
    <2>1. CASE IsB
      <3>1. yuvIndex' = yuvIndex /\ yuv'[0] = yuv[0] /\ yuv'[1] = yuv[1]
        BY <1>2, <1>4, <2>1 DEF Slots
      <3> QED BY <1>1, <1>2, <2>1, <3>1 DEF IInv, YuvInv, OtherYuv
    <2>2. CASE ~IsB
      <3>1. /\ yuv'[OtherYuv(yuvIndex)] = n /\ yuv'[yuvIndex] = yuv[yuvIndex]
            /\ yuvIndex' = IF Done THEN OtherYuv(yuvIndex) ELSE yuvIndex
            /\ Done => OtherYuv(yuvIndex)' = yuvIndex
        BY <1>2, <1>4, <2>2 DEF Slots, OtherYuv
      <3> QED BY <1>1, <1>4, <2>2, <3>1 DEF IInv, YuvInv
    <2> QED BY <2>1, <2>2
  <1>8. PicturesInv'
    <2>1. \A p \in 0 .. 3 : pictures'[p].id = pictures[p].id
                            /\ pictures'[p].fields = pictures[p].fields
      BY DEF SamePicture
    <2>2. /\ Begun => picture = Pair /\ (pictures[Pair].fields = 2 <=> Done)
          /\ Second => /\ picture = Pair + 1 /\ pictures[Pair + 1].id = n
                       /\ pictures[Pair].fields = 1 /\ Done
          /\ pictures[Pair].fields \in {1, 2}
      BY <1>1 DEF IInv, PicturesInv, Done, TypeOK, Begun, Second
    <2>3. Describe(Pair, n, Finished)'
      BY <1>1, <2>1, <2>2 DEF IInv, PicturesInv, Describe
    <2>4. (FirstDone => picture = Pair)' /\ (FirstDone => pictures[Pair].fields = 1)'
      BY <1>1, <2>1, <2>2
    <2>5. (Finished => picture = Pair + 2 - pictures[Pair].fields)'
      BY <1>1, <2>1, <2>2
    <2>6. (FirstDone /\ skip => pictures[Pair].skip)'
      BY <1>1, <2>2
    <2>7. LastReference' = LastReference
          /\ LastReference = IF IsB THEN 2 - Pair ELSE Pair
      BY <1>1 DEF LastReference, IsB, Pair
    <2>8. (refs.new # 0 => Describe(LastReference, refs.new, ~Open))'
      <3>1. CASE IsB
        BY <1>1, <2>1, <2>7, <3>1 DEF IInv, PicturesInv, Describe
      <3>2. CASE ~IsB
        BY <1>1, <1>4, <2>3, <2>7, <3>2 DEF Describe
      <3> QED BY <3>1, <3>2
    <2>9. (Showing /\ ~IsB /\ refs.old # 0 => Describe(2 - Pair, refs.old, TRUE))'
      BY <1>1, <2>1 DEF IInv, PicturesInv, Describe
    <2> QED BY <2>3, <2>4, <2>5, <2>6, <2>8, <2>9 DEF PicturesInv
  <1> QED BY <1>5, <1>6, <1>7, <1>8 DEF Frames

(* What the slices are predicted from.                                     *)
LEMMA SourcesRendered ==
  ASSUME IInv, SliceStart
  PROVE  PredictsNewest'
  <1>0. Renders
    BY SliceStartEffect
  <1> USE <1>0 DEF Renders
  <1> SUFFICES ASSUME ~skip PROVE PredictsNewest'
    BY DEF PredictsNewest
  <1>1. /\ (IsB' <=> IsB) /\ (Open <=> ~IsB)
        /\ (IsB => ~lowDelay) /\ refs.new # 0
        /\ refs = [new |-> refs.new, old |-> refs.old]
        /\ 0 \notin whole'
    <2>1. (IsB' <=> IsB) /\ (Open <=> ~IsB)
      BY DEF IsB, Open
    <2>2. (IsB => ~lowDelay) /\ refs.new # 0 /\ n \in Nat
          /\ refs \in [new : 0 .. n, old : 0 .. n]
      BY DEF IInv, StreamInv
    <2>3. refs = [new |-> refs.new, old |-> refs.old] /\ n # 0
      BY <2>2
    <2>4. 0 \notin whole'
      BY <2>3 DEF IInv, TypeOK
    <2> QED BY <2>1, <2>2, <2>3, <2>4
  <1>2. refs.old \in whole' => refs.old # 0
    BY <1>1
  <1>3. IsB /\ refs.old # 0 => source' = refs
    <2>1. CASE IsB /\ refs.old # 0 /\ convert
      BY <1>1, <2>1 DEF IInv, YuvInv
    <2>2. CASE IsB /\ refs.old # 0 /\ ~convert
      BY <1>1, <2>2 DEF IInv, ContentInv, KeepsOld
    <2> QED BY <2>1, <2>2
  <1>4. ~IsB /\ refs.old # 0 => source'.old = refs.old
    <2>1. CASE ~IsB /\ refs.old # 0 /\ convert
      BY <1>1, <2>1 DEF IInv, YuvInv
    <2>2. CASE ~IsB /\ refs.old # 0 /\ ~convert
      BY <1>1, <2>2 DEF IInv, ContentInv, KeepsOld
    <2> QED BY <2>1, <2>2
  <1> QED BY <1>2, <1>3, <1>4 DEF PredictsNewest, IsB

-----------------------------------------------------------------------------
LEMMA NextSplit ==
  ASSUME [Next]_vars, ~Damaged
  PROVE  \/ \E ld \in BOOLEAN : Sequence(ld) \/ ChangeSequence(ld)
         \/ RepeatSequence \/ Gop \/ End \/ InvalidEnd \/ SeekSequence
         \/ \E t \in Types, k \in {1, 2} : Picture(t, k) \/ SecondField(t, k)
         \/ SliceStart \/ \E a \in BOOLEAN : SlicesEnd(a)
         \/ \E c \in Converts, u \in Customs : Setup(c, u)
         \/ \E b \in Pool : SetBuf(b)
         \/ \E s \in Skips : Answer(s)
         \/ Show \/ \E full \in BOOLEAN : Reset(full)
         \/ UNCHANGED vars
  BY DEF Next, Library, Application, PictureLost

LEMMA ControlKept ==
  ASSUME IInv, ~Damaged, [Next]_vars
  PROVE  ControlInv'
  <1> USE DEF IInv, ControlInv, TypeOK, Begun, FirstDone, Closing, Header,
              FrameOver, frame, modes, memory, history, display
  <1>1. ASSUME NEW ld \in BOOLEAN, Sequence(ld) PROVE ControlInv'
    BY <1>1 DEF Sequence, StreamInv, HeldInv
  <1>2. ASSUME NEW ld \in BOOLEAN, ChangeSequence(ld) PROVE ControlInv'
    BY <1>2 DEF ChangeSequence, MayEnd, Return
  <1>3. CASE RepeatSequence
    BY <1>3 DEF RepeatSequence, Return
  <1>4. CASE Gop
    BY <1>4 DEF Gop, Return
  <1>5. CASE End
    BY <1>5 DEF End, MayEnd, Return
  <1>6. CASE InvalidEnd
    BY <1>6 DEF InvalidEnd, StateInit
  <1>7. CASE SeekSequence
    BY <1>7 DEF SeekSequence, StateInit
  <1>8. ASSUME NEW t \in Types, NEW k \in {1, 2}, Picture(t, k) PROVE ControlInv'
    BY <1>8 DEF Picture, Return
  <1>9. ASSUME NEW t \in Types, NEW k \in {1, 2}, SecondField(t, k) PROVE ControlInv'
    BY <1>9 DEF SecondField, Return
  <1>10. CASE SliceStart
    BY <1>10 DEF SliceStart
  <1>11. ASSUME NEW a \in BOOLEAN, SlicesEnd(a) PROVE ControlInv'
    BY <1>11 DEF SlicesEnd, Return
  <1>12. ASSUME NEW c \in Converts, NEW u \in Customs, Setup(c, u) PROVE ControlInv'
    BY <1>12 DEF Setup
  <1>13. ASSUME NEW b \in Pool, SetBuf(b) PROVE ControlInv'
    BY <1>13 DEF SetBuf
  <1>14. ASSUME NEW s \in Skips, Answer(s) PROVE ControlInv'
    BY <1>14 DEF Answer, Final
  <1>15. CASE Show
    BY <1>15 DEF Show, Final
  <1>16. ASSUME NEW full \in BOOLEAN, Reset(full) PROVE ControlInv'
    BY <1>16 DEF Reset, StateInit
  <1>17. CASE UNCHANGED vars
    BY <1>17 DEF vars
  <1> QED
    BY NextSplit, <1>1, <1>2, <1>3, <1>4, <1>5, <1>6, <1>7, <1>8, <1>9, <1>10,
       <1>11, <1>12, <1>13, <1>14, <1>15, <1>16, <1>17

-----------------------------------------------------------------------------
(* The stream's side of the steps that leave the frames alone.             *)
LEMMA ReturnedSlice ==
  ASSUME IInv, pc = "app", ret = "SLICE"
  PROVE  state = "SLICE" /\ action = "header" /\ Finished
  <1>1. action \in {"header", "slice_start", "none", "invalid_end",
                    "seek_sequence"}
    BY DEF IInv, TypeOK
  <1>2. action # "slice_start" /\ action # "none"
    BY DEF IInv, ControlInv
  <1>3. action # "invalid_end" /\ action # "seek_sequence"
    BY DEF IInv, ControlInv
  <1>4. action = "header" => ret = state
    BY DEF IInv, ControlInv
  <1> QED BY <1>1, <1>2, <1>3, <1>4 DEF Finished

Shown == /\ Finished /\ Idle' /\ delivered' = n /\ pc' = "lib"
         /\ pc = "app" /\ state = "SLICE" /\ action = "header"
         /\ due' = IF ~IsB /\ ~lowDelay THEN n ELSE due
         /\ UNCHANGED <<first, skip, info, wanted, state, action>>
         /\ held' = IF custom /\ info.discard_fbuf # NULL
                      THEN held \ {buf[info.discard_fbuf]} ELSE held
Waits ==
  /\ UNCHANGED <<valid, delivered>>
  /\ due' \in {due, 0} /\ (first' \/ ~first)
  /\ pc' = "setup" => pc = "setup"
  /\ action' = "invalid_end" => valid \/ action = "invalid_end"
  /\ state' = "SEQUENCE" => state = "SEQUENCE"
  /\ \/ UNCHANGED skip /\ (pc' = "app" \/ pc = "lib" \/ ~Begun)
     \/ skip' => IsB

LEMMA ShowStream ==
  ASSUME IInv, Show
  PROVE  Waits \/ (Shown /\ UNCHANGED valid)
  <1>1. CASE ret # "SLICE"
    <2>1. pc = "app" /\ ret \in {"END", "INVALID_END"}
      BY <1>1 DEF Show, Final
    <2>2. ~Begun
      BY <2>1 DEF Begun, IInv, ControlInv
    <2> QED BY <1>1, <2>2 DEF Show, Waits, frame, modes
  <1>2. CASE ret = "SLICE"
    <2>1. state = "SLICE" /\ action = "header" /\ Finished
      BY <1>2, ReturnedSlice DEF Show
    <2>2. Idle'
      BY <2>1 DEF Show, Idle, Begun, Second, FirstDone, Finished
    <2>3. /\ delivered' = n /\ due' = IF ~IsB /\ ~lowDelay THEN n ELSE due
          /\ UNCHANGED <<first, skip, info, wanted, state, action, valid>>
          /\ pc = "app" /\ pc' = "lib"
          /\ held' = IF custom /\ info.discard_fbuf # NULL
                       THEN held \ {buf[info.discard_fbuf]} ELSE held
      BY <1>2 DEF Show, IsB, frame, modes
    <2> QED BY <2>1, <2>2, <2>3 DEF Shown
  <1> QED BY <1>1, <1>2

LEMMA QuietStream ==
  ASSUME IInv, ~Damaged,
         \/ RepeatSequence \/ Gop \/ End
         \/ \E ld \in BOOLEAN : ChangeSequence(ld)
         \/ \E a \in BOOLEAN : SlicesEnd(a)
         \/ \E s \in Skips : Answer(s)
         \/ Show \/ Reset(FALSE)
         \/ UNCHANGED vars
  PROVE  Quiet /\ (Waits \/ (Shown /\ UNCHANGED valid))
  <1>0. Quiet
    BY QuietSteps
  <1> USE DEF IInv, ControlInv, TypeOK, Begun, frame, modes, display, Header
  <1>1. CASE RepeatSequence
    BY <1>0, <1>1 DEF RepeatSequence, Return, Waits
  <1>2. CASE Gop
    BY <1>0, <1>2 DEF Gop, Return, Waits
  <1>3. CASE End
    BY <1>0, <1>3 DEF End, Return, MayEnd, Waits
  <1>4. ASSUME NEW ld \in BOOLEAN, ChangeSequence(ld) PROVE Waits
    BY <1>4 DEF ChangeSequence, Return, MayEnd, Waits
  <1>5. ASSUME NEW a \in BOOLEAN, SlicesEnd(a) PROVE Waits
    BY <1>5 DEF SlicesEnd, Return, Waits
  <1>6. ASSUME NEW s \in Skips, Answer(s) PROVE Waits
    BY <1>6 DEF Answer, Waits, IsB
  <1>7. CASE Show
    BY <1>0, <1>7, ShowStream
  <1>8. CASE Reset(FALSE)
    BY <1>0, <1>8 DEF Reset, Waits
  <1>9. CASE UNCHANGED vars
    BY <1>0, <1>9 DEF vars, Waits
  <1> QED BY <1>0, <1>1, <1>2, <1>3, <1>4, <1>5, <1>6, <1>7, <1>8, <1>9

LEMMA QuietFlags ==
  ASSUME IInv, Quiet
  PROVE  /\ Showing' => Showing
         /\ Showing => Showing' \/ Finished
         /\ (Begun' <=> Begun) /\ (IsB' <=> IsB) /\ (Open' <=> Open)
         /\ (Second' <=> Second) /\ (FirstDone' <=> FirstDone)
         /\ (Finished' => Finished) /\ (Finished /\ Idle' => ~Showing')
         /\ F(0)' = F(0) /\ F(1)' = F(1) /\ F(2)' = F(2) /\ Pair' = Pair
  <1>1. /\ (Begun' <=> Begun) /\ (Second' <=> Second) /\ (IsB' <=> IsB)
        /\ (FirstDone' <=> FirstDone) /\ (Finished' => Finished)
    BY DEF Quiet, unmoved, Idle, Begun, Second, FirstDone, Finished, IsB
  <1>2. (Finished <=> Finished') \/ (Finished /\ Idle')
    BY DEF Quiet
  <1>3. F(0)' = F(0) /\ F(1)' = F(1) /\ F(2)' = F(2) /\ Pair' = Pair
    BY DEF Quiet, unmoved, F, Pair
  <1> QED BY <1>1, <1>2, <1>3 DEF Showing, Open, Idle

LEMMA StreamQuiet ==
  ASSUME IInv, Quiet, Waits \/ (Shown /\ UNCHANGED valid)
  PROVE  StreamInv'
  <1>0. /\ Showing' => Showing
        /\ (Begun' <=> Begun) /\ (IsB' <=> IsB)
        /\ (Finished /\ Idle' => ~Showing')
        /\ Begun => Showing
        /\ Finished => Showing
    BY QuietFlags DEF Showing
  <1>1. UNCHANGED <<n, refs, codingType, picture, lowDelay, custom>>
    BY DEF Quiet, unmoved
  <1>2. StreamInv /\ (state = "SEQUENCE" => ~Finished) /\ delivered \in Nat
    BY DEF IInv, TypeOK, Finished
  <1>3. CASE Waits
    BY <1>0, <1>1, <1>2, <1>3 DEF StreamInv, Waits
  <1>4. CASE Shown /\ UNCHANGED valid
    BY <1>0, <1>1, <1>2, <1>4 DEF StreamInv, Shown
  <1> QED BY <1>3, <1>4

Blank == /\ codingType' = "I" /\ first' /\ due' = 0 /\ picture' = 0
         /\ UNCHANGED <<n, delivered>>
         /\ ~Closing'
         /\ ~valid' => ~custom' /\ pc' # "setup" /\ action' # "invalid_end"

LEMMA FreshBlank ==
  ASSUME IInv, ~Damaged,
         \/ \E ld \in BOOLEAN : Sequence(ld)
         \/ InvalidEnd \/ SeekSequence \/ Reset(TRUE)
         \/ \E c \in Converts, u \in Customs : Setup(c, u)
         \/ \E b \in Pool : SetBuf(b) /\ state = "SEQUENCE"
  PROVE  Fresh /\ Blank
  <1>1. Fresh
    BY FreshSteps
  <1>2. ~valid => refs.new = 0 /\ ~custom /\ pc # "setup" /\ action # "invalid_end"
    BY DEF IInv, StreamInv
  <1>3. state = "SEQUENCE" \/ ~valid =>
          codingType = "I" /\ first /\ due = 0 /\ picture = 0
    BY DEF IInv, StreamInv
  <1>4. ~valid => ~custom /\ pc # "setup" /\ action # "invalid_end"
    BY DEF IInv, StreamInv
  <1>5. Closing /\ pc = "lib" => due = 0
    BY DEF IInv, DueInv
  <1> USE DEF Blank, Closing
  <1>6. ASSUME NEW ld \in BOOLEAN, Sequence(ld) PROVE Blank
    BY <1>3, <1>6 DEF Sequence, Header, frame, history, display
  <1>7. CASE InvalidEnd
    BY <1>1, <1>4, <1>5, <1>7 DEF InvalidEnd, StateInit, display
  <1>8. CASE SeekSequence
    BY <1>1, <1>5, <1>8 DEF SeekSequence, StateInit, display
  <1>9. CASE Reset(TRUE)
    BY <1>1, <1>9 DEF Reset, StateInit
  <1>10. ASSUME NEW c \in Converts, NEW u \in Customs, Setup(c, u) PROVE Blank
    <2>1. state = "SEQUENCE" /\ action = "header"
      BY <1>10 DEF Setup, IInv, ControlInv
    <2> QED BY <1>3, <1>4, <1>10, <2>1 DEF Setup, frame, history, display
  <1>11. ASSUME NEW b \in Pool, SetBuf(b), state = "SEQUENCE" PROVE Blank
    <2>1. action = "header"
      BY <1>11 DEF SetBuf, IInv, ControlInv, TypeOK, Begun
    <2> QED
      BY <1>3, <1>4, <1>11, <2>1 DEF SetBuf, frame, history, display, modes
  <1> QED BY <1>1, <1>6, <1>7, <1>8, <1>9, <1>10, <1>11

LEMMA StreamFresh ==
  ASSUME IInv, Fresh, Blank
  PROVE  StreamInv'
  <1>1. ~Showing' /\ refs' = NoRefs
    BY DEF Fresh, Idle, Showing
  <1>2. n \in Nat /\ delivered \in Nat /\ delivered <= n
    <2>1. n \in Nat /\ delivered \in Nat
      BY DEF IInv, TypeOK
    <2> QED BY <2>1 DEF IInv, StreamInv
  <1> QED BY <1>1, <1>2 DEF StreamInv, Blank, NoRefs, IsB

LEMMA StreamFrames ==
  ASSUME IInv, ~Damaged,
         \/ \E t \in Types, k \in {1, 2} : Picture(t, k) \/ SecondField(t, k)
         \/ SliceStart
         \/ \E b \in Pool : Given(b)
  PROVE  StreamInv'
  <1>0. StreamInv /\ {n, delivered} \subseteq Nat /\ pc \in {"lib", "setup", "app"}
        /\ refs = [new |-> refs.new, old |-> refs.old]
    BY DEF IInv, TypeOK, StreamInv
  <1>1. ASSUME NEW t \in Types, NEW k \in {1, 2}, Picture(t, k) PROVE StreamInv'
    <2>1. Begins(t, k) /\ ~Showing /\ Showing'
      BY <1>1, PictureEffect DEF Begins, Showing, Idle
    <2>2. (IsB' <=> t = "B") /\ delivered' = delivered /\ valid'
          /\ state' = "PICTURE" /\ pc' = "app"
      BY <1>1, <2>1 DEF Begins, IsB, Picture, display, Return
    <2>3. refs' \in [new : 0 .. n', old : 0 .. n'] /\ n' \in Nat /\ refs'.new # 0
      BY <1>0, <2>1 DEF StreamInv, Begins
    <2> QED BY <1>0, <2>1, <2>2, <2>3 DEF StreamInv, Begins
  <1>2. ASSUME NEW t \in Types, NEW k \in {1, 2}, SecondField(t, k)
        PROVE  StreamInv'
    <2>1. Continues(t)
      BY <1>2, SecondFieldEffect
    <2>2. valid' /\ state' = "PICTURE_2ND" /\ delivered' = delivered
      BY <1>2 DEF SecondField, display
    <2> QED BY <1>0, <2>1, <2>2 DEF StreamInv, Continues
  <1>3. CASE SliceStart
    <2>1. Renders /\ UNCHANGED valid /\ state' # "SEQUENCE"
      BY <1>3, SliceStartEffect DEF SliceStart
    <2>2. action' = "none" /\ (IsB' <=> IsB)
      BY <2>1 DEF Renders, IsB
    <2> QED BY <1>0, <2>1, <2>2 DEF StreamInv, Renders
  <1>4. ASSUME NEW b \in Pool, Given(b) PROVE StreamInv'
    <2>1. Begun /\ Begun' /\ Showing /\ Showing' /\ state # "SEQUENCE"
      BY <1>4, GivenEffect DEF Showing, Given
    <2>2. UNCHANGED <<n, refs, codingType, first, picture, skip, state, valid, pc,
                      action, custom, lowDelay, due, delivered>>
      BY <1>4 DEF Given, SetBuf, modes, frame, history, display
    <2> QED BY <1>0, <2>1, <2>2 DEF StreamInv, IsB
  <1> QED BY <1>1, <1>2, <1>3, <1>4

-----------------------------------------------------------------------------
(* The same steps, told apart by what they do to info, held and due.       *)
Still == /\ UNCHANGED <<state, info, wanted, due, first, held>>
         /\ ~Closing /\ ~Closing' /\ (Showing' <=> Showing)
         /\ pc \in {"app", "lib"} /\ (state = "SEQUENCE" => wanted = 0)
Aside == ~Showing /\ ~Showing' /\ pc = "lib" /\ UNCHANGED wanted
NewHeader == /\ Aside /\ ~Closing /\ ~Closing' /\ state' # "SEQUENCE"
             /\ UNCHANGED <<due, first, held>>
Ends == /\ Aside /\ ~Closing /\ pc' = "app" /\ info' = EndInfo /\ refs.new # 0
        /\ UNCHANGED <<due, first, held>>
        /\ ~lowDelay => due # 0
        /\ UNCHANGED state \/ state' # "SEQUENCE"
Ended == /\ ~Showing /\ ~Showing' /\ Closing /\ Closing' /\ pc' = "lib"
         /\ due' = 0 /\ held' = {} /\ state' # "SEQUENCE"
         /\ UNCHANGED wanted /\ wanted = 0
Jumps == /\ Aside /\ ~Closing /\ ~Closing' /\ state' # "SEQUENCE"
         /\ due' = 0 /\ first' /\ UNCHANGED held

LEMMA HeaderAside ==
  ASSUME IInv, Header, state # "SLICE_1ST"
  PROVE  ~Showing /\ ~Closing /\ pc = "lib"
  BY DEF Header, Showing, Begun, Second, FirstDone, Finished, Closing

LEMMA QuietCases ==
  ASSUME IInv, ~Damaged,
         \/ RepeatSequence \/ Gop \/ End
         \/ \E ld \in BOOLEAN : ChangeSequence(ld)
         \/ \E a \in BOOLEAN : SlicesEnd(a)
         \/ \E s \in Skips : Answer(s)
         \/ Show \/ Reset(FALSE)
  PROVE  Still \/ NewHeader \/ Ends \/ Ended \/ Shown \/ Jumps
  <1>0. (Showing' => Showing) /\ (FirstDone' <=> FirstDone)
    BY QuietSteps, QuietFlags
  <1>1. CASE RepeatSequence
    BY <1>0, <1>1, HeaderAside
    DEF RepeatSequence, FrameOver, NewHeader, Aside, Header, Closing, Return,
        frame, display
  <1>2. CASE Gop
    BY <1>0, <1>2, HeaderAside
    DEF Gop, FrameOver, NewHeader, Aside, Header, Closing, Return, frame, display
  <1>3. CASE End
    <2>1. ~Showing /\ ~Closing /\ pc = "lib"
      BY <1>3, HeaderAside DEF End, MayEnd, FrameOver
    <2>2. refs.new # 0 /\ (~lowDelay => due # 0)
      BY <1>3 DEF End, MayEnd, IInv, StreamInv
    <2> QED
      BY <1>0, <1>3, <2>1, <2>2
      DEF End, Ends, Aside, Return, frame, display
  <1>4. ASSUME NEW ld \in BOOLEAN, ChangeSequence(ld) PROVE Ends
    <2>1. ~Showing /\ ~Closing /\ pc = "lib"
      BY <1>4, HeaderAside DEF ChangeSequence, MayEnd, FrameOver
    <2>2. refs.new # 0 /\ (~lowDelay => due # 0)
      BY <1>4 DEF ChangeSequence, MayEnd, IInv, StreamInv
    <2> QED
      BY <1>0, <1>4, <2>1, <2>2
      DEF ChangeSequence, Ends, Aside, Return, frame, display
  <1>5. ASSUME NEW a \in BOOLEAN, SlicesEnd(a) PROVE Still
    <2>1. pc = "lib" /\ action = "none" /\ state \in {"SLICE_1ST", "SLICE"}
      BY <1>5 DEF SlicesEnd, IInv, ControlInv
    <2>2. /\ state' = state /\ action' = "header" /\ pc' = "app"
          /\ state = "SLICE" => ret' = "SLICE"
          /\ UNCHANGED <<info, wanted, due, first, held>>
      BY <1>5 DEF SlicesEnd, Return, frame, display
    <2>3. Showing /\ Showing' /\ ~Closing /\ ~Closing'
      BY <2>1, <2>2 DEF Showing, FirstDone, Finished, Closing
    <2> QED BY <2>1, <2>2, <2>3 DEF Still
  <1>6. ASSUME NEW s \in Skips, Answer(s) PROVE Still
    <2>1. /\ pc = "app" /\ wanted = 0 /\ ret \notin Final /\ pc' = "lib"
          /\ UNCHANGED <<state, action, info, wanted, due, first, held>>
      BY <1>6 DEF Answer, frame, display
    <2>2. ~Closing /\ ~Closing' /\ action # "none" /\ ret # "SLICE"
      BY <2>1 DEF Closing, Final, IInv, ControlInv
    <2>3. Showing' <=> Showing
      BY <2>1, <2>2 DEF Showing, Begun, Second, FirstDone, Finished
    <2> QED BY <2>1, <2>2, <2>3 DEF Still
  <1>7. CASE Show
    <2>1. CASE ret # "SLICE"
      <3>1. /\ pc = "app" /\ ret \in {"END", "INVALID_END"} /\ pc' = "lib"
            /\ UNCHANGED <<state, action, wanted>> /\ due' = 0 /\ held' = {}
        BY <1>7, <2>1 DEF Show, Final
      <3>2. action \in {"header", "slice_start", "none", "invalid_end",
                        "seek_sequence"}
        BY DEF IInv, TypeOK
      <3>3. action # "slice_start" /\ action # "none" /\ action # "header"
        BY <3>1 DEF IInv, ControlInv
      <3>4. Closing /\ Closing'
        BY <3>1, <3>2, <3>3 DEF Closing
      <3>5. ~FirstDone /\ refs.new # 0
        BY <3>1, <3>4 DEF IInv, ControlInv, InfoInv
      <3>6. state # "SEQUENCE"
        BY <3>5 DEF IInv, StreamInv
      <3>7. ~Showing
        BY <3>1, <3>3, <3>5 DEF Showing, Begun, Second, Finished
      <3>8. wanted = 0
        BY <3>3 DEF IInv, ControlInv, TypeOK, Begun
      <3> QED BY <1>0, <3>1, <3>4, <3>6, <3>7, <3>8 DEF Ended
    <2>2. CASE ret = "SLICE"
      <3>1. state = "SLICE" /\ action = "header" /\ Finished
        BY <1>7, <2>2, ReturnedSlice DEF Show
      <3>2. Idle'
        BY <1>7, <3>1 DEF Show, Idle, Begun, Second, FirstDone, Finished
      <3>3. /\ delivered' = n /\ due' = IF ~IsB /\ ~lowDelay THEN n ELSE due
            /\ UNCHANGED <<first, skip, info, wanted, state, action>>
            /\ pc = "app" /\ pc' = "lib"
            /\ held' = IF custom /\ info.discard_fbuf # NULL
                         THEN held \ {buf[info.discard_fbuf]} ELSE held
        BY <1>7, <2>2 DEF Show, IsB, frame
      <3> QED BY <3>1, <3>2, <3>3 DEF Shown
    <2> QED BY <2>1, <2>2
  <1>8. CASE Reset(FALSE)
    BY <1>0, <1>8, HeaderAside
    DEF Reset, FrameOver, Jumps, Aside, Closing
  <1> QED BY <1>1, <1>2, <1>3, <1>4, <1>5, <1>6, <1>7, <1>8

LEMMA DueQuiet ==
  ASSUME IInv, Quiet, Still \/ NewHeader \/ Ends \/ Ended \/ Shown \/ Jumps
  PROVE  DueInv'
  <1>0. /\ UNCHANGED <<refs, lowDelay>> /\ (IsB' <=> IsB) /\ DueInv
        /\ Finished /\ Idle' => Showing /\ ~Showing'
    BY QuietFlags DEF Quiet, unmoved, IInv, Showing
  <1>1. CASE Still
    BY <1>0, <1>1 DEF DueInv, Still
  <1>2. CASE NewHeader
    BY <1>0, <1>2 DEF DueInv, NewHeader, Aside
  <1>3. CASE Ends
    BY <1>0, <1>3 DEF DueInv, Ends, Aside
  <1>4. CASE Ended
    BY <1>0, <1>4 DEF DueInv, Ended
  <1>5. CASE Shown
    <2>1. ~Closing /\ ~Closing'
      <3>1. state = "SLICE" /\ (action = "none" \/ (pc = "app" /\ ret = "SLICE"))
        BY <1>5 DEF Shown, Finished
      <3>2. action # "invalid_end" /\ action # "seek_sequence"
        BY <3>1 DEF IInv, ControlInv
      <3> QED BY <1>5, <3>2 DEF Shown, Closing
    <2>2. (~IsB => refs.new = n /\ n # 0) /\ Showing /\ ~Showing'
      <3>1. Showing /\ ~Showing'
        BY <1>0, <1>5 DEF Shown
      <3> QED BY <3>1 DEF IInv, StreamInv
    <2> QED BY <1>0, <1>5, <2>1, <2>2 DEF DueInv, Shown
  <1>6. CASE Jumps
    BY <1>0, <1>6 DEF DueInv, Jumps, Aside
  <1> QED BY <1>1, <1>2, <1>3, <1>4, <1>5, <1>6

LEMMA DueFresh ==
  ASSUME Fresh, Blank
  PROVE  DueInv'
  BY DEF DueInv, Fresh, Blank, NoRefs, Idle, Showing

LEMMA DueFrames ==
  ASSUME IInv, ~Damaged,
         \/ \E t \in Types, k \in {1, 2} : Picture(t, k) \/ SecondField(t, k)
         \/ SliceStart
         \/ \E b \in Pool : Given(b)
  PROVE  DueInv'
  <1>0. DueInv
    BY DEF IInv
  <1>1. ASSUME NEW t \in Types, NEW k \in {1, 2}, Picture(t, k) PROVE DueInv'
    <2>1. Begins(t, k) /\ ~Showing /\ Showing'
      BY <1>1, PictureEffect DEF Begins, Showing, Idle
    <2>2. (IsB' <=> t = "B") /\ first' = StillFirst(t) /\ ~Closing /\ ~Closing'
      BY <1>1, <2>1 DEF Begins, IsB, Picture, Header, Closing
    <2> QED BY <1>0, <2>1, <2>2 DEF DueInv, Begins, StillFirst
  <1>2. ASSUME NEW t \in Types, NEW k \in {1, 2}, SecondField(t, k)
        PROVE  DueInv'
    <2>1. Continues(t)
      BY <1>2, SecondFieldEffect
    <2>2. ~Closing /\ ~Closing'
      BY <1>2 DEF SecondField, Header, Closing
    <2> QED BY <1>0, <2>1, <2>2 DEF DueInv, Continues
  <1>3. CASE SliceStart
    <2>1. Renders /\ ~Closing /\ ~Closing'
      BY <1>3, SliceStartEffect DEF SliceStart, Closing
    <2>2. IsB' <=> IsB
      BY <2>1 DEF Renders, IsB
    <2> QED BY <1>0, <2>1, <2>2 DEF DueInv, Renders
  <1>4. ASSUME NEW b \in Pool, Given(b) PROVE DueInv'
    <2>1. Begun /\ Begun' /\ Showing /\ Showing'
      BY <1>4, GivenEffect DEF Showing
    <2>2. UNCHANGED <<refs, codingType, first, pc, action, lowDelay, due>>
      BY <1>4 DEF Given, SetBuf, modes, frame, history, display
    <2> QED BY <1>0, <2>1, <2>2 DEF DueInv, IsB, Closing
  <1> QED BY <1>1, <1>2, <1>3, <1>4

-----------------------------------------------------------------------------
(* What is reported.                                                       *)
LEMMA InfoQuiet ==
  ASSUME IInv, Quiet, Still \/ NewHeader \/ Ends \/ Ended \/ Shown \/ Jumps
  PROVE  InfoInv'
  <1>0. /\ UNCHANGED <<fbuf, picture, pictures, lowDelay, convert, refs>>
        /\ (IsB' <=> IsB) /\ InfoInv /\ Pair' = Pair
        /\ \A p : SecondOf(p)' = SecondOf(p)
        /\ Finished /\ Idle' => ~Showing'
    BY QuietFlags DEF Quiet, unmoved, IInv, SecondOf
  <1>1. CASE Still
    BY <1>0, <1>1 DEF InfoInv, Still
  <1>2. CASE NewHeader
    BY <1>2 DEF InfoInv, NewHeader, Aside
  <1>3. CASE Ends
    <2>1. EndInfo' = EndInfo
      BY DEF EndInfo, LastReference, Quiet, unmoved
    <2> QED BY <1>0, <1>3, <2>1 DEF InfoInv, Ends, Aside
  <1>4. CASE Ended
    BY <1>4 DEF InfoInv, Ended
  <1>5. CASE Shown
    <2>1. pc' = "lib" /\ ~Showing'
      BY <1>0, <1>5 DEF Shown
    <2> QED BY <2>1 DEF InfoInv
  <1>6. CASE Jumps
    BY <1>6 DEF InfoInv, Jumps, Aside
  <1> QED BY <1>1, <1>2, <1>3, <1>4, <1>5, <1>6

LEMMA InfoFresh ==
  ASSUME Fresh, Blank
  PROVE  InfoInv'
  BY DEF InfoInv, Fresh, Blank, Idle, Showing

LEMMA InfoBegun ==
  ASSUME IInv, ~Damaged, NEW t \in Types, NEW k \in {1, 2}, Picture(t, k)
  PROVE  InfoInv'
  <1> DEFINE f == [Rotated EXCEPT ![0] = NULL]
             other == 2 - FramePair
             pi == PictureInfo(t, FramePair, other, f, pictures')
  <1>0. Begins(t, k) /\ ~Showing /\ Showing' /\ (IsB' <=> t = "B")
        /\ ~Closing /\ ~Closing'
    <2>1. Begins(t, k)
      BY PictureEffect
    <2>2. ~Closing /\ ~Closing'
      BY DEF Picture, Header, Closing
    <2> QED BY <2>1, <2>2 DEF Begins, Showing, Idle, IsB
  <1>1. /\ custom => info' = pi /\ wanted' = 1 /\ fbuf' = f
        /\ ~custom => /\ info' = SetFbufInfo(FreeSlot(f), t = "B", pi)
                      /\ fbuf' = [f EXCEPT ![0] = FreeSlot(f)]
    BY DEF Picture, Rotated, IsB
  <1>2. f \in [Slots -> Slots \cup {NULL}]
    <2>1. fbuf \in [Slots -> Slots \cup {NULL}]
      BY DEF IInv, TypeOK
    <2> QED BY <2>1 DEF Rotated, Rotate, Slots
  <1> HIDE DEF f
  <1>3. fbuf'[1] = f[1] /\ fbuf'[2] = f[2] /\ (~custom => fbuf'[0] = FreeSlot(f))
    BY <1>1, <1>2 DEF Slots
  <1>4. ~(t # "B") \/ lowDelay \/ (first <=> due = 0)
    BY <1>0 DEF IInv, DueInv
  <1>5. /\ Pair' = FramePair /\ picture' = FramePair /\ FramePair \in {0, 2}
        /\ UNCHANGED <<lowDelay, convert, due>>
    BY <1>0 DEF Begins
  <1>6. /\ t # "B" /\ ~(lowDelay /\ convert) =>
             pi.discard_fbuf = IF lowDelay \/ convert THEN f[1] ELSE f[2]
        /\ t = "B" \/ lowDelay => pi.display_picture = FramePair
                                  /\ pi.display_picture_2nd = NULL
    BY DEF PictureInfo, NoInfo, Superseded, Bit
  <1>7. t # "B" /\ ~lowDelay =>
          IF first THEN pi.display_fbuf = NULL
          ELSE /\ pi.display_fbuf = f[1] /\ pi.display_picture = other
               /\ pi.display_picture_2nd =
                    IF pictures'[other].fields = 1 THEN other + 1 ELSE NULL
    BY DEF PictureInfo, NoInfo
  <1>8. SetFbufInfo(FreeSlot(f), t = "B", pi) =
          [pi EXCEPT !.current_fbuf = FreeSlot(f),
                     !.display_fbuf = IF t = "B" \/ lowDelay THEN FreeSlot(f)
                                      ELSE @,
                     !.discard_fbuf = IF (t = "B" \/ lowDelay)
                                           /\ (t = "B" \/ convert)
                                        THEN FreeSlot(f) ELSE @]
    BY DEF SetFbufInfo
  <1>9. pi = [current_picture |-> pi.current_picture,
              current_picture_2nd |-> pi.current_picture_2nd,
              display_picture |-> pi.display_picture,
              display_picture_2nd |-> pi.display_picture_2nd,
              current_fbuf |-> pi.current_fbuf,
              display_fbuf |-> pi.display_fbuf,
              discard_fbuf |-> pi.discard_fbuf]
    BY DEF PictureInfo, NoInfo
  <1> HIDE DEF pi
  <1>10. CASE custom
    BY <1>0, <1>1, <1>3, <1>4, <1>5, <1>6, <1>7, <1>10
    DEF InfoInv, SecondOf
  <1>11. CASE ~custom
    <2>1. /\ info'.display_fbuf = IF t = "B" \/ lowDelay THEN fbuf'[0]
                                  ELSE pi.display_fbuf
          /\ info'.discard_fbuf = IF (t = "B" \/ lowDelay) /\ (t = "B" \/ convert)
                                    THEN fbuf'[0] ELSE pi.discard_fbuf
          /\ info'.display_picture = pi.display_picture
          /\ info'.display_picture_2nd = pi.display_picture_2nd
      BY <1>1, <1>3, <1>8, <1>9, <1>11
    <2> QED BY <1>0, <1>3, <1>4, <1>5, <1>6, <1>7, <2>1
      DEF InfoInv, SecondOf
  <1> QED BY <1>10, <1>11

LEMMA InfoFrames ==
  ASSUME IInv, ~Damaged,
         \/ \E t \in Types, k \in {1, 2} : SecondField(t, k)
         \/ SliceStart
         \/ \E b \in Pool : Given(b)
  PROVE  InfoInv'
  <1>0. InfoInv /\ info \in [Pointers -> 0 .. 3 \cup {NULL}]
    BY DEF IInv, TypeOK
  <1>1. ASSUME NEW t \in Types, NEW k \in {1, 2}, SecondField(t, k)
        PROVE  InfoInv'
    <2>1. Continues(t)
      BY <1>1, SecondFieldEffect
    <2>2. ~Closing'
      BY <1>1 DEF SecondField, Closing
    <2>3. /\ info'.display_fbuf = info.display_fbuf
          /\ info'.discard_fbuf = info.discard_fbuf
          /\ info'.display_picture = info.display_picture
          /\ info'.display_picture_2nd = IF lowDelay \/ IsB THEN picture'
                                         ELSE info.display_picture_2nd
      BY <1>0, <2>1 DEF Continues, Pointers
    <2>4. SecondOf(2 - Pair)' = SecondOf(2 - Pair) /\ picture' # Pair'
      BY <2>1 DEF Continues, SecondOf, IInv, TypeOK, Pair
    <2> QED BY <1>0, <2>1, <2>2, <2>3, <2>4 DEF InfoInv, Continues
  <1>2. CASE SliceStart
    <2>1. Renders /\ ~Closing'
      BY <1>2, SliceStartEffect DEF SliceStart, Closing
    <2>2. (IsB' <=> IsB) /\ Pair' = Pair /\ Pair \in {0, 2}
      BY <2>1 DEF Renders, IsB, Pair
    <2>3. SecondOf(2 - Pair)' = SecondOf(2 - Pair)
      BY <2>1, <2>2 DEF Renders, SamePicture, SecondOf
    <2> QED BY <1>0, <2>1, <2>2, <2>3 DEF InfoInv, Renders
  <1>3. ASSUME NEW b \in Pool, Given(b) PROVE InfoInv'
    <2>1. /\ Begun /\ Begun' /\ Showing /\ Showing' /\ wanted' = 0
          /\ fbuf'[1] = fbuf[1] /\ fbuf'[2] = fbuf[2]
          /\ info' = SetFbufInfo(fbuf'[0], IsB, info)
      BY <1>3, GivenEffect DEF Showing
    <2>2. UNCHANGED <<codingType, picture, pictures, lowDelay, convert, due>>
      BY <1>3 DEF Given, SetBuf, modes, frame, display
    <2>3. (IsB' <=> IsB) /\ Pair' = Pair /\ \A p : SecondOf(p)' = SecondOf(p)
      BY <2>2 DEF IsB, Pair, SecondOf
    <2>4. /\ info'.display_fbuf = IF IsB \/ lowDelay THEN fbuf'[0]
                                  ELSE info.display_fbuf
          /\ info'.discard_fbuf = IF (IsB \/ lowDelay) /\ (IsB \/ convert)
                                    THEN fbuf'[0] ELSE info.discard_fbuf
          /\ info'.display_picture = info.display_picture
          /\ info'.display_picture_2nd = info.display_picture_2nd
      BY <1>0, <2>1 DEF SetFbufInfo, Pointers
    <2>5. ~Closing'
      BY <2>1 DEF Begun, Closing
    <2> QED BY <1>0, <2>1, <2>2, <2>3, <2>4, <2>5 DEF InfoInv
  <1> QED BY <1>1, <1>2, <1>3

-----------------------------------------------------------------------------
(* The application's buffers.                                              *)
LEMMA PlacedSame ==
  ASSUME Placed, UNCHANGED <<held, lowDelay, convert>>,
         Current' = Current, Newer' = Newer, Older' = Older
  PROVE  Placed'
  BY DEF Placed

LEMMA RunningInLibrary ==
  ASSUME IInv, pc = "lib", ~Closing
  PROVE  Running /\ wanted = 0
  <1>1. wanted = 0
    BY DEF IInv, ControlInv, TypeOK
  <1> QED BY <1>1 DEF Running

LEMMA HeldAside ==
  ASSUME IInv, Quiet, Aside, ~Closing, UNCHANGED held,
         state' = "SEQUENCE" => state = "SEQUENCE",
         Closing' => pc' # "lib"
  PROVE  HeldInv'
  <1>1. Running /\ wanted = 0 /\ HeldInv
    BY RunningInLibrary DEF Aside, IInv
  <1>2. /\ UNCHANGED <<held, lowDelay, convert, custom, refs, buf, wanted>>
        /\ Newer' = Newer /\ Older' = Older /\ F(0)' = F(0) /\ F(1)' = F(1)
        /\ Current' = Current
    <2>1. Kept' = Kept /\ Current' = Current
      BY QuietFlags DEF Aside, Kept, Current
    <2> QED BY <2>1, QuietFlags DEF Quiet, unmoved, Newer, Older, F, Aside
  <1>3. Placed => Placed'
    BY <1>2, PlacedSame
  <1> QED BY <1>1, <1>2, <1>3 DEF HeldInv, Aside

LEMMA HeldStill ==
  ASSUME IInv, Quiet, Still
  PROVE  HeldInv' /\ ApartInv'
  <1>1. Running /\ HeldInv /\ ApartInv
    <2>1. wanted \in Nat
      BY DEF IInv, TypeOK
    <2> QED BY <2>1 DEF Still, Running, IInv
  <1>2. /\ UNCHANGED <<held, lowDelay, convert, custom, refs, buf, wanted>>
        /\ Newer' = Newer /\ Older' = Older
        /\ F(0)' = F(0) /\ F(1)' = F(1) /\ F(2)' = F(2)
        /\ Current' = Current
    <2>1. Kept' = Kept /\ Current' = Current
      BY QuietFlags DEF Still, Kept, Current
    <2> QED BY <2>1, QuietFlags DEF Quiet, unmoved, Newer, Older, F, Still
  <1>3. Placed => Placed'
    BY <1>2, PlacedSame
  <1>4. HeldInv'
    BY <1>1, <1>2, <1>3 DEF HeldInv, Still
  <1>5. ApartInv'
    BY <1>1, <1>2 DEF ApartInv, Still
  <1> QED BY <1>4, <1>5

LEMMA HeldShown ==
  ASSUME IInv, Quiet, Shown
  PROVE  HeldInv'
  <1>1. Showing /\ ~Showing' /\ ~Closing /\ ~Closing'
    BY QuietFlags DEF Shown, Showing, Closing
  <1>2. wanted = 0 /\ wanted' = 0
    BY DEF Shown, IInv, ControlInv, TypeOK, Begun
  <1>3. /\ fbuf[0] \in Slots /\ fbuf[1] \in Slots /\ fbuf[2] \in Slots
        /\ NULL \notin Slots
    BY DEF IInv, FInv, SlotInv, Awaited, Shown, Slots, NULL
  <1>4. /\ UNCHANGED <<lowDelay, convert, custom, refs, buf, fbuf, wanted>>
        /\ (IsB' <=> IsB)
    BY <1>2, QuietFlags DEF Quiet, unmoved
  <1>5. HeldInv /\ ApartInv /\ InfoInv /\ (IsB => ~lowDelay)
    BY DEF IInv, StreamInv
  <1>6. /\ held' \subseteq held
        /\ custom /\ (IsB \/ (lowDelay /\ convert)) => held' = held \ {F(0)}
        /\ custom /\ ~IsB /\ ~(lowDelay /\ convert) =>
             held' = held \ {IF lowDelay \/ convert THEN F(1) ELSE F(2)}
    <2>1. /\ IsB \/ (lowDelay /\ convert) => info.discard_fbuf = fbuf[0]
          /\ ~IsB /\ ~(lowDelay /\ convert) =>
               info.discard_fbuf = IF lowDelay \/ convert THEN fbuf[1] ELSE fbuf[2]
      BY <1>1, <1>2, <1>5 DEF InfoInv
    <2>2. held' = IF custom /\ info.discard_fbuf # NULL
                    THEN held \ {buf[info.discard_fbuf]} ELSE held
      BY DEF Shown
    <2> QED BY <1>3, <2>1, <2>2 DEF F
  <1>7. Placed \/ ~custom
    BY <1>1, <1>2, <1>5 DEF HeldInv, Running, Shown
  <1>8. /\ F(0) \in Pool
        /\ ~(lowDelay /\ convert) => F(0) # F(1)
        /\ ~lowDelay /\ ~convert => F(0) # F(2)
        /\ Current = {F(0)} /\ Newer = F(1) /\ Older = F(2)
        /\ Current' = {}
        /\ Newer' = (IF IsB THEN F(1) ELSE F(0))
        /\ Older' = (IF IsB THEN F(2) ELSE F(1))
    <2>1. Kept = 1 /\ Kept' = IF IsB THEN 1 ELSE 0
      BY <1>1, <1>4 DEF Kept
    <2>2. Current = {F(0)} /\ Current' = {}
      BY <1>1, <1>2 DEF Current
    <2> QED BY <1>1, <1>2, <1>4, <1>5, <2>1, <2>2 DEF ApartInv, Newer, Older, F
  <1>9. custom => Placed'
    <2> HAVE custom
    <2>1. Placed
      BY <1>7
    <2>5. Newer' \in Pool /\ Older' \in Pool
      BY <1>8, <2>1 DEF Placed
    <2>2. CASE ~lowDelay /\ ~convert
      <3>1. held = {F(0), F(1), F(2)} /\ F(1) # F(2)
        BY <1>8, <2>1, <2>2 DEF Placed
      <3>2. CASE IsB
        <4>1. held' = {F(1), F(2)}
          BY <1>6, <1>8, <2>2, <3>1, <3>2
        <4>2. F(2) \in Pool
          BY <1>5, <3>1 DEF HeldInv
        <4> QED BY <1>4, <1>8, <2>2, <3>1, <3>2, <4>1, <4>2, <2>5
          DEF Placed
      <3>3. CASE ~IsB
        <4>1. held' = {F(0), F(1)}
          BY <1>6, <1>8, <2>2, <3>1, <3>3
        <4>2. F(1) \in Pool
          BY <1>5, <3>1 DEF HeldInv
        <4> QED BY <1>4, <1>8, <2>2, <3>1, <3>3, <4>1, <4>2, <2>5
          DEF Placed
      <3> QED BY <3>2, <3>3
    <2>3. CASE ~(lowDelay /\ convert) /\ (lowDelay \/ convert)
      <3>1. PICK u \in Pool : held \subseteq {u, F(1), F(0)}
        BY <1>8, <2>1, <2>3 DEF Placed
      <3>2. F(0) \in held /\ F(1) \in held
        BY <1>8, <2>1, <2>3 DEF Placed
      <3>3. CASE IsB
        <4>1. held' \subseteq {u, F(1)} /\ F(1) \in held'
          BY <1>6, <1>8, <2>3, <3>1, <3>2, <3>3
        <4> QED BY <1>4, <1>8, <2>3, <2>5, <3>3, <4>1 DEF Placed
      <3>4. CASE ~IsB
        <4>1. held' \subseteq {u, F(0)} /\ F(0) \in held'
          BY <1>6, <1>8, <2>3, <3>1, <3>2, <3>4
        <4> QED BY <1>4, <1>8, <2>3, <2>5, <3>4, <4>1 DEF Placed
      <3> QED BY <3>3, <3>4
    <2>4. CASE lowDelay /\ convert
      <3>1. PICK u \in Pool, v \in Pool : held \subseteq {u, v, F(0)}
        BY <1>8, <2>1, <2>4 DEF Placed
      <3>2. held' \subseteq {u, v}
        BY <1>6, <2>4, <3>1
      <3> QED BY <1>4, <1>8, <2>4, <2>5, <3>2 DEF Placed
    <2> QED BY <2>2, <2>3, <2>4
  <1>10. state' = "SLICE"
    BY DEF Shown
  <1> QED BY <1>1, <1>4, <1>5, <1>6, <1>9, <1>10 DEF HeldInv

LEMMA HeldQuiet ==
  ASSUME IInv, Quiet, Still \/ NewHeader \/ Ends \/ Ended \/ Shown \/ Jumps
  PROVE  HeldInv' /\ ApartInv'
  <1>1. CASE Still
    BY <1>1, HeldStill
  <1>2. CASE NewHeader \/ Jumps
    <2>1. HeldInv'
      BY <1>2, HeldAside DEF NewHeader, Jumps
    <2> QED BY <1>2, <2>1 DEF ApartInv, NewHeader, Jumps, Aside
  <1>3. CASE Ends
    <2>1. HeldInv'
      BY <1>3, HeldAside DEF Ends
    <2> QED BY <1>3, <2>1 DEF ApartInv, Ends, Aside
  <1>4. CASE Ended
    <2>1. UNCHANGED <<custom, refs, buf>> /\ HeldInv
      BY DEF Quiet, unmoved, IInv
    <2>2. HeldInv'
      BY <1>4, <2>1 DEF HeldInv, Ended, Running
    <2> QED BY <1>4, <2>2 DEF ApartInv, Ended
  <1>5. CASE Shown
    <2>1. ~Showing'
      BY <1>5, QuietFlags DEF Shown
    <2> QED BY <1>5, <2>1, HeldShown DEF ApartInv
  <1> QED BY <1>1, <1>2, <1>3, <1>4, <1>5

(* mpeg2_set_buf at STATE_SEQUENCE                                         *)
LEMMA HeldStart ==
  ASSUME IInv, ~Damaged, NEW b \in Pool, SetBuf(b), state = "SEQUENCE"
  PROVE  HeldInv'
  <1>0. Fresh /\ Blank /\ ~Showing' /\ ~IsB'
    <2>1. Fresh /\ Blank
      BY FreshBlank
    <2> QED BY <2>1 DEF Fresh, Blank, Idle, Showing, IsB
  <1>1. /\ custom /\ pc = "app" /\ wanted \in {1, 2} /\ b \notin held
        /\ held' = held \cup {b} /\ wanted' = wanted - 1
        /\ UNCHANGED <<custom, pc, state, lowDelay, convert, refs>>
    BY DEF SetBuf, IInv, ControlInv, TypeOK, modes, history
  <1>2. /\ fbuf[0] \in Slots /\ fbuf[1] \in Slots /\ fbuf[0] # fbuf[1]
        /\ fbuf \in [Slots -> Slots \cup {NULL}]
    BY DEF IInv, FInv, SlotInv, Awaited
  <1> DEFINE f == Rotate(fbuf)
  <1>3. f[1] = fbuf[0] /\ f[2] = fbuf[1] /\ f \in [Slots -> Slots \cup {NULL}]
    BY <1>2 DEF Rotate, Slots
  <1>4. fbuf' = [f EXCEPT ![0] = FreeSlot(f)] /\ buf' = [buf EXCEPT ![FreeSlot(f)] = b]
    BY DEF SetBuf
  <1> HIDE DEF f
  <1>5. FreeSlot(f) \in Slots \ {f[1], f[2]}
    BY <1>2, <1>3, FreeSlotFree
  <1>6. buf \in [Slots -> Pool \cup {NULL}]
    BY DEF IInv, TypeOK
  <1>7. fbuf'[0] = FreeSlot(f) /\ fbuf'[1] = fbuf[0]
    BY <1>3, <1>4 DEF Slots
  <1>8. F(0)' = b /\ F(1)' = F(0)
    BY <1>2, <1>3, <1>4, <1>5, <1>6, <1>7 DEF F
  <1>9. HeldInv
    BY DEF IInv
  <1>10. CASE wanted = 2
    <2>1. held = {}
      BY <1>1, <1>9, <1>10 DEF HeldInv
    <2> QED
      BY <1>0, <1>1, <1>8, <1>10, <2>1 DEF HeldInv, Running, Blank, Fresh,
         NoRefs
  <1>11. CASE wanted = 1
    <2>1. held = {F(0)} /\ F(0) \in Pool /\ F(0) # b
      BY <1>1, <1>9, <1>11 DEF HeldInv
    <2>2. held' = {F(0)', F(1)'} /\ F(0)' # F(1)' /\ F(1)' \in Pool
      BY <1>1, <1>8, <2>1
    <2>3. Newer' = F(0)' /\ Older' = F(1)' /\ Current' = {}
      BY <1>0 DEF Newer, Older, Current, Kept, F
    <2>4. Placed'
      <3>1. held' = {Newer', Older'} /\ Newer' # Older' /\ Older' \in Pool
        BY <2>2, <2>3
      <3>2. held' \subseteq {Older', Newer'} \cup Current' /\ Newer' \in held'
        BY <3>1
      <3>3. Newer' \in Pool
        BY <1>8, <2>3
      <3> QED BY <2>3, <3>1, <3>2, <3>3 DEF Placed
    <2>5. wanted' = 0 /\ held' \subseteq Pool /\ ~Closing' /\ refs'.new = 0
      BY <1>0, <1>1, <1>8, <1>11, <2>2 DEF Blank, Fresh, NoRefs
    <2> QED BY <1>1, <2>2, <2>4, <2>5 DEF HeldInv
  <1> QED BY <1>1, <1>10, <1>11

LEMMA HeldFresh ==
  ASSUME IInv, ~Damaged,
         \/ \E ld \in BOOLEAN : Sequence(ld)
         \/ InvalidEnd \/ SeekSequence \/ Reset(TRUE)
         \/ \E c \in Converts, u \in Customs : Setup(c, u)
         \/ \E b \in Pool : SetBuf(b) /\ state = "SEQUENCE"
  PROVE  HeldInv' /\ ApartInv'
  <1>0. Fresh /\ Blank /\ ~Showing'
    <2>1. Fresh /\ Blank
      BY FreshBlank
    <2> QED BY <2>1 DEF Fresh, Idle, Showing
  <1>1. ApartInv'
    BY <1>0 DEF ApartInv
  <1>2. ASSUME ~custom', held' = {} PROVE HeldInv'
    BY <1>0, <1>2 DEF HeldInv, Fresh, NoRefs
  <1>3. ~custom => held = {}
    BY DEF IInv, HeldInv
  <1>4. ASSUME NEW ld \in BOOLEAN, Sequence(ld) PROVE HeldInv'
    <2>1. ~custom
      BY <1>4 DEF Sequence, IInv, StreamInv
    <2> QED BY <1>2, <1>3, <1>4, <2>1 DEF Sequence
  <1>5. ASSUME InvalidEnd \/ SeekSequence \/ Reset(TRUE) PROVE HeldInv'
    <2>1. ~custom' /\ held' = {}
      BY <1>5 DEF InvalidEnd, SeekSequence, Reset, StateInit
    <2> QED BY <1>2, <2>1
  <1>6. ASSUME NEW c \in Converts, NEW u \in Customs, Setup(c, u)
        PROVE  HeldInv'
    <2>1. held' = {} /\ state' = "SEQUENCE" /\ (custom' => wanted' = 2)
      BY <1>6 DEF Setup, IInv, ControlInv
    <2> QED BY <1>0, <2>1 DEF HeldInv, Running, Fresh, NoRefs
  <1>7. ASSUME NEW b \in Pool, SetBuf(b), state = "SEQUENCE" PROVE HeldInv'
    BY <1>7, HeldStart
  <1> QED BY <1>1, <1>4, <1>5, <1>6, <1>7

LEMMA HeldBegun ==
  ASSUME IInv, ~Damaged, NEW t \in Types, NEW k \in {1, 2}, Picture(t, k)
  PROVE  HeldInv' /\ ApartInv'
  <1>0. Begins(t, k) /\ ~Showing /\ Showing' /\ ~Closing /\ ~Closing'
        /\ pc = "lib" /\ pc' = "app" /\ state' = "PICTURE"
    <2>1. Begins(t, k)
      BY PictureEffect
    <2>2. ~Closing /\ ~Closing' /\ pc = "lib" /\ pc' = "app" /\ state' = "PICTURE"
      BY DEF Picture, Header, Closing, Return
    <2> QED BY <2>1, <2>2 DEF Begins, Showing, Idle
  <1>1. Running /\ HeldInv
    BY <1>0, RunningInLibrary DEF IInv
  <1>2. /\ custom => wanted' = 1 /\ F(1)' = F(Bit(IsB)) /\ F(2)' = F(Bit(IsB) + 1)
        /\ ~custom => buf' = [i \in Slots |-> i + 1] /\ wanted' = 0
                      /\ fbuf'[0] \in Slots \ {fbuf'[1], fbuf'[2]}
                      /\ fbuf'[1] \in Slots /\ fbuf'[2] \in Slots
    BY PictureSlots
  <1>3. UNCHANGED <<custom, held, lowDelay, convert>>
    BY <1>0 DEF Begins
  <1>4. custom => Placed'
    <2> HAVE custom
    <2>1. Kept = Bit(IsB) /\ Kept' = 1
      BY <1>0 DEF Kept, Bit
    <2>2. Current = {} /\ Current' = {}
      BY <1>0, <1>2 DEF Current
    <2>3. Newer' = Newer /\ Older' = Older
      BY <1>2, <2>1 DEF Newer, Older, F
    <2>4. Placed
      BY <1>1 DEF HeldInv
    <2> QED BY <1>3, <2>2, <2>3, <2>4, PlacedSame
  <1>5. HeldInv'
    BY <1>0, <1>1, <1>2, <1>3, <1>4 DEF HeldInv
  <1>6. ApartInv'
    <2>1. CASE custom
      BY <1>2, <2>1 DEF ApartInv
    <2>2. CASE ~custom
      <3>1. /\ F(0)' = fbuf'[0] + 1 /\ F(1)' = fbuf'[1] + 1 /\ F(2)' = fbuf'[2] + 1
            /\ fbuf'[0] \in 0 .. 2 /\ fbuf'[1] \in 0 .. 2 /\ fbuf'[2] \in 0 .. 2
            /\ fbuf'[0] # fbuf'[1] /\ fbuf'[0] # fbuf'[2]
        BY <1>2, <2>2 DEF F, Slots
      <3>2. F(0)' \in Pool
        BY <3>1, ParameterAssumption
      <3> QED BY <3>1, <3>2 DEF ApartInv
    <2> QED BY <2>1, <2>2
  <1> QED BY <1>5, <1>6

(* A second field, and the slices.                                         *)
LEMMA HeldOn ==
  ASSUME IInv, Showing, Showing', wanted = 0, ~Closing, ~Closing', pc # "setup",
         UNCHANGED <<wanted, fbuf, buf, refs, lowDelay, convert, custom, held>>,
         state # "SEQUENCE", state' # "SEQUENCE"
  PROVE  HeldInv' /\ ApartInv'
  <1>1. Running /\ HeldInv /\ ApartInv
    BY DEF Running, IInv
  <1>2. /\ Newer' = Newer /\ Older' = Older /\ Current' = Current
        /\ F(0)' = F(0) /\ F(1)' = F(1) /\ F(2)' = F(2)
    <2>1. Kept = 1 /\ Kept' = 1
      BY DEF Kept
    <2> QED BY <2>1 DEF Newer, Older, Current, F
  <1>3. Placed => Placed'
    BY <1>2, PlacedSame
  <1>4. HeldInv'
    BY <1>1, <1>3 DEF HeldInv
  <1>5. ApartInv'
    BY <1>1, <1>2 DEF ApartInv
  <1> QED BY <1>4, <1>5

(* mpeg2_set_buf at STATE_PICTURE                                          *)
LEMMA HeldGiven ==
  ASSUME IInv, ~Damaged, NEW b \in Pool, Given(b)
  PROVE  HeldInv' /\ ApartInv'
  <1>1. /\ Begun /\ Begun' /\ wanted = 1 /\ wanted' = 0 /\ custom
        /\ F(0)' = b /\ F(1)' = F(1) /\ F(2)' = F(2)
    BY GivenEffect
  <1>2. /\ UNCHANGED <<lowDelay, convert, custom, codingType, refs, action, state>>
        /\ held' = held \cup {b} /\ b \notin held /\ pc = "app"
    BY DEF Given, SetBuf, modes, frame, history
  <1>3. Showing /\ Showing' /\ ~Closing /\ ~Closing' /\ state = "PICTURE"
    BY <1>1, <1>2 DEF Showing, Begun, Closing
  <1>4. HeldInv /\ Placed
    <2>1. Running
      BY <1>2, <1>3 DEF Running
    <2> QED BY <1>1, <2>1 DEF IInv, HeldInv
  <1>5. /\ Newer = F(1) /\ Older = F(2) /\ Newer' = F(1) /\ Older' = F(2)
        /\ Current = {} /\ Current' = {b}
    <2>1. Kept = 1 /\ Kept' = 1
      BY <1>3 DEF Kept
    <2>2. Current = {} /\ Current' = {b}
      BY <1>1, <1>3 DEF Current
    <2> QED BY <1>1, <2>1, <2>2 DEF Newer, Older, F
  <1>6. Placed'
    <2>0. Newer' \in Pool /\ Older' \in Pool
      BY <1>4, <1>5 DEF Placed
    <2>1. CASE ~lowDelay /\ ~convert
      BY <1>2, <1>4, <1>5, <2>0, <2>1 DEF Placed
    <2>2. CASE ~(lowDelay /\ convert) /\ (lowDelay \/ convert)
      <3>1. PICK u \in Pool : held \subseteq {u, F(1)}
        BY <1>4, <1>5, <2>2 DEF Placed
      <3>2. held' \subseteq {u, F(1)} \cup {b} /\ F(1) \in held'
        BY <1>2, <1>4, <1>5, <2>2, <3>1 DEF Placed
      <3> QED BY <1>2, <1>5, <2>0, <2>2, <3>2 DEF Placed
    <2>3. CASE lowDelay /\ convert
      <3>1. PICK u \in Pool, v \in Pool : held \subseteq {u, v}
        BY <1>4, <1>5, <2>3 DEF Placed
      <3>2. held' \subseteq {u, v} \cup {b}
        BY <1>2, <3>1
      <3> QED BY <1>2, <1>5, <2>0, <2>3, <3>2 DEF Placed
    <2> QED BY <2>1, <2>2, <2>3
  <1>7. HeldInv'
    BY <1>1, <1>2, <1>3, <1>4, <1>6 DEF HeldInv
  <1>8. /\ ~(lowDelay /\ convert) => F(1) \in held
        /\ ~lowDelay /\ ~convert => F(2) \in held
    BY <1>4, <1>5 DEF Placed
  <1>9. ApartInv'
    BY <1>1, <1>2, <1>8 DEF ApartInv
  <1> QED BY <1>7, <1>9

LEMMA HeldFrames ==
  ASSUME IInv, ~Damaged,
         \/ \E t \in Types, k \in {1, 2} : Picture(t, k) \/ SecondField(t, k)
         \/ SliceStart
         \/ \E b \in Pool : Given(b)
  PROVE  HeldInv' /\ ApartInv'
  <1>1. ASSUME NEW t \in Types, NEW k \in {1, 2}, SecondField(t, k)
        PROVE  HeldInv' /\ ApartInv'
    <2>1. Continues(t)
      BY <1>1, SecondFieldEffect
    <2>2. /\ ~Closing /\ ~Closing' /\ pc # "setup"
          /\ state # "SEQUENCE" /\ state' # "SEQUENCE"
      BY <1>1 DEF SecondField, Header, Closing
    <2>3. /\ Showing /\ Showing' /\ wanted = 0 /\ (IsB' <=> IsB)
          /\ UNCHANGED <<wanted, fbuf, buf, refs, lowDelay, convert, custom, held>>
      BY <2>1 DEF Continues
    <2> QED BY <2>2, <2>3, HeldOn
  <1>2. CASE SliceStart
    <2>1. Renders
      BY <1>2, SliceStartEffect
    <2>2. /\ ~Closing /\ ~Closing' /\ pc # "setup"
          /\ state # "SEQUENCE" /\ state' # "SEQUENCE"
      BY <1>2, <2>1 DEF SliceStart, Closing, Renders, Begun, Second
    <2>3. /\ Showing /\ Showing' /\ wanted = 0
          /\ UNCHANGED <<wanted, fbuf, buf, refs, lowDelay, convert, custom, held>>
      BY <2>1 DEF Renders
    <2> QED BY <2>2, <2>3, HeldOn
  <1> QED BY <1>1, <1>2, HeldBegun, HeldGiven

-----------------------------------------------------------------------------
(* Types.                                                                  *)
ScalarsOK ==
  /\ pc \in {"lib", "setup", "app"}
  /\ ret \in States \cup {"END", "BUFFER"} /\ state \in States
  /\ action \in {"header", "slice_start", "none", "invalid_end",
                 "seek_sequence"}
  /\ valid \in BOOLEAN /\ lowDelay \in BOOLEAN /\ newLowDelay \in BOOLEAN
  /\ convert \in BOOLEAN /\ custom \in BOOLEAN /\ skip \in BOOLEAN
  /\ first \in BOOLEAN
  /\ codingType \in Types /\ yuvIndex \in {0, 1} /\ wanted \in 0 .. 2

LEMMA ScalarsTyped ==
  ASSUME IInv, ~Damaged, [Next]_vars
  PROVE  ScalarsOK'
  <1>0. ScalarsOK
    BY DEF IInv, TypeOK, ScalarsOK
  <1> USE <1>0, ParameterAssumption
      DEF ScalarsOK, States, Types, StillFirst, OtherYuv, Render,
          frame, modes, memory, history, display
  <1>1. ASSUME NEW ld \in BOOLEAN, Sequence(ld) PROVE ScalarsOK'
    BY <1>1 DEF Sequence, States
  <1>2. ASSUME NEW ld \in BOOLEAN, ChangeSequence(ld) PROVE ScalarsOK'
    BY <1>2 DEF ChangeSequence, MayEnd, Return
  <1>3. CASE RepeatSequence
    BY <1>3 DEF RepeatSequence, Return
  <1>4. CASE Gop
    BY <1>4 DEF Gop, Return
  <1>5. CASE End
    BY <1>5 DEF End, MayEnd, Return
  <1>6. CASE InvalidEnd
    BY <1>6 DEF InvalidEnd, StateInit
  <1>7. CASE SeekSequence
    BY <1>7 DEF SeekSequence, StateInit
  <1>8. ASSUME NEW t \in Types, NEW k \in {1, 2}, Picture(t, k) PROVE ScalarsOK'
    BY <1>8 DEF Picture, Return
  <1>9. ASSUME NEW t \in Types, NEW k \in {1, 2}, SecondField(t, k) PROVE ScalarsOK'
    BY <1>9 DEF SecondField, Return
  <1>10. CASE SliceStart
    BY <1>10 DEF SliceStart
  <1>11. ASSUME NEW a \in BOOLEAN, SlicesEnd(a) PROVE ScalarsOK'
    BY <1>11 DEF SlicesEnd, Return
  <1>12. ASSUME NEW c \in Converts, NEW u \in Customs, Setup(c, u) PROVE ScalarsOK'
    BY <1>12 DEF Setup
  <1>13. ASSUME NEW b \in Pool, SetBuf(b) PROVE ScalarsOK'
    BY <1>13 DEF SetBuf
  <1>14. ASSUME NEW s \in Skips, Answer(s) PROVE ScalarsOK'
    BY <1>14 DEF Answer
  <1>15. CASE Show
    BY <1>15 DEF Show, Final
  <1>16. ASSUME NEW full \in BOOLEAN, Reset(full) PROVE ScalarsOK'
    <2>1. CASE full
      BY <1>16, <2>1 DEF Reset, StateInit
    <2>2. CASE ~full
      BY <1>16, <2>2 DEF Reset, StateInit
    <2> QED BY <2>1, <2>2
  <1>17. CASE UNCHANGED vars
    BY <1>17 DEF vars
  <1> QED
    BY NextSplit, <1>1, <1>2, <1>3, <1>4, <1>5, <1>6, <1>7, <1>8, <1>9, <1>10,
       <1>11, <1>12, <1>13, <1>14, <1>15, <1>16, <1>17


NumbersOK ==
  /\ n \in 0 .. MaxFrames /\ refs \in [new : 0 .. MaxFrames, old : 0 .. MaxFrames]
  /\ delivered \in 0 .. MaxFrames /\ due \in 0 .. MaxFrames
  /\ whole \in SUBSET (1 .. MaxFrames) /\ picture \in 0 .. 3

LEMMA NumbersTyped ==
  ASSUME IInv, ~Damaged, [Next]_vars
  PROVE  NumbersOK'
  <1>0. NumbersOK
    <2>1. refs \in [new : 0 .. MaxFrames, old : 0 .. MaxFrames]
      BY DEF IInv, StreamInv, TypeOK
    <2> QED BY <2>1 DEF IInv, TypeOK, NumbersOK
  <1>a. FramePair \in {0, 2} /\ NoRefs \in [new : 0 .. MaxFrames, old : 0 .. MaxFrames]
    BY ParameterAssumption DEF FramePair, NoRefs
  <1>b. state = "SLICE_1ST" => picture \in {0, 2}
    BY DEF IInv, FInv, PairInv
  <1>c. action = "slice_start" => n # 0
    <2>1. action = "slice_start" => Showing
      BY DEF IInv, ControlInv, Showing, Begun, Second
    <2> QED BY <2>1 DEF IInv, StreamInv, TypeOK
  <1> USE <1>0, <1>a, <1>b, <1>c, ParameterAssumption
      DEF NumbersOK, Render, frame, memory, history, display, Header
  <1>1. ASSUME NEW ld \in BOOLEAN, Sequence(ld) PROVE NumbersOK'
    BY <1>1 DEF Sequence
  <1>2. ASSUME NEW ld \in BOOLEAN, ChangeSequence(ld) PROVE NumbersOK'
    BY <1>2 DEF ChangeSequence, MayEnd, Return
  <1>3. CASE RepeatSequence
    BY <1>3 DEF RepeatSequence, Return
  <1>4. CASE Gop
    BY <1>4 DEF Gop, Return
  <1>5. CASE End
    BY <1>5 DEF End, MayEnd, Return
  <1>6. CASE InvalidEnd
    BY <1>6 DEF InvalidEnd, StateInit
  <1>7. CASE SeekSequence
    BY <1>7 DEF SeekSequence, StateInit
  <1>8. ASSUME NEW t \in Types, NEW k \in {1, 2}, Picture(t, k) PROVE NumbersOK'
    BY <1>8 DEF Picture, Return
  <1>9. ASSUME NEW t \in Types, NEW k \in {1, 2}, SecondField(t, k) PROVE NumbersOK'
    BY <1>9 DEF SecondField, Return
  <1>10. CASE SliceStart
    BY <1>10 DEF SliceStart
  <1>11. ASSUME NEW a \in BOOLEAN, SlicesEnd(a) PROVE NumbersOK'
    BY <1>11 DEF SlicesEnd, Return
  <1>12. ASSUME NEW c \in Converts, NEW u \in Customs, Setup(c, u) PROVE NumbersOK'
    BY <1>12 DEF Setup
  <1>13. ASSUME NEW b \in Pool, SetBuf(b) PROVE NumbersOK'
    BY <1>13 DEF SetBuf
  <1>14. ASSUME NEW s \in Skips, Answer(s) PROVE NumbersOK'
    BY <1>14 DEF Answer
  <1>15. CASE Show
    BY <1>15 DEF Show, Final
  <1>16. ASSUME NEW full \in BOOLEAN, Reset(full) PROVE NumbersOK'
    BY <1>16 DEF Reset, StateInit
  <1>17. CASE UNCHANGED vars
    BY <1>17 DEF vars
  <1> QED
    BY NextSplit, <1>1, <1>2, <1>3, <1>4, <1>5, <1>6, <1>7, <1>8, <1>9, <1>10,
       <1>11, <1>12, <1>13, <1>14, <1>15, <1>16, <1>17


InfoOK == info \in [Pointers -> 0 .. 3 \cup {NULL}]

LEMMA InfoTyped ==
  ASSUME IInv, ~Damaged, [Next]_vars
  PROVE  InfoOK'
  <1>0. InfoOK
    BY DEF IInv, TypeOK, InfoOK
  <1>a. NoInfo \in [Pointers -> 0 .. 3 \cup {NULL}]
    BY DEF NoInfo, Pointers
  <1>b. state = "SLICE_1ST" => picture \in {0, 2}
    BY DEF IInv, FInv, PairInv
  <1>c. /\ fbuf \in [Slots -> Slots \cup {NULL}]
        /\ fbuf[1] \in Slots /\ fbuf[2] \in Slots /\ fbuf[1] # fbuf[2]
        /\ Header => fbuf[0] \in Slots /\ fbuf[0] # fbuf[1] /\ fbuf[0] # fbuf[2]
    BY DEF IInv, FInv, SlotInv, Awaited, Header
  <1>d. \A i \in {0, 1, 2} : fbuf[i] \in 0 .. 3 \cup {NULL}
    BY <1>c DEF Slots
  <1>e. EndInfo \in [Pointers -> 0 .. 3 \cup {NULL}]
    <2> DEFINE freed == IF lowDelay THEN fbuf[Bit(codingType = "B")]
                        ELSE fbuf[Bit(codingType = "B") + 1]
               p == LastReference
    <2>1. freed \in 0 .. 3 \cup {NULL} /\ fbuf[Bit(codingType = "B")] \in 0 .. 3 \cup {NULL}
      BY <1>d DEF Bit
    <2>2. p \in 0 .. 3 \cup {NULL} /\ p + 1 \in 0 .. 3 \cup {NULL}
      BY DEF LastReference
    <2> DEFINE base == [NoInfo EXCEPT !.discard_fbuf =
                          IF convert THEN NULL ELSE freed]
    <2>3. EndInfo = IF lowDelay THEN base
                    ELSE [base EXCEPT
                            !.display_picture = p,
                            !.display_picture_2nd =
                               IF pictures[p].fields = 1 THEN p + 1 ELSE NULL,
                            !.display_fbuf = fbuf[Bit(codingType = "B")]]
      BY DEF EndInfo
    <2> HIDE DEF p, freed
    <2>4. base \in [Pointers -> 0 .. 3 \cup {NULL}]
      BY <1>a, <2>1
    <2> HIDE DEF base
    <2> QED BY <2>1, <2>2, <2>3, <2>4
  <1>1. ASSUME NEW ld \in BOOLEAN, Sequence(ld) PROVE InfoOK'
    BY <1>0, <1>a, <1>1 DEF InfoOK, Sequence
  <1>2. ASSUME NEW ld \in BOOLEAN, ChangeSequence(ld) PROVE InfoOK'
    BY <1>e, <1>2 DEF InfoOK, ChangeSequence
  <1>3. CASE RepeatSequence
    BY <1>0, <1>a, <1>3 DEF InfoOK, RepeatSequence
  <1>4. CASE Gop
    BY <1>0, <1>a, <1>4 DEF InfoOK, Gop
  <1>5. CASE End
    BY <1>e, <1>5 DEF InfoOK, End
  <1>6. CASE InvalidEnd
    BY <1>0, <1>a, <1>6 DEF InfoOK, InvalidEnd, StateInit
  <1>7. CASE SeekSequence
    BY <1>0, <1>a, <1>7 DEF InfoOK, SeekSequence, StateInit
  <1>8. ASSUME NEW t \in Types, NEW k \in {1, 2}, Picture(t, k) PROVE InfoOK'
    <2> DEFINE f == [Rotated EXCEPT ![0] = NULL]
               pi == PictureInfo(t, FramePair, 2 - FramePair, f, pictures')
    <2>1. /\ \/ info' = pi
             \/ info' = SetFbufInfo(FreeSlot(f), t = "B", pi)
          /\ f[1] \in Slots /\ f[2] \in Slots /\ f[1] # f[2]
      BY <1>8, <1>c DEF Picture, Rotated, IsB, Rotate, Slots
    <2> HIDE DEF f
    <2>2. FreeSlot(f) \in 0 .. 3 \cup {NULL}
      BY <2>1, FreeSlotFree DEF Slots
    <2>3. Superseded(f) \in 0 .. 3 \cup {NULL}
      <3>1. f[1] \in 0 .. 3 \cup {NULL} /\ f[2] \in 0 .. 3 \cup {NULL}
        BY <2>1 DEF Slots
      <3> QED BY <3>1 DEF Superseded, Bit
    <2>4. f[1] \in 0 .. 3 \cup {NULL} /\ FramePair \in {0, 2}
      BY <2>1 DEF Slots, FramePair
    <2>5. 2 - FramePair \in 0 .. 3 \cup {NULL}
          /\ 2 - FramePair + 1 \in 0 .. 3 \cup {NULL}
          /\ FramePair \in 0 .. 3 \cup {NULL}
      BY <2>4
    <2>6. pi \in [Pointers -> 0 .. 3 \cup {NULL}]
      BY <1>a, <2>3, <2>4, <2>5 DEF PictureInfo
    <2> HIDE DEF pi
    <2> QED BY <2>1, <2>2, <2>6 DEF SetFbufInfo, InfoOK
  <1>9. ASSUME NEW t \in Types, NEW k \in {1, 2}, SecondField(t, k) PROVE InfoOK'
    <2>1. picture + 1 \in 0 .. 3 \cup {NULL}
      BY <1>9, <1>b DEF SecondField
    <2> QED BY <1>0, <1>9, <2>1 DEF InfoOK, SecondField
  <1>10. CASE SliceStart
    BY <1>0, <1>a, <1>10 DEF InfoOK, SliceStart
  <1>11. ASSUME NEW a \in BOOLEAN, SlicesEnd(a) PROVE InfoOK'
    BY <1>0, <1>a, <1>11 DEF InfoOK, SlicesEnd
  <1>12. ASSUME NEW c \in Converts, NEW u \in Customs, Setup(c, u) PROVE InfoOK'
    BY <1>0, <1>a, <1>12 DEF InfoOK, Setup
  <1>13. ASSUME NEW b \in Pool, SetBuf(b) PROVE InfoOK'
    <2> DEFINE f == IF state = "SEQUENCE" THEN Rotate(fbuf) ELSE fbuf
    <2>1. f[1] \in Slots /\ f[2] \in Slots /\ f[1] # f[2]
      <3>1. state = "SEQUENCE" => fbuf[0] \in Slots /\ fbuf[0] # fbuf[1]
        BY DEF IInv, FInv, SlotInv, Awaited
      <3> QED BY <1>c, <3>1 DEF Rotate, Slots
    <2>2. info' = SetFbufInfo(FreeSlot(f), codingType = "B", info)
      BY <1>13 DEF SetBuf
    <2> HIDE DEF f
    <2>3. FreeSlot(f) \in 0 .. 3 \cup {NULL}
      BY <2>1, FreeSlotFree DEF Slots
    <2> QED BY <1>0, <2>2, <2>3 DEF SetFbufInfo, InfoOK
  <1>14. ASSUME NEW s \in Skips, Answer(s) PROVE InfoOK'
    BY <1>0, <1>a, <1>14 DEF InfoOK, Answer
  <1>15. CASE Show
    BY <1>0, <1>a, <1>15 DEF InfoOK, Show
  <1>16. ASSUME NEW full \in BOOLEAN, Reset(full) PROVE InfoOK'
    BY <1>0, <1>a, <1>16 DEF InfoOK, Reset, StateInit
  <1>17. CASE UNCHANGED vars
    BY <1>0, <1>a, <1>17 DEF InfoOK, vars
  <1> QED
    BY NextSplit, <1>1, <1>2, <1>3, <1>4, <1>5, <1>6, <1>7, <1>8, <1>9, <1>10,
       <1>11, <1>12, <1>13, <1>14, <1>15, <1>16, <1>17


MemoryOK ==
  /\ buf \in [Slots -> Pool \cup {NULL}]
  /\ yuv \in [Slots -> 0 .. MaxFrames] /\ content \in [Pool -> 0 .. MaxFrames]
  /\ held \in SUBSET Pool

LEMMA MemoryTyped ==
  ASSUME IInv, ~Damaged, [Next]_vars
  PROVE  MemoryOK'
  <1>0. MemoryOK
    BY DEF IInv, TypeOK, MemoryOK
  <1>b. n \in 0 .. MaxFrames
    BY DEF IInv, TypeOK
  <1>1. ASSUME NEW ld \in BOOLEAN, Sequence(ld) PROVE MemoryOK'
    BY <1>0, <1>1 DEF MemoryOK, memory, Sequence
  <1>2. ASSUME NEW ld \in BOOLEAN, ChangeSequence(ld) PROVE MemoryOK'
    BY <1>0, <1>2 DEF MemoryOK, memory, ChangeSequence
  <1>3. CASE RepeatSequence
    BY <1>0, <1>3 DEF MemoryOK, memory, RepeatSequence
  <1>4. CASE Gop
    BY <1>0, <1>4 DEF MemoryOK, memory, Gop
  <1>5. CASE End
    BY <1>0, <1>5 DEF MemoryOK, memory, End
  <1>6. CASE InvalidEnd
    BY <1>6, ParameterAssumption DEF MemoryOK, InvalidEnd, StateInit
  <1>7. CASE SeekSequence
    BY <1>7, ParameterAssumption DEF MemoryOK, SeekSequence, StateInit
  <1>8. ASSUME NEW t \in Types, NEW k \in {1, 2}, Picture(t, k) PROVE MemoryOK'
    <2>1. buf' \in [Slots -> Pool \cup {NULL}]
      BY <1>0, <1>8, ParameterAssumption DEF Picture, Slots, MemoryOK
    <2> QED BY <1>0, <1>8, <2>1 DEF Picture, MemoryOK, memory
  <1>9. ASSUME NEW t \in Types, NEW k \in {1, 2}, SecondField(t, k) PROVE MemoryOK'
    BY <1>0, <1>9 DEF MemoryOK, memory, SecondField
  <1>10. CASE SliceStart
    <2>1. Renders /\ UNCHANGED <<fbuf, buf, held>>
      BY <1>10, SliceStartEffect DEF Renders
    <2>2. yuv' \in [Slots -> 0 .. MaxFrames] /\ content' \in [Pool -> 0 .. MaxFrames]
      BY <1>0, <1>b, <2>1 DEF Renders, MemoryOK
    <2> QED BY <1>0, <2>1, <2>2 DEF MemoryOK
  <1>11. ASSUME NEW a \in BOOLEAN, SlicesEnd(a) PROVE MemoryOK'
    BY <1>0, <1>11 DEF MemoryOK, memory, SlicesEnd
  <1>12. ASSUME NEW c \in Converts, NEW u \in Customs, Setup(c, u) PROVE MemoryOK'
    BY <1>0, <1>12 DEF MemoryOK, memory, Setup
  <1>13. ASSUME NEW b \in Pool, SetBuf(b) PROVE MemoryOK'
    <2>1. buf' \in [Slots -> Pool \cup {NULL}] /\ held' \in SUBSET Pool
      BY <1>0, <1>13 DEF SetBuf, MemoryOK
    <2> QED BY <1>0, <1>13, <2>1 DEF SetBuf, MemoryOK, memory
  <1>14. ASSUME NEW s \in Skips, Answer(s) PROVE MemoryOK'
    BY <1>0, <1>14 DEF MemoryOK, memory, Answer
  <1>15. CASE Show
    <2>1. held' \subseteq held
      <3>1. CASE ret = "SLICE"
        BY <1>15, <3>1 DEF Show
      <3>2. CASE ret # "SLICE"
        BY <1>15, <3>2 DEF Show
      <3> QED BY <3>1, <3>2
    <2> QED BY <1>0, <1>15, <2>1 DEF Show, MemoryOK, memory
  <1>16. ASSUME NEW full \in BOOLEAN, Reset(full) PROVE MemoryOK'
    <2>1. CASE full
      BY <1>16, <2>1, ParameterAssumption DEF Reset, StateInit, MemoryOK
    <2>2. CASE ~full
      BY <1>0, <1>16, <2>2 DEF Reset, MemoryOK
    <2> QED BY <2>1, <2>2
  <1>17. CASE UNCHANGED vars
    BY <1>0, <1>17 DEF MemoryOK, memory, vars
  <1> QED
    BY NextSplit, <1>1, <1>2, <1>3, <1>4, <1>5, <1>6, <1>7, <1>8, <1>9, <1>10,
       <1>11, <1>12, <1>13, <1>14, <1>15, <1>16, <1>17


PicturesOK ==
  pictures \in [0 .. 3 -> [id : 0 .. MaxFrames, fields : {1, 2}, skip : BOOLEAN]]

LEMMA PicturesTyped ==
  ASSUME IInv, ~Damaged, [Next]_vars
  PROVE  PicturesOK'
  <1>0. PicturesOK
    BY DEF IInv, TypeOK, PicturesOK
  <1>b. n \in 0 .. MaxFrames /\ picture \in 0 .. 3 /\ MaxFrames \in Nat
    BY ParameterAssumption DEF IInv, TypeOK
  <1>1. ASSUME NEW ld \in BOOLEAN, Sequence(ld) PROVE PicturesOK'
    BY <1>0, <1>1 DEF PicturesOK, frame, Sequence
  <1>2. ASSUME NEW ld \in BOOLEAN, ChangeSequence(ld) PROVE PicturesOK'
    BY <1>0, <1>2 DEF PicturesOK, frame, ChangeSequence
  <1>3. CASE RepeatSequence
    BY <1>0, <1>3 DEF PicturesOK, frame, RepeatSequence
  <1>4. CASE Gop
    BY <1>0, <1>4 DEF PicturesOK, frame, Gop
  <1>5. CASE End
    BY <1>0, <1>5 DEF PicturesOK, frame, End
  <1>6. CASE InvalidEnd
    BY <1>0, <1>6 DEF PicturesOK, frame, InvalidEnd
  <1>7. CASE SeekSequence
    BY <1>0, <1>7 DEF PicturesOK, frame, SeekSequence
  <1>8. ASSUME NEW t \in Types, NEW k \in {1, 2}, Picture(t, k) PROVE PicturesOK'
    <2>1. FramePair \in 0 .. 3 /\ n + 1 \in 0 .. MaxFrames
      BY <1>b, <1>8 DEF Picture, FramePair
    <2>2. pictures' = [pictures EXCEPT ![FramePair] =
                         [id |-> n + 1, fields |-> k, skip |-> FALSE]]
      BY <1>8 DEF Picture
    <2> QED BY <1>0, <2>1, <2>2 DEF PicturesOK
  <1>9. ASSUME NEW t \in Types, NEW k \in {1, 2}, SecondField(t, k) PROVE PicturesOK'
    BY <1>0, <1>b, <1>9 DEF PicturesOK, SecondField, Header
  <1>10. CASE SliceStart
    <2>1. \/ pictures' = [pictures EXCEPT ![picture].skip = TRUE]
          \/ UNCHANGED pictures
      <3>1. CASE skip
        BY <1>10, <3>1 DEF SliceStart
      <3>2. CASE ~skip
        BY <1>10, <3>2 DEF SliceStart
      <3> QED BY <3>1, <3>2
    <2> QED BY <1>0, <1>b, <2>1 DEF PicturesOK
  <1>11. ASSUME NEW a \in BOOLEAN, SlicesEnd(a) PROVE PicturesOK'
    BY <1>0, <1>11 DEF PicturesOK, frame, SlicesEnd
  <1>12. ASSUME NEW c \in Converts, NEW u \in Customs, Setup(c, u) PROVE PicturesOK'
    BY <1>0, <1>12 DEF PicturesOK, frame, Setup
  <1>13. ASSUME NEW b \in Pool, SetBuf(b) PROVE PicturesOK'
    BY <1>0, <1>13 DEF PicturesOK, frame, SetBuf
  <1>14. ASSUME NEW s \in Skips, Answer(s) PROVE PicturesOK'
    BY <1>0, <1>14 DEF PicturesOK, frame, Answer
  <1>15. CASE Show
    BY <1>0, <1>15 DEF PicturesOK, frame, Show
  <1>16. ASSUME NEW full \in BOOLEAN, Reset(full) PROVE PicturesOK'
    BY <1>0, <1>16 DEF PicturesOK, frame, Reset
  <1>17. CASE UNCHANGED vars
    BY <1>0, <1>17 DEF PicturesOK, frame, vars
  <1> QED
    BY NextSplit, <1>1, <1>2, <1>3, <1>4, <1>5, <1>6, <1>7, <1>8, <1>9, <1>10,
       <1>11, <1>12, <1>13, <1>14, <1>15, <1>16, <1>17

(* A frame that is displayed has a picture.                                *)
LEMMA ShownPicture ==
  ASSUME IInv, pc = "app", ret \in Final, info.display_fbuf # NULL
  PROVE  info.display_picture \in 0 .. 3
  <1>0. Pair \in {0, 2} /\ LastReference \in {0, 2}
    BY DEF Pair, LastReference
  <1>1. CASE ret = "SLICE"
    <2>1. Finished /\ Showing /\ wanted = 0
      <3>1. state = "SLICE" /\ action = "header" /\ Finished
        BY <1>1, ReturnedSlice
      <3> QED BY <3>1 DEF Showing, IInv, ControlInv, TypeOK, Begun
    <2>2. IsB \/ lowDelay => info.display_picture = Pair
      BY <2>1 DEF IInv, InfoInv
    <2>3. ~IsB /\ ~lowDelay => info.display_picture = 2 - Pair
      BY <2>1 DEF IInv, InfoInv
    <2> QED BY <1>0, <2>2, <2>3
  <1>2. CASE ret # "SLICE"
    <2>1. Closing
      <3>1. ret \in {"END", "INVALID_END"}
        BY <1>2 DEF Final
      <3>2. action \in {"header", "slice_start", "none", "invalid_end",
                        "seek_sequence"}
        BY DEF IInv, TypeOK
      <3>3. action # "slice_start" /\ action # "none" /\ action # "header"
        BY <3>1 DEF IInv, ControlInv
      <3> QED BY <3>2, <3>3 DEF Closing
    <2>2. info = EndInfo
      BY <2>1 DEF IInv, InfoInv
    <2>3. lowDelay => EndInfo.display_fbuf = NULL
      BY DEF EndInfo, NoInfo
    <2>4. ~lowDelay => EndInfo.display_picture = LastReference
      BY DEF EndInfo, NoInfo
    <2> QED BY <1>0, <2>2, <2>3, <2>4
  <1> QED BY <1>1, <1>2

HistoryOK == /\ source.new \in 0 .. MaxFrames /\ source.old \in 0 .. MaxFrames
             /\ out \in Seq(0 .. MaxFrames)

LEMMA HistoryTyped ==
  ASSUME IInv, ~Damaged, [Next]_vars
  PROVE  HistoryOK'
  <1>0. HistoryOK
    BY DEF IInv, TypeOK, HistoryOK
  <1>b. pictures \in [0 .. 3 -> [id : 0 .. MaxFrames, fields : {1, 2},
                                 skip : BOOLEAN]]
    BY DEF IInv, TypeOK
  <1>1. ASSUME NEW ld \in BOOLEAN, Sequence(ld) PROVE HistoryOK'
    BY <1>0, <1>1 DEF HistoryOK, history, display, Sequence
  <1>2. ASSUME NEW ld \in BOOLEAN, ChangeSequence(ld) PROVE HistoryOK'
    BY <1>0, <1>2 DEF HistoryOK, history, display, ChangeSequence
  <1>3. CASE RepeatSequence
    BY <1>0, <1>3 DEF HistoryOK, history, display, RepeatSequence
  <1>4. CASE Gop
    BY <1>0, <1>4 DEF HistoryOK, history, display, Gop
  <1>5. CASE End
    BY <1>0, <1>5 DEF HistoryOK, history, display, End
  <1>6. CASE InvalidEnd
    BY <1>0, <1>6 DEF HistoryOK, history, display, InvalidEnd
  <1>7. CASE SeekSequence
    BY <1>0, <1>7 DEF HistoryOK, history, display, SeekSequence
  <1>8. ASSUME NEW t \in Types, NEW k \in {1, 2}, Picture(t, k) PROVE HistoryOK'
    BY <1>0, <1>8 DEF HistoryOK, history, display, Picture
  <1>9. ASSUME NEW t \in Types, NEW k \in {1, 2}, SecondField(t, k) PROVE HistoryOK'
    BY <1>0, <1>9 DEF HistoryOK, history, display, SecondField
  <1>10. CASE SliceStart
    <2>0. Renders /\ UNCHANGED out
      BY <1>10, SliceStartEffect DEF SliceStart, display
    <2>1. CASE skip
      BY <1>0, <2>0, <2>1 DEF Renders, HistoryOK
    <2>2. CASE ~skip /\ convert
      <3>1. /\ source'.new = yuv[yuvIndex]
            /\ source'.old = yuv[IF IsB THEN OtherYuv(yuvIndex) ELSE yuvIndex]
        BY <2>0, <2>2 DEF Renders
      <3>2. yuvIndex \in Slots /\ OtherYuv(yuvIndex) \in Slots
            /\ yuv \in [Slots -> 0 .. MaxFrames]
        <4>1. yuvIndex \in {0, 1} /\ yuv \in [Slots -> 0 .. MaxFrames]
          BY DEF IInv, TypeOK
        <4> QED BY <4>1 DEF OtherYuv, Slots
      <3> QED BY <1>0, <2>0, <3>1, <3>2 DEF HistoryOK
    <2>3. CASE ~skip /\ ~convert
      <3>1. /\ source'.new = content[F(Bit(IsB))]
            /\ source'.old = content[F(Bit(IsB) + 1)]
        BY <2>0, <2>3 DEF Renders
      <3>2. F(0) \in Pool /\ F(1) \in Pool /\ (IsB => F(2) \in Pool)
        <4>1. F(0) \in Pool
          BY <2>0 DEF Renders
        <4>2. CASE custom
          <5>1. Running /\ Kept = 1
            BY <2>0 DEF Running, Renders, Closing, Begun, Second, Kept
          <5>2. Placed
            BY <4>2, <5>1 DEF IInv, HeldInv
          <5> QED BY <4>1, <5>1, <5>2 DEF Placed, Newer, Older
        <4>3. CASE ~custom
          <5>1. refs.new # 0
            BY <2>0 DEF Renders, IInv, StreamInv
          <5>2. buf = [i \in Slots |-> i + 1]
            BY <4>3, <5>1 DEF IInv, HeldInv
          <5>3. fbuf[1] \in Slots /\ fbuf[2] \in Slots
            BY DEF IInv, FInv, SlotInv
          <5> QED BY <4>1, <5>2, <5>3, ParameterAssumption DEF F, Slots
        <4> QED BY <4>2, <4>3
      <3>3. content \in [Pool -> 0 .. MaxFrames]
        BY DEF IInv, TypeOK
      <3> QED BY <1>0, <2>0, <3>1, <3>2, <3>3 DEF HistoryOK, Bit
    <2> QED BY <2>1, <2>2, <2>3
  <1>11. ASSUME NEW a \in BOOLEAN, SlicesEnd(a) PROVE HistoryOK'
    BY <1>0, <1>11 DEF HistoryOK, history, display, SlicesEnd
  <1>12. ASSUME NEW c \in Converts, NEW u \in Customs, Setup(c, u) PROVE HistoryOK'
    BY <1>0, <1>12 DEF HistoryOK, history, display, Setup
  <1>13. ASSUME NEW b \in Pool, SetBuf(b) PROVE HistoryOK'
    BY <1>0, <1>13 DEF HistoryOK, history, display, SetBuf
  <1>14. ASSUME NEW s \in Skips, Answer(s) PROVE HistoryOK'
    BY <1>0, <1>14 DEF HistoryOK, history, display, Answer
  <1>15. CASE Show
    <2>1. info.display_fbuf # NULL => info.display_picture \in 0 .. 3
      <3>1. pc = "app" /\ ret \in Final
        BY <1>15 DEF Show
      <3> QED BY <3>1, ShownPicture
    <2>2. out' = IF info.display_fbuf = NULL \/ Damaged THEN out
                 ELSE Append(out, pictures[info.display_picture].id)
      BY <1>15, Zenon DEF Show
    <2>3. UNCHANGED source
      BY <1>15, Zenon DEF Show, history
    <2>4. CASE info.display_fbuf = NULL \/ Damaged
      BY <1>0, <2>2, <2>3, <2>4 DEF HistoryOK
    <2>5. CASE ~(info.display_fbuf = NULL \/ Damaged)
      <3>1. pictures[info.display_picture].id \in 0 .. MaxFrames
        BY <1>b, <2>1, <2>5
      <3>2. out' \in Seq(0 .. MaxFrames)
        BY <1>0, <2>2, <2>5, <3>1 DEF HistoryOK
      <3> QED BY <1>0, <2>3, <3>2 DEF HistoryOK
    <2> QED BY <2>4, <2>5
  <1>16. ASSUME NEW full \in BOOLEAN, Reset(full) PROVE HistoryOK'
    BY <1>0, <1>16 DEF HistoryOK, history, display, Reset
  <1>17. CASE UNCHANGED vars
    BY <1>0, <1>17 DEF HistoryOK, history, display, vars
  <1> QED
    BY NextSplit, <1>1, <1>2, <1>3, <1>4, <1>5, <1>6, <1>7, <1>8, <1>9, <1>10,
       <1>11, <1>12, <1>13, <1>14, <1>15, <1>16, <1>17

LEMMA Typed ==
  ASSUME IInv, ~Damaged, [Next]_vars
  PROVE  TypeOK' /\ FInv'
  <1>1. FInv'
    BY FramesInductive DEF IInv
  <1>2. fbuf' \in [Slots -> Slots \cup {NULL}]
    BY <1>1 DEF FInv, SlotInv
  <1>3. TypeOK'
    BY <1>2, ScalarsTyped, NumbersTyped, InfoTyped, MemoryTyped, PicturesTyped,
       HistoryTyped
    DEF TypeOK, ScalarsOK, NumbersOK, InfoOK, MemoryOK, PicturesOK, HistoryOK
  <1> QED BY <1>1, <1>3

-----------------------------------------------------------------------------
(* The invariant.                                                          *)

(* Only mpeg2_header_slice_start decodes.                                  *)
LEMMA OthersDecodeNothing ==
  ASSUME IInv, ~Damaged, [Next]_vars, ~SliceStart, ~(UNCHANGED vars)
  PROVE  action' # "none"
  <1>0. action = "none" => pc = "lib"
    BY DEF IInv, ControlInv
  <1>00. pc = "setup" => action = "header"
    BY DEF IInv, ControlInv
  <1> USE <1>0, <1>00 DEF Header
  <1>1. ASSUME NEW ld \in BOOLEAN, Sequence(ld) PROVE action' # "none"
    BY <1>1 DEF Sequence
  <1>2. ASSUME NEW ld \in BOOLEAN, ChangeSequence(ld) PROVE action' # "none"
    BY <1>2 DEF ChangeSequence, MayEnd
  <1>3. CASE RepeatSequence
    BY <1>3 DEF RepeatSequence
  <1>4. CASE Gop
    BY <1>4 DEF Gop
  <1>5. CASE End
    BY <1>5 DEF End, MayEnd
  <1>6. CASE InvalidEnd
    BY <1>6 DEF InvalidEnd
  <1>7. CASE SeekSequence
    BY <1>7 DEF SeekSequence
  <1>8. ASSUME NEW t \in Types, NEW k \in {1, 2}, Picture(t, k) PROVE action' # "none"
    BY <1>8 DEF Picture
  <1>9. ASSUME NEW t \in Types, NEW k \in {1, 2}, SecondField(t, k) PROVE action' # "none"
    BY <1>9 DEF SecondField
  <1>10. CASE SliceStart
    BY <1>10
  <1>11. ASSUME NEW a \in BOOLEAN, SlicesEnd(a) PROVE action' # "none"
    BY <1>11 DEF SlicesEnd
  <1>12. ASSUME NEW c \in Converts, NEW u \in Customs, Setup(c, u) PROVE action' # "none"
    BY <1>12 DEF Setup
  <1>13. ASSUME NEW b \in Pool, SetBuf(b) PROVE action' # "none"
    BY <1>13 DEF SetBuf
  <1>14. ASSUME NEW s \in Skips, Answer(s) PROVE action' # "none"
    BY <1>14 DEF Answer
  <1>15. CASE Show
    BY <1>15 DEF Show
  <1>16. ASSUME NEW full \in BOOLEAN, Reset(full) PROVE action' # "none"
    BY <1>16 DEF Reset
  <1>17. CASE UNCHANGED vars
    BY <1>17
  <1> QED
    BY NextSplit, <1>1, <1>2, <1>3, <1>4, <1>5, <1>6, <1>7, <1>8, <1>9, <1>10,
       <1>11, <1>12, <1>13, <1>14, <1>15, <1>16, <1>17

LEMMA Initial == Init => IInv
  <1> SUFFICES ASSUME Init PROVE IInv
    OBVIOUS
  <1>1. TypeOK
    <2>1. NoInfo \in [Pointers -> 0 .. 3 \cup {NULL}]
      BY DEF NoInfo, Pointers
    <2>2. out \in Seq(0 .. MaxFrames)
      BY DEF Init
    <2>3. /\ pictures \in [0 .. 3 -> [id : 0 .. MaxFrames, fields : {1, 2},
                                      skip : BOOLEAN]]
          /\ fbuf \in [Slots -> Slots \cup {NULL}]
          /\ buf \in [Slots -> Pool \cup {NULL}]
          /\ yuv \in [Slots -> 0 .. MaxFrames]
          /\ content \in [Pool -> 0 .. MaxFrames]
      BY ParameterAssumption DEF Init, NoPicture
    <2>4. {n, refs.new, refs.old, source.new, source.old, delivered, due}
            \subseteq 0 .. MaxFrames
      BY ParameterAssumption DEF Init, NoRefs
    <2>5. {valid, lowDelay, newLowDelay, convert, custom, skip, first}
            \subseteq BOOLEAN
      BY DEF Init
    <2>6. info \in [Pointers -> 0 .. 3 \cup {NULL}]
      BY <2>1 DEF Init
    <2> QED
      BY <2>2, <2>3, <2>4, <2>5, <2>6 DEF Init, TypeOK, States, Types
  <1>2. FInv
    BY FramesInitial
  <1>3. ~Showing /\ Idle /\ ~Closing /\ refs.new = 0 /\ refs.old = 0
    BY DEF Init, Idle, Showing, Begun, Second, FirstDone, Finished, Closing,
       NoRefs
  <1>4. ControlInv
    BY DEF Init, ControlInv, Closing, FirstDone
  <1>5. StreamInv
    <2>1. refs \in [new : 0 .. n, old : 0 .. n]
      BY DEF Init, NoRefs
    <2> QED BY <1>3, <2>1 DEF Init, StreamInv, IsB
  <1>6. HeldInv /\ ApartInv
    BY <1>3 DEF Init, HeldInv, ApartInv
  <1>7. ContentInv /\ WholeInv /\ YuvInv /\ PicturesInv
    BY <1>3 DEF ContentInv, WholeInv, YuvInv, PicturesInv, Idle
  <1>8. InfoInv /\ DueInv
    BY <1>3 DEF Init, InfoInv, DueInv
  <1>9. PredictsNewest
    BY DEF Init, PredictsNewest
  <1> QED
    BY <1>1, <1>2, <1>4, <1>5, <1>6, <1>7, <1>8, <1>9 DEF IInv

LEMMA Inductive ==
  ASSUME IInv, ~Damaged, [Next]_vars
  PROVE  IInv'
  <1>0. TypeOK' /\ FInv' /\ ControlInv'
    BY Typed, ControlKept
  <1> DEFINE Rest == /\ StreamInv' /\ HeldInv' /\ ApartInv' /\ Frames'
                     /\ InfoInv' /\ DueInv' /\ PredictsNewest'
  <1>1. SUFFICES Rest
    BY <1>0 DEF IInv, Frames
  <1>2. ASSUME \/ RepeatSequence \/ Gop \/ End
               \/ \E ld \in BOOLEAN : ChangeSequence(ld)
               \/ \E a \in BOOLEAN : SlicesEnd(a)
               \/ \E s \in Skips : Answer(s)
               \/ Show \/ Reset(FALSE),
               action' # "none"
        PROVE  Rest
    <2>1. Quiet /\ (Waits \/ (Shown /\ UNCHANGED valid))
      BY <1>2, QuietStream
    <2>2. Still \/ NewHeader \/ Ends \/ Ended \/ Shown \/ Jumps
      BY <1>2, QuietCases
    <2>3. StreamInv' /\ Frames'
      BY <2>1, StreamQuiet, FramesKept
    <2>4. HeldInv' /\ ApartInv' /\ InfoInv' /\ DueInv'
      BY <2>1, <2>2, HeldQuiet, InfoQuiet, DueQuiet
    <2> QED BY <1>2, <2>3, <2>4 DEF PredictsNewest
  <1>3. ASSUME \/ \E ld \in BOOLEAN : Sequence(ld)
               \/ InvalidEnd \/ SeekSequence \/ Reset(TRUE)
               \/ \E c \in Converts, u \in Customs : Setup(c, u)
               \/ \E b \in Pool : SetBuf(b) /\ state = "SEQUENCE",
               action' # "none"
        PROVE  Rest
    <2>1. Fresh /\ Blank
      BY <1>3, FreshBlank
    <2>2. HeldInv' /\ ApartInv'
      BY <1>3, HeldFresh
    <2>3. StreamInv' /\ Frames' /\ InfoInv' /\ DueInv'
      BY <2>1, StreamFresh, FramesFresh, InfoFresh, DueFresh
    <2> QED BY <1>3, <2>2, <2>3 DEF PredictsNewest
  <1>4. ASSUME \/ \E t \in Types, k \in {1, 2} : Picture(t, k) \/ SecondField(t, k)
               \/ SliceStart
               \/ \E b \in Pool : Given(b),
               SliceStart \/ action' # "none"
        PROVE  Rest
    <2>1. StreamInv' /\ HeldInv' /\ ApartInv' /\ DueInv'
      BY <1>4, StreamFrames, HeldFrames, DueFrames
    <2>2. Frames'
      BY <1>4, FramesBegun, FramesContinued, FramesRendered, FramesGiven
    <2>3. InfoInv'
      BY <1>4, InfoBegun, InfoFrames
    <2>4. PredictsNewest'
      BY <1>4, SourcesRendered DEF PredictsNewest
    <2> QED BY <2>1, <2>2, <2>3, <2>4
  <1>5. CASE UNCHANGED vars
    <2>1. Quiet /\ StreamInv' /\ Frames'
      BY <1>5, QuietStream, StreamQuiet, FramesKept
    <2>2. /\ (Showing' <=> Showing) /\ (Begun' <=> Begun) /\ (IsB' <=> IsB)
          /\ (Closing' <=> Closing)
      BY <1>5 DEF vars, Showing, Begun, Second, FirstDone, Finished, IsB,
         Closing
    <2>3. /\ F(0)' = F(0) /\ F(1)' = F(1) /\ F(2)' = F(2) /\ Pair' = Pair
          /\ Newer' = Newer /\ Older' = Older /\ Current' = Current
          /\ (Running' <=> Running) /\ EndInfo' = EndInfo
          /\ \A p : SecondOf(p)' = SecondOf(p)
      BY <1>5, <2>2
      DEF vars, F, Pair, Newer, Older, Current, Kept, Running, EndInfo, SecondOf,
          LastReference
    <2>4. Placed' <=> Placed
      BY <1>5, <2>3 DEF vars, Placed
    <2>5. HeldInv' /\ ApartInv'
      BY <1>5, <2>2, <2>3, <2>4 DEF vars, IInv, HeldInv, ApartInv
    <2>6. InfoInv' /\ DueInv'
      BY <1>5, <2>2, <2>3 DEF vars, IInv, InfoInv, DueInv
    <2>7. PredictsNewest'
      BY <1>5 DEF vars, IInv, PredictsNewest
    <2> QED BY <2>1, <2>5, <2>6, <2>7
  <1>6. SliceStart \/ action' # "none" \/ UNCHANGED vars
    BY OthersDecodeNothing
  <1> QED
    BY <1>2, <1>3, <1>4, <1>5, <1>6, NextSplit DEF Given

-----------------------------------------------------------------------------
(* What follows from the invariant.                                        *)

(* STATE_SLICE: the present frame, or the reference frame before it.       *)
AtSlice == /\ Showing /\ ~Begun /\ ~Open /\ Finished /\ wanted = 0 /\ Running
           /\ fbuf[0] \in Slots /\ fbuf[1] \in Slots
           /\ picture = Pair + 2 - pictures[Pair].fields /\ Pair \in {0, 2}

LEMMA SliceShown ==
  ASSUME IInv, pc = "app", ret = "SLICE"
  PROVE  AtSlice
  <1>1. state = "SLICE" /\ action = "header" /\ Finished
    BY ReturnedSlice
  <1>2. Showing /\ ~Begun /\ ~Open
    BY <1>1 DEF Showing, Begun, Open, Second, FirstDone
  <1>3. wanted = 0 /\ Running
    BY <1>1, <1>2 DEF IInv, ControlInv, TypeOK, Running, Closing
  <1>4. fbuf[0] \in Slots /\ fbuf[1] \in Slots
    BY <1>1 DEF IInv, FInv, SlotInv, Awaited
  <1>5. picture = Pair + 2 - pictures[Pair].fields /\ Pair \in {0, 2}
    BY <1>1 DEF IInv, PicturesInv, Pair
  <1> QED BY <1>1, <1>2, <1>3, <1>4, <1>5 DEF AtSlice

(* STATE_END, STATE_INVALID_END: the last reference frame.                 *)
AtEnd == /\ Closing /\ ~Showing /\ ~Open /\ refs.new # 0 /\ Running
         /\ lowDelay => info.display_fbuf = NULL
         /\ ~lowDelay => /\ info.display_fbuf = fbuf[Bit(IsB)]
                         /\ info.display_fbuf \in Slots
                         /\ info.display_picture = LastReference
                         /\ info.display_picture_2nd = SecondOf(LastReference)

LEMMA EndShown ==
  ASSUME IInv, pc = "app", ret \in Final, ret # "SLICE"
  PROVE  AtEnd
  <1>1. ret \in {"END", "INVALID_END"}
    BY DEF Final
  <1>2. action \in {"header", "slice_start", "none", "invalid_end",
                    "seek_sequence"}
    BY DEF IInv, TypeOK
  <1>3. action # "slice_start" /\ action # "none" /\ action # "header"
    BY <1>1 DEF IInv, ControlInv
  <1>4. Closing
    BY <1>2, <1>3 DEF Closing
  <1>5. ~FirstDone /\ info = EndInfo /\ refs.new # 0
    BY <1>4 DEF IInv, ControlInv, InfoInv
  <1>6. ~Showing /\ ~Open
    BY <1>3, <1>5 DEF Showing, Open, Begun, Second, Finished
  <1>7. Running
    BY <1>5 DEF Running, IInv, StreamInv
  <1>8. fbuf[Bit(IsB)] \in Slots
    BY <1>4 DEF IInv, FInv, SlotInv, Awaited, Closing, Bit, ControlInv
  <1>9. /\ lowDelay => EndInfo.display_fbuf = NULL
        /\ ~lowDelay => /\ EndInfo.display_fbuf = fbuf[Bit(IsB)]
                        /\ EndInfo.display_picture = LastReference
                        /\ EndInfo.display_picture_2nd = SecondOf(LastReference)
    BY DEF EndInfo, NoInfo, SecondOf, IsB
  <1> QED BY <1>4, <1>5, <1>6, <1>7, <1>8, <1>9 DEF AtEnd

LEMMA Described == IInv => DisplayDescribed
  <1> SUFFICES ASSUME IInv, pc = "app", ret \in Final, info.display_fbuf # NULL
               PROVE  DisplayDescribed
    BY DEF DisplayDescribed
  <1>0. pictures \in [0 .. 3 -> [id : 0 .. MaxFrames, fields : {1, 2},
                                 skip : BOOLEAN]]
    BY DEF IInv, TypeOK
  <1>1. CASE ret = "SLICE"
    <2>0. AtSlice
      BY <1>1, SliceShown
    <2> USE <1>0, <1>1, <2>0 DEF AtSlice
    <2>1. CASE IsB \/ lowDelay
      <3>1. /\ info.display_fbuf = fbuf[0] /\ info.display_picture = Pair
            /\ info.display_picture_2nd =
                 IF picture = Pair THEN NULL ELSE picture
        BY <2>1 DEF IInv, InfoInv
      <3>2. Describe(Pair, n, TRUE) /\ pictures[Pair].fields \in {1, 2}
        BY DEF IInv, PicturesInv, Describe
      <3>3. pictures[Pair].skip \/ (n \in whole /\ content[F(0)] = n)
        BY DEF IInv, WholeInv, ContentInv
      <3>4. Pair # NULL /\ picture # NULL
        BY DEF NULL
      <3> QED
        BY <3>1, <3>2, <3>3, <3>4 DEF DisplayDescribed, Describe, F
    <2>2. CASE ~IsB /\ ~lowDelay
      <3>1. due # 0 /\ due = refs.old /\ refs.old # 0
        BY <2>2 DEF IInv, InfoInv, DueInv
      <3>2. /\ info.display_fbuf = fbuf[1] /\ info.display_picture = 2 - Pair
            /\ info.display_picture_2nd = SecondOf(2 - Pair)
        BY <2>2, <3>1 DEF IInv, InfoInv
      <3>3. Describe(2 - Pair, refs.old, TRUE)
        BY <2>2, <3>1 DEF IInv, PicturesInv
      <3>4. refs.old \in whole /\ content[F(1)] = refs.old
        BY <2>2, <3>1 DEF IInv, WholeInv, ContentInv, KeepsOld, Bit
      <3>5. 2 - Pair # NULL /\ 2 - Pair + 1 # NULL
            /\ pictures[2 - Pair].fields \in {1, 2}
        BY DEF NULL
      <3> QED
        BY <3>2, <3>3, <3>4, <3>5 DEF DisplayDescribed, Describe, F, SecondOf
    <2> QED BY <2>1, <2>2
  <1>2. CASE ret # "SLICE"
    <2>0. AtEnd
      BY <1>2, EndShown
    <2> USE <1>0, <1>2, <2>0 DEF AtEnd
    <2>1. Describe(LastReference, refs.new, TRUE)
      BY DEF IInv, PicturesInv, Describe
    <2>2. refs.new \in whole /\ content[F(Bit(IsB))] = refs.new
      BY DEF IInv, WholeInv, ContentInv, Showing
    <2>3. LastReference # NULL /\ LastReference + 1 # NULL
          /\ pictures[LastReference].fields \in {1, 2}
      BY DEF LastReference, NULL
    <2> QED BY <2>1, <2>2, <2>3 DEF DisplayDescribed, Describe, F, SecondOf
  <1> QED BY <1>1, <1>2

LEMMA Unused == IInv => NoUseAfterDiscard
  <1> SUFFICES ASSUME IInv, custom PROVE NoUseAfterDiscard
    BY DEF NoUseAfterDiscard
  <1>1. ASSUME action = "none"
        PROVE  /\ F(0) \in held
               /\ ~convert /\ codingType # "I" =>
                    \A i \in 1 .. Bit(IsB) + 1 : F(i) \in held /\ F(i) # F(0)
    <2>1. pc = "lib" /\ state \in {"SLICE_1ST", "SLICE"} /\ wanted = 0
      BY <1>1 DEF IInv, ControlInv, TypeOK
    <2>2. Showing /\ ~Closing
      BY <1>1, <2>1 DEF Showing, FirstDone, Finished, Closing
    <2>3. Placed /\ Current = {F(0)} /\ Newer = F(1) /\ Older = F(2)
      <3>1. Running
        BY <2>1, <2>2, RunningInLibrary
      <3>2. Placed
        BY <3>1 DEF IInv, HeldInv
      <3> QED BY <2>1, <2>2, <3>2 DEF Current, Newer, Older, Kept
    <2>4. F(0) \in held
      BY <2>3 DEF Placed
    <2>5. ~convert => F(1) \in held /\ F(1) # F(0)
      BY <2>1, <2>2, <2>3 DEF Placed, IInv, ApartInv
    <2>6. ~convert /\ IsB => F(2) \in held /\ F(2) # F(0)
      BY <2>1, <2>2, <2>3 DEF Placed, IInv, ApartInv, StreamInv
    <2>7. \A i \in 1 .. Bit(IsB) + 1 : i = 1 \/ (IsB /\ i = 2)
      BY DEF Bit
    <2> QED BY <2>4, <2>5, <2>6, <2>7
  <1>2. ASSUME pc = "app", ret \in Final, info.display_fbuf # NULL
        PROVE  buf[info.display_fbuf] \in held
    <2>1. CASE ret = "SLICE"
      <3>0. AtSlice
        BY <1>2, <2>1, SliceShown
      <3> USE <3>0 DEF AtSlice
      <3>1. Placed /\ Current = {F(0)} /\ Newer = F(1)
        BY DEF IInv, HeldInv, Current, Newer, Kept
      <3>2. CASE IsB \/ lowDelay
        <4>1. info.display_fbuf = fbuf[0]
          BY <3>2 DEF IInv, InfoInv
        <4> QED BY <3>1, <4>1 DEF Placed, F
      <3>3. CASE ~IsB /\ ~lowDelay
        <4>1. info.display_fbuf = fbuf[1]
          BY <1>2, <3>3 DEF IInv, InfoInv
        <4> QED BY <3>1, <3>3, <4>1 DEF Placed, F
      <3> QED BY <3>2, <3>3
    <2>2. CASE ret # "SLICE"
      <3>0. AtEnd
        BY <1>2, <2>2, EndShown
      <3> USE <1>2, <3>0 DEF AtEnd
      <3>1. Placed /\ Newer = F(Bit(IsB))
        BY DEF IInv, HeldInv, Newer, Kept, Bit
      <3> QED BY <3>1 DEF Placed, F
    <2> QED BY <2>1, <2>2
  <1> QED
    BY <1>1, <1>2 DEF NoUseAfterDiscard, F, IsB

LEMMA Available == IInv => BufferAvailable
  <1> SUFFICES ASSUME IInv, pc = "app", wanted > 0
               PROVE  \E b \in Pool : b \notin held
    BY DEF BufferAvailable
  <1>1. custom /\ ((Begun /\ wanted = 1) \/ state = "SEQUENCE") /\ wanted \in {1, 2}
    BY DEF IInv, ControlInv, TypeOK
  <1>2. \E u, v : held \subseteq {u, v}
    <2>1. CASE state = "SEQUENCE"
      <3>1. held = {} \/ held = {F(0)}
        BY <1>1, <2>1 DEF IInv, HeldInv
      <3> QED BY <3>1
    <2>2. CASE Begun /\ wanted = 1
      <3>1. Running /\ Current = {}
        BY <2>2 DEF Running, Current, Begun, Closing
      <3>2. Placed
        BY <1>1, <3>1 DEF IInv, HeldInv
      <3> QED BY <3>1, <3>2 DEF Placed
    <2> QED BY <1>1, <2>1, <2>2
  <1>3. 1 \in Pool /\ 2 \in Pool /\ 3 \in Pool
    BY ParameterAssumption
  <1> QED BY <1>2, <1>3

-----------------------------------------------------------------------------
(* Showing a frame is a step of DisplayOrder.                              *)
LEMMA ShowRefines ==
  ASSUME IInv, ~Damaged, Show
  PROVE  Order!Next
  <1>0. /\ pc = "app" /\ ret \in Final
        /\ out' = IF info.display_fbuf = NULL THEN out
                  ELSE Append(out, pictures[info.display_picture].id)
    BY Zenon DEF Show
  <1>1. NULL \notin Slots
    BY DEF NULL, Slots
  <1>2. CASE ret = "SLICE"
    <2>0. AtSlice
      BY <1>0, <1>2, SliceShown
    <2>1. /\ delivered' = n /\ due' = IF ~IsB /\ ~lowDelay THEN n ELSE due
      BY <1>2 DEF Show, IsB
    <2>2. n \in 1 .. MaxFrames /\ n > delivered
      BY <2>0 DEF AtSlice, IInv, StreamInv, TypeOK
    <2>3. pictures[Pair].id = n
      BY <2>0 DEF AtSlice, IInv, PicturesInv, Describe
    <2>4. CASE IsB \/ lowDelay
      <3>1. info.display_fbuf = fbuf[0] /\ info.display_picture = Pair
        BY <2>0, <2>4 DEF AtSlice, IInv, InfoInv
      <3>2. out' = Append(out, n)
        BY <1>0, <1>1, <2>0, <2>3, <3>1 DEF AtSlice
      <3>3. lowDelay => due = 0
        BY DEF IInv, DueInv
      <3>4. Order!DecodeB(n) \/ Order!DecodeLowDelay(n)
        BY <2>1, <2>4, <3>2, <3>3 DEF Order!DecodeB, Order!DecodeLowDelay
      <3> QED BY <2>2, <3>4 DEF Order!Next
    <2>5. CASE ~IsB /\ ~lowDelay
      <3>1. due = 0 => info.display_fbuf = NULL
        BY <2>0, <2>5 DEF AtSlice, IInv, InfoInv
      <3>2. due # 0 => /\ info.display_fbuf = fbuf[1]
                       /\ info.display_picture = 2 - Pair
                       /\ due = refs.old
        BY <2>0, <2>5 DEF AtSlice, IInv, InfoInv, DueInv
      <3>3. due # 0 => pictures[2 - Pair].id = due
        BY <2>0, <2>5, <3>2 DEF AtSlice, IInv, PicturesInv, Describe
      <3>4. out' = IF due = 0 THEN out ELSE Append(out, due)
        BY <1>0, <1>1, <2>0, <3>1, <3>2, <3>3 DEF AtSlice
      <3>5. Order!DecodeReference(n)
        BY <2>1, <2>5, <3>4 DEF Order!DecodeReference, Order!Release
      <3> QED BY <2>2, <3>5 DEF Order!Next
    <2> QED BY <2>4, <2>5
  <1>3. CASE ret # "SLICE"
    <2>0. AtEnd
      BY <1>0, <1>3, EndShown
    <2>1. due' = 0 /\ UNCHANGED delivered
      BY <1>3 DEF Show
    <2>2. lowDelay => due = 0 /\ out' = out
      BY <1>0, <2>0 DEF AtEnd, IInv, DueInv
    <2>3. ~lowDelay => due # 0 /\ due = refs.new
      BY <1>0, <2>0 DEF AtEnd, IInv, DueInv
    <2>4. pictures[LastReference].id = refs.new
      BY <2>0 DEF AtEnd, IInv, PicturesInv, Describe
    <2>5. ~lowDelay => out' = Append(out, due)
      BY <1>0, <1>1, <2>0, <2>3, <2>4 DEF AtEnd
    <2>6. Order!EndOfSequence
      BY <2>1, <2>2, <2>3, <2>5 DEF Order!EndOfSequence, Order!Release
    <2> QED BY <2>6 DEF Order!Next
  <1> QED BY <1>2, <1>3

LEMMA StepRefines ==
  ASSUME IInv, ~Damaged, [Next]_vars
  PROVE  [Order!Next]_(Order!vars)
  <1> USE DEF display, Order!vars
  <1> DEFINE Step == Order!Next \/ UNCHANGED Order!vars
  <1>0. SUFFICES Step
    OBVIOUS
  <1>1. ASSUME NEW ld \in BOOLEAN, Sequence(ld) PROVE Step
    BY <1>1 DEF Sequence
  <1>2. ASSUME NEW ld \in BOOLEAN, ChangeSequence(ld) PROVE Step
    BY <1>2 DEF ChangeSequence
  <1>3. CASE RepeatSequence
    BY <1>3 DEF RepeatSequence
  <1>4. CASE Gop
    BY <1>4 DEF Gop
  <1>5. CASE End
    BY <1>5 DEF End
  <1>6. CASE InvalidEnd
    BY <1>6 DEF InvalidEnd
  <1>7. CASE SeekSequence
    BY <1>7 DEF SeekSequence
  <1>8. ASSUME NEW t \in Types, NEW k \in {1, 2}, Picture(t, k) PROVE Step
    BY <1>8 DEF Picture
  <1>9. ASSUME NEW t \in Types, NEW k \in {1, 2}, SecondField(t, k) PROVE Step
    BY <1>9 DEF SecondField
  <1>10. CASE SliceStart
    BY <1>10 DEF SliceStart
  <1>11. ASSUME NEW a \in BOOLEAN, SlicesEnd(a) PROVE Step
    BY <1>11 DEF SlicesEnd
  <1>12. ASSUME NEW c \in Converts, NEW u \in Customs, Setup(c, u) PROVE Step
    BY <1>12 DEF Setup
  <1>13. ASSUME NEW b \in Pool, SetBuf(b) PROVE Step
    BY <1>13 DEF SetBuf
  <1>14. ASSUME NEW s \in Skips, Answer(s) PROVE Step
    BY <1>14 DEF Answer
  <1>15. CASE Show
    BY <1>15, ShowRefines
  <1>16. ASSUME NEW full \in BOOLEAN, Reset(full) PROVE Step
    BY <1>16 DEF Reset, Order!Seek, Order!Next
  <1>17. CASE UNCHANGED vars
    BY <1>17 DEF vars
  <1> QED
    BY NextSplit, <1>1, <1>2, <1>3, <1>4, <1>5, <1>6, <1>7, <1>8, <1>9, <1>10,
       <1>11, <1>12, <1>13, <1>14, <1>15, <1>16, <1>17

-----------------------------------------------------------------------------
(* When the stream loses nothing, for any number of frames and buffers and *)
(* any use of conversion, custom buffers, skipped pictures and resets:     *)
(* the info pointers and mpeg2dec->picture stay inside pictures[0..3] and  *)
(* fbuf_alloc[0..2], and every variable has its type                       *)
(* (mpeg2_header_picture_finalize, mpeg2_set_buf, mpeg2_header_end).       *)
THEOREM BuffersTyped ==
  ASSUME ~Damaged
  PROVE  Spec => []TypeOK
  <1>1. IInv => TypeOK
    BY DEF IInv
  <1>2. IInv /\ [Next]_vars => IInv'
    BY Inductive
  <1> QED BY <1>1, <1>2, Initial, PTL DEF Spec

(* When the stream loses nothing, the rotation of fbuf and the toggling of *)
(* yuv_index give each picture the reference frames that coding order      *)
(* demands (mpeg2_header_picture_finalize, mpeg2_init_fbuf).               *)
THEOREM NewestPredicted ==
  ASSUME ~Damaged
  PROVE  Spec => []PredictsNewest
  <1>1. IInv => PredictsNewest
    BY DEF IInv
  <1>2. IInv /\ [Next]_vars => IInv'
    BY Inductive
  <1> QED BY <1>1, <1>2, Initial, PTL DEF Spec

(* When the stream loses nothing, display_fbuf was rendered to its last    *)
(* field and is what display_picture and display_picture_2nd describe      *)
(* (mpeg2_header_picture_finalize, mpeg2_header_end).                      *)
THEOREM DisplayAlwaysDescribed ==
  ASSUME ~Damaged
  PROVE  Spec => []DisplayDescribed
  <1>1. IInv /\ [Next]_vars => IInv'
    BY Inductive
  <1> QED BY <1>1, Described, Initial, PTL DEF Spec

(* When the stream loses nothing, a buffer returned as discard_fbuf is not *)
(* decoded into, predicted from or displayed before it is given again      *)
(* (mpeg2_header_picture_finalize, mpeg2_set_fbuf, mpeg2_set_buf).         *)
THEOREM DiscardedUnused ==
  ASSUME ~Damaged
  PROVE  Spec => []NoUseAfterDiscard
  <1>1. IInv /\ [Next]_vars => IInv'
    BY Inductive
  <1> QED BY <1>1, Unused, Initial, PTL DEF Spec

(* When the stream loses nothing, an application with three buffers has a  *)
(* free one whenever the library asks for one (doc/sample5.c).  The        *)
(* assumption is needed: the frame of a lost second field is never         *)
(* returned with STATE_SLICE, and its discard_fbuf not seen.               *)
THEOREM ThreeBuffersSufficeUndamaged ==
  ASSUME ~Damaged
  PROVE  Spec => []BufferAvailable
  <1>1. IInv /\ [Next]_vars => IInv'
    BY Inductive
  <1> QED BY <1>1, Available, Initial, PTL DEF Spec

(* When the stream loses nothing, the frames come out in display order:    *)
(* what mpeg2_info reports at STATE_SLICE and at the end of a sequence     *)
(* implements DisplayOrder.                                                *)
THEOREM DisplayOrdered ==
  ASSUME ~Damaged
  PROVE  Spec => DisplayOrderImplemented
  <1>1. Init => Order!Init
    BY DEF Init, Order!Init
  <1>2. IInv /\ [Next]_vars => IInv'
    BY Inductive
  <1>3. IInv /\ [Next]_vars => [Order!Next]_(Order!vars)
    BY StepRefines
  <1> QED
    BY <1>1, <1>2, <1>3, Initial, PTL
    DEF Spec, DisplayOrderImplemented, Order!Spec
-----------------------------------------------------------------------------
(* The display order shows no frame twice: what was shown was decoded, and *)
(* is not held back.                                                       *)
ShownInv ==
  /\ delivered \in Nat /\ due \in Nat /\ due <= delivered
  /\ out \in Seq(Nat)
  /\ \A i \in 1 .. Len(out) : /\ 0 < out[i] /\ out[i] <= delivered
                               /\ out[i] # due

OInv == ShownInv /\ Order!ShownOnce

(* Appending a frame that was neither shown nor will be held back.         *)
LEMMA AppendFresh ==
  ASSUME OInv, NEW f \in Nat \ {0}, NEW d \in Nat, NEW p \in Nat,
         delivered <= d, f <= d, p <= d, p # f,
         \A i \in 1 .. Len(out) : out[i] # f /\ out[i] # p,
         delivered' = d, due' = p, out' = Append(out, f)
  PROVE  OInv'
  <1>1. /\ out' \in Seq(Nat) /\ Len(out') = Len(out) + 1
        /\ \A i \in 1 .. Len(out) : out'[i] = out[i]
        /\ out'[Len(out) + 1] = f
    BY DEF OInv, ShownInv
  <1>2. ShownInv'
    <2>1. ASSUME NEW i \in 1 .. Len(out')
          PROVE  0 < out'[i] /\ out'[i] <= d /\ out'[i] # p
      <3>1. i \in 1 .. Len(out) \/ i = Len(out) + 1
        BY <1>1 DEF OInv, ShownInv
      <3>2. CASE i \in 1 .. Len(out)
        BY <1>1, <3>2 DEF OInv, ShownInv
      <3>3. CASE i = Len(out) + 1
        BY <1>1, <3>3
      <3> QED BY <3>1, <3>2, <3>3
    <2> QED BY <1>1, <2>1 DEF ShownInv
  <1>3. (Order!ShownOnce)'
    BY <1>1 DEF OInv, ShownInv, Order!ShownOnce
  <1> QED BY <1>2, <1>3 DEF OInv

LEMMA OrderInitial == Init => OInv
  BY DEF Init, OInv, ShownInv, Order!ShownOnce

LEMMA OrderInductive ==
  ASSUME OInv, [Order!Next]_(Order!vars)
  PROVE  OInv'
  <1>1. ASSUME NEW f \in 1 .. MaxFrames, f > delivered, Order!DecodeB(f)
        PROVE  OInv'
    <2>1. due \in Nat /\ due < f /\ f \in Nat \ {0}
      BY <1>1 DEF OInv, ShownInv
    <2>2. \A i \in 1 .. Len(out) : out[i] # f /\ out[i] # due
      BY <1>1 DEF OInv, ShownInv
    <2>3. f \in Nat /\ delivered <= f /\ f <= f /\ due <= f /\ due # f
      BY <1>1, <2>1 DEF OInv, ShownInv
    <2>4. delivered' = f /\ due' = due /\ out' = Append(out, f)
      BY <1>1 DEF Order!DecodeB
    <2> QED BY <2>1, <2>2, <2>3, <2>4, AppendFresh
  <1>2. ASSUME NEW f \in 1 .. MaxFrames, f > delivered, Order!DecodeReference(f)
        PROVE  OInv'
    <2>1. CASE due = 0
      BY <1>2, <2>1
      DEF Order!DecodeReference, Order!Release, OInv, ShownInv, Order!ShownOnce
    <2>2. CASE due # 0
      <3>1. \A i \in 1 .. Len(out) : out[i] # f /\ out[i] # due
        BY <1>2 DEF OInv, ShownInv
      <3>2. /\ due \in Nat \ {0} /\ f \in Nat /\ delivered <= f /\ due <= f
            /\ f <= f /\ f # due
        BY <1>2, <2>2 DEF OInv, ShownInv
      <3>3. \A i \in 1 .. Len(out) : out[i] # due /\ out[i] # f
        BY <3>1
      <3>4. delivered' = f /\ due' = f /\ out' = Append(out, due)
        BY <1>2, <2>2 DEF Order!DecodeReference, Order!Release
      <3> QED BY <3>2, <3>3, <3>4, AppendFresh
    <2> QED BY <2>1, <2>2
  <1>3. ASSUME NEW f \in 1 .. MaxFrames, f > delivered, Order!DecodeLowDelay(f)
        PROVE  OInv'
    <2>1. \A i \in 1 .. Len(out) : out[i] # f /\ out[i] # due
      BY <1>3 DEF OInv, ShownInv
    <2> QED
      BY <1>3, <2>1, AppendFresh DEF Order!DecodeLowDelay, OInv, ShownInv
  <1>4. CASE Order!EndOfSequence
    <2>1. CASE due = 0
      BY <1>4, <2>1
      DEF Order!EndOfSequence, Order!Release, OInv, ShownInv, Order!ShownOnce
    <2>2. CASE due # 0
      <3>1. \A i \in 1 .. Len(out) : out[i] # due /\ out[i] # 0
        BY DEF OInv, ShownInv
      <3>2. /\ due \in Nat \ {0} /\ delivered \in Nat /\ delivered <= delivered
            /\ due <= delivered /\ 0 <= delivered /\ 0 \in Nat /\ 0 # due
        BY <2>2 DEF OInv, ShownInv
      <3>3. delivered' = delivered /\ due' = 0 /\ out' = Append(out, due)
        BY <1>4, <2>2 DEF Order!EndOfSequence, Order!Release
      <3> QED BY <3>1, <3>2, <3>3, AppendFresh
    <2> QED BY <2>1, <2>2
  <1>5. CASE Order!Seek
    BY <1>5 DEF Order!Seek, OInv, ShownInv, Order!ShownOnce
  <1>6. CASE UNCHANGED Order!vars
    BY <1>6 DEF Order!vars, OInv, ShownInv, Order!ShownOnce
  <1> QED BY <1>1, <1>2, <1>3, <1>4, <1>5, <1>6 DEF Order!Next

(* When the stream loses nothing, no frame is shown twice, whatever        *)
(* pictures, ends of sequences and seeks succeed each other.               *)
THEOREM FramesShownOnce ==
  ASSUME ~Damaged
  PROVE  Spec => []Order!ShownOnce
  <1>1. OInv => Order!ShownOnce
    BY DEF OInv
  <1>2. IInv /\ [Next]_vars => IInv'
    BY Inductive
  <1>3. IInv /\ OInv /\ [Next]_vars => OInv'
    BY StepRefines, OrderInductive
  <1> QED BY <1>1, <1>2, <1>3, Initial, OrderInitial, PTL DEF Spec
=============================================================================
