# libmpeg2 in TLA+

This directory holds TLA+ models of mpeg2dec/libmpeg2, the TLC configurations
that check them and the TLAPS proofs about them.  Paths below are relative to
the repository (`src/` stands for its root).

## The system

libmpeg2 turns an MPEG-1 or MPEG-2 video stream, given in pieces of any size,
into pictures.  It is single threaded and has no callbacks except the colour
conversion hooks: the application calls `mpeg2_parse`, looks at the state it
returns and at `mpeg2_info_t`, reacts, and calls again.  What makes it hard is
not concurrency but that a call may stop at any byte of the stream and must be
resumed there by the next one, that streams may be damaged, and that the
application and the library share a few buffers whose ownership moves with the
returned states.

| Component | State | Operations | Interacts with |
| --- | --- | --- | --- |
| decoder control, `libmpeg2/decode.c` | the stored `action`, `state`, `code`, `shift`, `chunk_buffer` with `chunk_start` and `chunk_ptr`, the tags | `mpeg2_buffer`, `mpeg2_parse`, `mpeg2_seek_header`, `mpeg2_parse_header`, `mpeg2_reset`, `mpeg2_skip`, `mpeg2_slice_region`, `mpeg2_tag_picture` | calls the header handlers and `mpeg2_slice`; driven by the application |
| header parsing, `libmpeg2/header.c` | `new_sequence`/`sequence`, `new_gop`/`gop`, `new_picture`, `ext_state`, the quantizer matrices, `user_data_len` | one handler per header and extension, one `finalize` function per kind of header | called by `mpeg2_parse_header`; sets up the decoder |
| frame buffers, `libmpeg2/header.c`, `mpeg2_set_buf` | `fbuf[0..2]`, `fbuf_alloc`, `pictures[0..3]`, `picture`, `first`, `yuv_index`, the pointers of `mpeg2_info_t` | `mpeg2_set_fbuf`, `mpeg2_header_picture_finalize`, `mpeg2_header_slice_start`, `mpeg2_header_end`, `mpeg2_header_state_init` | buffers are given and taken back by the application |
| slices, `libmpeg2/slice.c`, `vlc.h` | `mpeg2_decoder_t`: position, motion predictors, bit buffer, DCT block | `mpeg2_init_fbuf`, `mpeg2_slice` | motion compensation and inverse transform |
| kernels: `idct*.c`, `motion_comp*.c`, `convert/` | tables | pure functions of their inputs, except the slice counters of the converters | called through function pointers chosen from `cpu_accel.c` |
| player, `src/mpeg2dec.c` | demultiplexer state in static variables, the output | `decode_mpeg2`, `demux`, `pva`, `ts_loop` | calls libmpeg2, libvo |
| output, `libvo/` | the frames of each driver | `setup`, `set_fbuf`/`setup_fbuf`, `draw`, `discard` | called by the player |
| tools, `src/extract_mpeg2.c`, `src/corrupt_mpeg2.c`, `src/dump_state.c`, samples in `doc/` | as the player | as the player | |

What is hard, and where, is the list `hazards` of PROJECT.json.  In short:
resuming anywhere (`action`, `chunk_ptr`), successions of headers that no valid
stream has, resets at any returned state, the two mechanisms of frame
management that must agree (rotation of `fbuf`, choice among `pictures`) in
four modes of buffer ownership, and the arithmetic of positions and motion
vectors at the edges of a picture.

### What makes each component correct

* decoder control: the result does not depend on how the stream was cut; the
  chunk buffer never overflows; slices are only decoded inside a picture with
  buffers of its geometry; a call returns, and calls make progress.
* frame buffers: a picture is never decoded into a buffer it or the next
  picture is predicted from; predictions use the right frames; what is
  displayed is complete, in display order, each frame once; a buffer given
  back is not used any more, and three buffers are always enough.
* slices: every bit is read from its place, positions stay in the picture, the
  coefficient block and the predictors are what the standard says when the next
  macroblock begins, and the state of the floating point unit is given back.
* macroblocks: prediction blocks stay in the reference picture, what is written is
  exactly the macroblock, and a field is never predicted from itself.
* kernels: the functions of every processor compute what those in C compute
  and load nothing else.
* player: the elementary stream does not depend on how the file was read.

## Modules

| Module | Models | Checked with |
| --- | --- | --- |
| `Parser` | `decode.c` and the control of `header.c` | `MCParser`, `Parser.cfg`, `ParserLive.cfg`, `ParserReset.cfg` |
| `ParserProofs` | theorems about `Parser` | tlapm |
| `PictureBuffers` | frame buffers, pictures and `mpeg2_info_t` | `MCPictureBuffers`, `PictureBuffers.cfg`, `PictureDamage.cfg` |
| `PictureBuffersProofs` | theorems about `PictureBuffers`: for any stream, and for streams that lose nothing | tlapm |
| `DisplayOrder` | the abstract promise that `PictureBuffers` implements | as a property of `PictureBuffers.cfg` |
| `Tags` | `mpeg2_tag_picture` and the choice of tags in `mpeg2_header_picture` | `Tags.cfg` |
| `TagsProofs` | theorems about `Tags` | tlapm |
| `QuantTables` | quantizer matrices and the tables made of them | `MCQuantTables`, `QuantTables.cfg` |
| `QuantTablesProofs` | theorems about `QuantTables` | tlapm |
| `BitReader` | `bitstream_buf`, `bitstream_bits` and the macros of `vlc.h` | by `Slice` |
| `VlcTables` | the tables of `vlc.h` | by `Slice` |
| `Slice` | `mpeg2_slice` and what it parses | `MCSlice`, `Slice.cfg` |
| `SliceProofs` | theorems about `Slice` | tlapm |
| `Macroblock` | the motion routines and the blocks of a macroblock: addresses | `MCMacroblock`, `Macroblock.cfg`, `Macroblock444.cfg` |
| `MacroblockProofs` | theorems about `Macroblock` | tlapm |
| `KernelOps` | the language the next modules are written in | by `Kernels` |
| `ScalarKernels`, `MmxKernels`, `AltivecKernels`, `VisKernels` | `motion_comp.c`, `_alpha`, `_arm_s.S`; `_mmx`; `_altivec`; `_vis` | by `Kernels` |
| `KernelMeans` | the arithmetic of samples and the means that are stored | by `Kernels` |
| `KernelMeansProofs` | theorem about `KernelMeans` | tlapm |
| `Kernels` | a call of any function of `mpeg2_mc_t` | `Kernels.cfg` |
| `Demux` | the demultiplexers of `mpeg2dec.c` and `extract_mpeg2.c` | `MCDemux`, `Demux.cfg` |

`Parser` calls `mpeg2_slice` as one step, `Slice` models what it does, `Macroblock`
which samples a macroblock of it touches, and `Kernels` what the functions do
with these; `PictureBuffers` says which frames the samples belong to.  `Demux` produces
what `Parser` consumes.  `QuantTables` and `Tags` are parts of the
headers that `Parser` reduces to their effect on control.

Definitions marked as mutants are wrong on purpose: each is a plausible bug in
one definition that makes one property fail, which shows that the property
depends on the code it is about.

### Parser

A call of `mpeg2_parse` is a run of steps between two values "app" of `pc`;
`pc` names the function or loop that runs (`seek_chunk`, `seek_header`,
`parse_header`, `process` and `transition` for the two halves of its body,
`slices` for the slice loop of `mpeg2_parse`, ...), and `action` is the stored
continuation.  The steps inside a call follow the calls and early returns of
the C code, one action per exit.

The bytes of the stream are not stored.  A start code is chosen when it is
found: `scanned` counts the bytes since the last one, saturating just above
`BufferSize`, and a start code can be complete when more than `Prefix` bytes
were scanned (three zero-zero-one bytes and the code itself, because `shift` is
reset at every start code).  So every stream and every cut is explored, and the
number of bytes in `chunk_buffer` can be compared with `scanned`.  The contents
of a header are reduced to what control depends on: the geometry of a
sequence (the fields that force a restart in `mpeg2_header_sequence_finalize`),
which extension it is and whether it is still expected, `nb_fields`, and
whether the handler rejects it.  `code` and `state` keep the values of the code,
with the slice codes reduced to the first and "another" one.

The application buffers, parses, skips or restricts slices at
STATE_SEQUENCE and STATE_PICTURE, and resets at the states in `ResetAt`.

Runs:

* `parser`: `BufferSize` 4, buffers of one and two bytes, two geometries
  (symmetric).  One byte at a time is the finest cut; with two, one buffer
  holds the end of one chunk and the beginning of the next.  A chunk buffer of
  four bytes is enough for a header with user data and an extension behind it
  and for overflows of each; 4.4 million states.
* `parser_live`: a chunk buffer of two bytes and one geometry, with weak fairness
  of the library's steps (a call runs to its return) and of `Parse` (the
  application calls again); nothing forces new buffers or resets.  Checks that
  calls return and buffers drain.
* `parser_reset`: a disagreement between the code and its documentation; see
  Findings.

`GeometryAgrees` holds when the application does not call
`mpeg2_reset(mpeg2dec, 0)` directly after STATE_INVALID_END (the finding shows
that this is needed), and `SliceIsWhole` as long as the parser is not
resynchronising (see Limits).

### PictureBuffers and DisplayOrder

One step of the library is what happens from one returned state to the next
(the finer steps are in `Parser`).  Frames are numbered in coding order, and
history variables record what was rendered where: `content` and `yuv` for the
buffers, `refs` for the newest two reference frames, `whole` for frames decoded to
their last field, `held` for the buffers the application gave away.  `convert`,
`custom`, `lowDelay` and `skip` are the modes of the code.  The application is
that of `doc/sample5.c` (own buffers) or the player (library buffers).

`Damaged` streams may lose any header and mix types of fields; streams that are
not damaged start with an I frame, put B frames after two references (or one, after a
seek or in an open group of pictures) and complete every frame.

`DisplayOrder` says what the application sees: B frames at once, a reference
frame when the next one or the end of the sequence releases it, none twice.
`PictureBuffers` implements it with `decoded <- delivered`, `pending <- due`;
`out` is the list of pictures described by `display_picture` at STATE_SLICE,
STATE_END and STATE_INVALID_END.

Runs:

* `picture_buffers`: four frames or field pairs, all modes.  Four frames
  exhaust the three slots and the two pairs of pictures, in every
  order of types, and a fifth changes nothing in which slots can be in use.
* `picture_damage`: three frames with any damage, the fewest that use all three
  slots, in the mode where the application asks for each buffer (the slot of a
  picture is then chosen later, by `mpeg2_set_buf`; the other mode is covered by the
  theorems).  `CHECK_DEADLOCK` is off, as the application of sample5.c exits
  when it has no free buffer.

### Tags

`mpeg2_tag_picture` may be called between any two calls of `mpeg2_parse`, that
is at any byte of the stream; the tag of a picture is chosen when its header is
complete.  `pos` is the position in the stream, which the library does not
know; it has `bytesSinceTag`, increased by every way of consuming bytes, and
the two tags `tagCurrent` and `tagPrevious`.  `setAt`, `start`, `decided` and
`expected` are histories that state which tag a picture should get.  What
`Parser` calls headers other than a picture's, slices and skipped chunks are all
"scan" here.  A step consumes one byte, so that buffers of every length are
covered.

Run: `tags` with sixteen bytes, a chunk buffer of five and three tags: two
pictures with a start code of another kind between them, the two tags the library
remembers and one more.

### QuantTables

A matrix is a value, and an entry of `table` records the matrix and scale that
`prescale` computed it from.  `load` and `inForce` are histories that say what the
headers mean, without caches: matrices stay until others are loaded, and a matrix for
luma is one for chroma too unless that is loaded as well.  Any header may be
lost or abandoned between its handler and its `finalize` function.  B
pictures, which use the tables of P pictures, are left out.  Matrices of zeros,
which are forbidden, are excluded: `mpeg2_init` clears `quantizer_matrix` but not
`scaled`, so that such a matrix would not be noticed as a new one.

Run: `quant_tables`, the two default matrices and the two scales.  Extensions
load matrices 1 and 3 only (`Loaded`), the pair that I pictures leave stale;
pairs do not influence each other, and the theorem is about all of them.

### BitReader, VlcTables and Slice

An action of `Slice` is the parsing of one syntax element, or of one coefficient,
with all that the code does on account of it.  The stream decides which code is
found: every entry of the table that the code looks in may be.  `todo` holds the
elements still to come of this macroblock, in the order in which
`motion_parser`, the pattern and the blocks read them.

The bit buffer keeps `bitstream_bits`, the number of stream bits that are at the
top of `bitstream_buf`, and `ok`, whether each look and each word so far was in
place; the code counts and shifts separately (`Count`, `Shift`), sometimes with a
`NEEDBITS` between, and this is where it could go wrong.  Of a
block it is kept which coefficients may differ from zero (`filled`); of a
predictor whether it is reset.  `x` and `y` count macroblocks; `row` is the row
`dest` points to, which differs from `y` when the output has one row only.
`from`, `converted`, `prev` and `wrapped` are histories.

The five block parsers share their structure, and `Codes`, `Coefficient`, `FallThrough`,
`Escape`, `EndOfBlock` and `Illegal` stand for all of them.  A code whose run leaves the
block ends it, except where it was found in DCT_B14_8 or DCT_B15_8: control falls through
to the escape code, which adds six more bits and takes off a whole block, so that `i`
may come back into the block, ahead of where it was or behind (`FallThrough`).  The
escape code and the end of block code of DCT_B15_8 are entries of these tables with very long
runs, and the same lines.  `wrapped` says that this led back to the first
coefficient in a block of which something is still there.

The break marked "Illegal!" for a motion type (slice.c:1889) cannot be reached,
as the type is two bits; it would leave the macroblock without restoring the cpu
state.  A valid stream has `f_code` at most 9 and 5, in MPEG-1 7 (one less in the decoder):
that is an assumption of `BitsInOrder`, because longer deltas do not
fit in the bits a `NEEDBITS` leaves.

Run: `slice`, a picture of two by two macroblocks, so that a slice starts in
any row, leaves the row, and skips past the end; blocks of three coefficients with
runs up to two, so that a run fits, ends exactly at the last coefficient, and
leaves the block, with each of the two outcomes of `FallThrough`; the least and greatest
`f_code` with one between; and six kinds of pictures which between them have every coding type, frames and fields,
concealment vectors, both intra tables, two chroma formats, conversion, MPEG-1,
and tall pictures.  Half a million states.

### Macroblock

Addresses are numbers, as in the source: row * stride + column in the planes of the
whole frame.  One action per motion routine; `calls` is what it asked of the
functions in `mpeg2_mc` or of the inverse transform.  The macros MOTION_420,
_422 and _444 (and those for fields, DMV and zero vectors) are one operator each with the
chroma format as a case.  Predictors need not be tried: what a routine uses is the
bounded sum of predictor and delta, which is any vector of `Vectors`.
A height below 16 lines of a field would wrap `limit_y`, but heights of
interlaced sequences are multiples of 32.

Runs:

* `macroblock`: a frame of two by four macroblocks, the smallest with an inner
  edge in frames and fields, and vectors that pass each edge and land on each
  position of the half sample grid; 50 thousand states.
* `macroblock_444`: see Findings.  4:4:4 pictures are checked in this run only:
  besides the finding, `mpeg2_init_fbuf` halves the chroma offset of a bottom field in
  every format, which is wrong for 4:4:4, so `macroblock` has the other two.

### Kernels

All functions of `mpeg2_mc_t`, in C, MMX, MMXEXT, 3DNow!, AltiVec, Alpha, VIS and
for ARM, are programs in a small language (`KernelOps`): a prologue, a loop
body and an epilogue of loads, register assignments, stores and pointer
increments, in the order of the source.  A register stands for a row
of samples and holds the expression for one of them, because the functions treat
all samples of a row alike.  `Kernels` runs a program for a block: `Prologue`,
`Iterate`, `Epilogue`.  The properties compare what is stored in a row with the
macros of `motion_comp.c`.  Unused functions are left out, and so is the
prefetching of AltiVec (`vec_dst`).

`KernelMeans` has what the instructions do to bytes (`Apply`), what the macros in C
promise (`Predicted`), and every mean that some processor stores (`Forms`): by bits, in
lanes of sixteen bits, as a corrected mean of means, in parts of six and two bits, weighted with
dest.

Run: `kernels`, all processors and functions, the three heights in use and all sixteen
alignments.  A function has no other input that its control depends on, so the run is
exhaustive: `RowsPredicted` and `ReadsBlock` hold for every call.  `RoundsLikeC`
says that what is stored is one of `Forms`, which `EveryFormRounds` proves to be the C
function's mean for samples of any value, and evaluates it for samples 0, 1 and 255.

### Demux

The bytes of a file are real, because headers are told apart by them; the file
is read in pieces of one size.  Pointers are offsets in the file.  An action is one
`NEEDBYTES` or what lies between two; `need` says how many bytes of a header
are wanted and why.  `head_buf`, `state` and `state_bytes` are the static
variables.  `tags` tells `mpeg2dec`, which calls `mpeg2_tag_picture`, from
`extract_mpeg2`, which has the same functions otherwise.
`ElementaryStream` is what a reader that sees the file in one piece passes on.

`EndsEverywhere` rests on weak fairness of `Next`: nothing else runs in the
program, so a step that can be taken is taken.  A signal, which ends the loops
early, is left out.

Run: `demux`, files of each kind with every kind of header, stuffing and time
stamps, false starts, packets cut by the end of the file, and payloads that look
like headers; twenty-two sizes from one byte to more than the file, with transport
packets of sixteen bytes.  With these sizes every header is cut at every byte.

`extract_mpeg2` falls from `pva_loop` into `ps_loop` at the end of the file, which is
harmless.  A transport packet that starts a unit and has no payload starts
nothing: `state` becomes `DEMUX_SKIP` with the next packet, so the header that the
packet brings is not seen.  The reference says the same.

## Limits of the properties

Some things a reader may expect do not hold, for reasons the code leaves to the
stream or the application; the properties say only what does.

* `SliceIsWhole` speaks of slices while `action` is not `seek_chunk`: after an illegal
  start code or an overflow inside a picture the slice loop goes on with that
  action, and if STATE_BUFFER then interrupts a slice, its rest is skipped and its
  beginning is left in front of the next one.
* `BufferAvailable`, and the theorem about it, is about streams that lose nothing: the frame
  of a lost second field is never returned with STATE_SLICE, its `discard_fbuf` is
  not seen, and the application of sample5.c runs out of buffers.
* `DisplayDescribed` is about sequences that have a picture: one that ends (or a
  stream that is sought in) before its first picture hands out
  a `display_fbuf` that was never rendered.
* `TagsFollowPictures` is about pictures whose header has at most one tag in it: with
  two, the picture gets the first of them although it was set after the picture's start.
* With own buffers and `convert` or `low_delay`, one buffer of those given at
  STATE_SEQUENCE is never discarded; three are enough nevertheless (`ThreeBuffersSufficeUndamaged`).

* `BlockClear` excepts blocks after a way back to the first coefficient (`wrapped`).  At
  coefficient 62 of an inter block, a code of DCT_B14_8 with run 2 leaves the block, and
  with six zero bits behind its first six it is an escape code that sets coefficient 0 once more.
  An end of block code then gives `last` 129, and unless the first coefficient is near half a
  level `mpeg2_idct_add` (idct.c:195-220) clears `block[0]` and `block[63]` only: the
  others stay until a block is transformed whole.  Such codes are errors in the
  stream; `SliceTypeCorrect` shows that nothing is written outside the block all the same.
* `PredictsNewest`, `DisplayDescribed`, `NoUseAfterDiscard` and `DisplayOrderImplemented` are
  about streams that lose nothing too; of damaged ones `TargetIsFree` and `SecondFieldFits` speak.
* `CallsReturn` and `InputDrains` are checked with one geometry, where STATE_INVALID_END
  does not occur; that its steps use up input as well is the theorem `EveryCallUsesUp`.

## Proofs

`ParserProofs` proves, for every `BufferSize`, `MaxInput`, set of geometries and
application, that `Parser` keeps its type invariant (in particular that
`chunk_ptr` stays inside `chunk_buffer`) and all its safety properties.

The assumptions are those of `Parser`: a start code prefix of at least one byte
that fits in the buffer, `NoSequence` not a geometry, and the regions and
extensions being what their names say.

The properties are not inductive.  `IInv` adds:

* `ControlInv`: which stored action belongs to which function, and which
  returned state leaves which action;
* `ChunkInv`: the number of bytes between `chunk_start` and `chunk_ptr` at every place
  where control can be, inside and between calls (equal to `scanned` while a
  header is collected, zero when a slice region is skipped, ...);
* `SetupInv`: sequence and buffers exist once a picture was finalized, and
  buffers always belong to the sequence;
* `ExtensionInv`: `ext_state` belongs to the header that is being continued.

`OneGeometry` needs `DecoderInv` besides, and the assumption that there is no
reset at STATE_INVALID_END.  Each lemma has a step per action and, under it, a
step per conjunct.  TLC checked `IInv` as an invariant first.

`EveryCallUsesUp` is what `CallsReturn` and `InputDrains` need besides fairness.  `Place` is how
far the function that runs, or runs next, is at most from where bytes are consumed (a header
that was collected, 9; ...; a search for a start code, 0; one more between two calls).  Every
step of the library and every call of it lowers the pair of `input` and `Place`, or returns
STATE_BUFFER as there is no input: no cycle of functions called or of states returned
leaves the input in place.  That such a step is possible and taken is left to TLC.

`PictureBuffersProofs` proves `TargetIsFree` and `SecondFieldFits` for any stream,
damaged or not, any `MaxFrames` and `Pool` and any set of modes.  The invariant
is `FInv`:

* `SlotInv`: `fbuf[1]` and `fbuf[2]` are always two different slots, and
  `fbuf[0]` a third one, or NULL while STATE_PICTURE waits for `mpeg2_set_buf`.
  `TargetIsFree` alone says nothing between two pictures, so it does not
  survive the rotation that the next picture begins with.
* `PairInv`: `picture` is the first of a pair from the header of a frame to its
  first slices; this is what `state` STATE_SLICE_1ST stands for.

It rests on the lemma that `FreeSlot`, the search in `mpeg2_set_fbuf`, finds a slot
for any two different prediction slots.

`PictureBuffersProofs` proves the other properties of the run `picture_buffers` for
streams that lose nothing (`~Damaged`, the one assumption besides those of the module),
any `MaxFrames`, any `Pool` with three buffers or more and any modes: `TypeOK`,
`PredictsNewest`, `DisplayDescribed`, `NoUseAfterDiscard`, `BufferAvailable`, and
with `DisplayOrdered` that `PictureBuffers` implements `DisplayOrder`: initial states map to
initial states and each step to a step or a stutter.  The properties speak of the moment
at which a frame is predicted from, displayed or given back.  `IInv` says where each frame
that is still needed is in the meantime, from its header to its last slice and on to the next:

* `ControlInv` and `StreamInv`: which action and state go together, and which frames
  there can be by then;
* `HeldInv` and `ApartInv`: which buffers of the application are in the slots, that it has given
  no other (at most one more in the modes that forget one, see Limits), and that the
  present frame is not rendered into one that is still needed;
* `ContentInv`, `WholeInv` and `YuvInv`: the newest two references are in the slots, or the
  library's own planes, from which they are predicted, and complete;
* `PicturesInv` and `InfoInv`: which entries of `pictures` describe a frame, and
  what `mpeg2_info_t` says while the frame is decoded;
* `DueInv`: which reference frame waits to be displayed.

Its steps are in three groups: those that leave frames alone (`Quiet`), those after
which there are none (`Fresh`: sequences, resets), and those that begin, continue and render
a frame; a lemma for each group shows what it does to all parts together.  TLC checked
`IInv` with three and four frames before it was proved.

`FramesShownOnce` follows from the same invariant: no frame is shown twice (`ShownOnce` of
`DisplayOrder`).  `ShownInv` adds that what was shown was decoded and is not the frame
that waits to be shown, so what a step appends is new.

`TagsProofs` proves `TagsFollowPictures` and `TypeOK` for any length of stream,
number of tags and size of the chunk buffer.  `TInv` adds that the library's two
tags are the last two and `bytesSinceTag` is the distance to the last
(`MemoryInv`), where the header lies (`HeaderInv`), and that `num_tags` counts the
undecided tags (`PendingInv`), which stops being true at a crowded header.

`QuantTablesProofs` proves `TablesInForce` and `TypeOK` for any matrices other than
the cleared one and any scales other than the marker -1.  `QInv` adds that a table
with a known scale is of the present matrix (`CacheInv`), that copied matrices
are those in force (`ForceInv`), that `copy_matrix` tells what the header loaded
(`LoadInv`) and that tables in use have the picture's scale (`ScaleInv`).

`SliceProofs` proves all properties of the run `slice` and its `TypeOK`, for every size
of picture, every number of coefficients and longest run, every set of pictures
and all `f_code` of valid streams.  `IInv` is the conjunction of

* `TypeOK`;
* `PositionInv`: where `x`, `y` and `row` are at each place of control, with the last
  position, `x = Width`, `y = Rows`, of a slice that filled the picture;
* `BitsInv`: how many bits are left in the buffer at each place, which is what makes
  the next look succeed: `BitsInOrder` alone forgets it;
* `BlockInv`: nothing is set before a block's first coefficient and nothing but the first
  right after it, unless `wrapped`; `i` does not bound the coefficients that are set, since a run
  out of the block can lead back, but in inter blocks `last` is 129 only where `i` is 0 (`CodeMoves`), which
  decides what the short cut of `mpeg2_idct_add` may leave;
* `PredictorsInv`: what is reset while the macroblock is still being parsed, before
  `prev` speaks of it.

The lemma `ElementGood` shows that every syntax element, with every code of its
table, leaves a good buffer.

`MacroblockProofs` proves all properties of the run `macroblock` and `TypeOK` for
pictures of any width and height, any vectors and every `f_code` of valid streams, in 4:2:0 and
4:2:2 (`Formats \subseteq {0, 1}` is an assumption of the theorems: in 4:4:4 the code is wrong,
see Findings).  The invariant `IInv` is small, as `calls` is made anew by each routine:
`PictureInv`, that the position is in the picture and a multiple of 16 and the
predictor a pair of vectors, and `Sound`, which is the properties said of any set of calls.
The work is in one step, and goes in four stages:

* `DivideRow`: row * width + column has that row and that column, if the column
  is one.  With it the addresses of the source become rows and columns.
* `MotionPredicts`, `FieldPredicts`, `ZeroPredicts`: the three macros in each format ask for
  the same thing, `Predictions`: a block of every k-th line, displaced by a vector
  that `Fits`, which is what the clamping of `pos_x` and `pos_y` leaves.
* `PredictedInside`, `PredictedFollows`, `PredictedOtherField`: the properties of
  `Predictions` that need no other call.
* `FrameTiles`, `FieldTiles`, `HalfTiles`, `BlocksTile`: strips of lines that alternate
  (`Interleave`) or follow each other (`Stack`) make up the macroblock.

Then one lemma for each motion routine (`FrFrameSound` to `FiDmvSound`) and one for the
blocks of coefficients shows that it leaves `Sound` calls.

`DemuxProofs` proves `TypeOK` and `AsInOnePiece` for any files, pieces of any size and
transport packets of five bytes or more (the assumptions of `Demux`).  The idea is in
`StreamInv`: what was passed on, followed by what is `Ahead`, is the elementary stream
of the file.  What is ahead is told by the variables alone, in four ways:

* `AheadOfCall`: between two calls of `demux` or `pva_demux`, the rest of the packet that
  `state_bytes` counts, or the header that begins in `head_buf`, and what follows in the file;
* `AheadInHeader`: at a `NEEDBYTES`, what the reference passes on from the first byte of
  the header on;
* `AheadOfUnit` and `AheadInUnit`: in a transport stream, the packet of video begun with what
  later transport packets add to it, and those that start later.

It holds because of

* `PlaceInv` and `TypeInv`: where each loop can be, and that pointers stay in what was read;
* `HeaderInv`: bytes kept in `head_buf` are the beginning of a header that has more bytes
  (`Waits`), and each `NEEDBYTES` knows of the header what `Parsed` says, so that it
  fits into `head_buf`.  This is what `TypeOK` lacks to be inductive;
* `PieceInv`: except in transport streams, the bytes in `head_buf` are those just
  before `buf` in the file, also when the code keeps the last three (or one) of them
  after a false start.

The proof goes in four parts:

* `ParsedExtends`, `ParsedWaits`, `CompleteExtends`: more bytes do not change what the
  first ones say of a header.
* `RemainingIs`: the reference is a function that is defined by what it is at later
  bytes.  That one exists is shown for the last byte and then for each byte before it.
  This is an induction over the file; as the library's induction theorems cannot be
  used here, it takes the least element of a set of numbers (`LeastNatural`,
  `DownInduction`), which exists because `<` is well-founded on the naturals.
* `PackHeaderIs`, `PesHeaderIs`, `PesPacketIs`, `PvaHeaderIs`, `PvaPacketIs` and their like:
  each action told by the bytes of the header, wherever they are.
* A lemma for each action and kind of stream (`SwitchPiecewise`, `ContentsPiecewise`,
  `PacketUnits`, ...) which takes off the front of `Ahead` what the action appends to `sent`.

TLC checked the parts of the invariant on the files of the run `demux` first.

`EveryStepUsesUp` is what `EndsEverywhere` needs besides fairness: each step lowers `Left`, six
natural numbers in lexicographic order, so none of the loops can go round without end.
They are the bytes still to read or to look at (`ToRead`); the place in the loop (`Stage`); and, at
a `NEEDBYTES`, the bytes left in the buffer, whether a header begun is still in `head_buf`,
what more can be asked for of it (`Rank`), and how many bytes of it are kept.  It uses the invariants above and
`BufferInv`: `ts_loop` never goes back in the file, as its buffer holds most of two packets.

`KernelMeansProofs` proves `EveryFormRounds`: each of the `Forms` has the value of the C macro
for all 256 values of each sample.  It speaks of any `f` that `Evaluates` expressions, that is
gives each the value that `Apply` makes of those of its operands, because the recursive
`Value` of `Kernels` is beyond the provers.  Three groups of lemmas: what each operation makes of
its operands (`OfAvg` to `OfHigh`); arithmetic (`XorParity`, `BitMeans`: a mean by bits
rounds up, from the parity of an exclusive or; `PartsOfSum`); the value of each form
(`Means2Value`, `Means4Value`, `Weighted2Value`, `Weighted4Value`).  No lane overflows and
nothing saturates on the way.

Only model-checked: the liveness properties (`CallsReturn`, `InputDrains`,
`EndsEverywhere`), as TLAPS does not handle fairness (what makes them hold, `EveryCallUsesUp` and
`EveryStepUsesUp`, is proved); the properties of `Kernels`, which
evaluates expressions by recursive operators, over all calls there are.

## Findings

1. `GeometryAgreesAfterReset` (run `parser_reset`): `mpeg2_reset (mpeg2dec, 0)`
   at STATE_INVALID_END drops `invalid_end_action`; the decoder has the new
   geometry, the buffers the old one.
2. `WritesTile444` (run `macroblock_444`): MOTION_ZERO_444 predicts the chroma
   planes with the function for blocks eight wide, where they are sixteen.

## Not modelled

* The values of coefficients and of the inverse transform (`idct*.c`), and the
  colour conversion (`convert/`): data, without control.  What they do to buffers and
  blocks is in `Slice` and `PictureBuffers`.
* `alloc.c`: aligned blocks handed out once.  `cpu_accel.c`, `cpu_state.c`: processor
  detection and a register save; which of its callers restores it is in `Slice`.
* The drivers of `libvo/`: their calls are in `PictureBuffers`, their displays are
  other systems.
* The values of time stamps (`src/mpeg2dec.c:557` reads the last byte of an MPEG-1
  decoding time stamp from `ptsbuf[18]`, where the field ends at `ptsbuf[8]`), and
  buffers of less than two transport packets (option -b), for which `ts_loop`
  copies overlapping memory by `memcpy`.
* Option parsing, printing, `corrupt_mpeg2.c` and the vendored `getopt.c`.

## Plan

In this order:

1. `Allocation`: `mpeg2_header_state_init`, `alloc_index` and the buffers of
   the converters: nothing leaked, nothing freed twice.
2. The composition of `Parser` and `PictureBuffers`, and the X11 driver.
3. The slice counters of the converters, and time stamps from the file to the picture.
