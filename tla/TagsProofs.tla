----------------------------- MODULE TagsProofs -----------------------------
(***************************************************************************)
(* Pictures get the tags set before them, for any number of bytes and tags *)
(* and any size of the chunk buffer.                                       *)
(***************************************************************************)
EXTENDS Tags, TLAPS

(* The two tags the library knows are the last two, and bytes_since_tag    *)
(* measures the distance to the last one.                                  *)
MemoryInv ==
  /\ tagCurrent = Len(setAt)
  /\ tagPrevious = IF Len(setAt) = 0 THEN 0 ELSE Len(setAt) - 1
  /\ \A k \in 1 .. Len(setAt) : setAt[k] <= pos
  /\ \A j, k \in 1 .. Len(setAt) : j <= k => setAt[j] <= setAt[k]
  /\ Len(setAt) > 0 => bytesSinceTag = pos - setAt[Len(setAt)]

(* chunk_buffer holds the picture header from behind its start code.       *)
HeaderInv ==
  /\ scanned <= pos
  /\ pc = "header" => pos = start + Prefix + 1 + chunk

(* num_tags counts the tags that are still to be given to a picture.       *)
PendingInv == ~crowded => numTags = Len(setAt) - decided

TInv == TypeOK /\ MemoryInv /\ HeaderInv /\ PendingInv /\ TagsFollowPictures

-----------------------------------------------------------------------------
LEMMA TagsInitial == Init => TInv
  <1>1. <<>> \in Seq(Nat) /\ Len(<<>>) = 0
    OBVIOUS
  <1> SUFFICES ASSUME Init PROVE TInv
    OBVIOUS
  <1>2. TypeOK
    <2>1. /\ setAt \in Seq(Nat) /\ 0 .. Len(setAt) = {0}
          /\ chunk \in 0 .. BufferSize
      BY <1>1, TagsAssumption DEF Init
    <2> QED BY <2>1 DEF Init, TypeOK
  <1>3. MemoryInv /\ HeaderInv /\ PendingInv /\ TagsFollowPictures
    BY <1>1 DEF Init, MemoryInv, HeaderInv, PendingInv, TagsFollowPictures
  <1> QED BY <1>2, <1>3 DEF TInv

(* mpeg2_header_picture finds the right tag, if its header is not crowded. *)
LEMMA HeaderFinds ==
  ASSUME TInv, NEW picture \in BOOLEAN, HeaderFound(picture), ~crowded'
  PROVE  tag' = expected' /\ numTags' = Len(setAt) - decided'
  <1> DEFINE K == Len(setAt)
  <1>1. PICK m \in 0 .. K : /\ LastBefore(m) /\ decided' = m
                            /\ expected' = IF m = decided THEN 0 ELSE m
    BY DEF HeaderFound
  <1>2. /\ K \in Nat /\ decided \in 0 .. K /\ start \in Nat /\ m \in Nat
        /\ \A k \in 1 .. K : setAt[k] \in Nat
        /\ tagCurrent = K
        /\ K > 0 => tagPrevious = K - 1
    BY <1>1 DEF TInv, TypeOK, MemoryInv
  <1>n. numTags = K - decided
    <2>1. ~crowded
      BY DEF HeaderFound
    <2> QED BY <2>1 DEF TInv, PendingInv
  <1>3. /\ decided <= m
        /\ m # decided => setAt[m] <= start
        /\ \A k \in m + 1 .. K : setAt[k] > start
    BY <1>1, <1>2 DEF LastBefore
  <1>4. \A j, k \in 1 .. K : j < k => setAt[j] <= start
    <2>1. ~(crowded \/ \E j, k \in DOMAIN setAt : j < k /\ setAt[j] > start)
      BY DEF HeaderFound
    <2>2. DOMAIN setAt = 1 .. K
      BY DEF TInv, TypeOK
    <2>3. \A j, k \in DOMAIN setAt : ~(j < k /\ setAt[j] > start)
      BY <2>1
    <2>4. \A j, k \in 1 .. K : ~(j < k /\ setAt[j] > start)
      BY <2>2, <2>3
    <2> QED BY <1>2, <2>4
  <1>5. K > 0 => (AfterTag(bytesSinceTag', chunk + 1) <=> setAt[K] <= start)
    <2>1. /\ pos = start + Prefix + 1 + chunk
          /\ bytesSinceTag' = bytesSinceTag + 1
          /\ K > 0 => bytesSinceTag = pos - setAt[K]
          /\ chunk \in Nat /\ pos \in Nat
      BY TagsAssumption
      DEF TInv, TypeOK, MemoryInv, HeaderInv, HeaderFound
    <2> QED BY <1>2, <2>1 DEF AfterTag, Prefix
  <1>6. CASE numTags > 0 /\ AfterTag(bytesSinceTag', chunk + 1)
    <2>1. K > 0 /\ setAt[K] <= start /\ decided < K
      BY <1>2, <1>n, <1>5, <1>6
    <2>2. m = K
      BY <1>2, <1>3, <2>1
    <2> QED BY <1>1, <1>2, <1>6, <2>1, <2>2 DEF HeaderFound
  <1>7. CASE ~(numTags > 0 /\ AfterTag(bytesSinceTag', chunk + 1)) /\ numTags > 1
    <2>1. K > 1 /\ setAt[K] > start /\ decided < K - 1 /\ setAt[K - 1] <= start
      BY <1>2, <1>n, <1>4, <1>5, <1>7
    <2>2. m = K - 1
      BY <1>2, <1>3, <2>1
    <2> QED BY <1>1, <1>2, <1>7, <2>1, <2>2 DEF HeaderFound
  <1>8. CASE ~(numTags > 0 /\ AfterTag(bytesSinceTag', chunk + 1)) /\ ~(numTags > 1)
    <2>1. m = decided
      <3>1. CASE decided = K
        BY <1>2, <1>3, <3>1
      <3>2. CASE decided = K - 1
        BY <1>2, <1>n, <1>3, <1>5, <1>8, <3>2
      <3> QED BY <1>2, <1>n, <1>8, <3>1, <3>2
    <2>2. tag' = 0 /\ numTags' = numTags
      BY <1>8 DEF HeaderFound
    <2> QED BY <1>1, <1>n, <2>1, <2>2 DEF HeaderFound
  <1> QED BY <1>6, <1>7, <1>8

LEMMA TagsInductive == TInv /\ [Next]_vars => TInv'
  <1> SUFFICES ASSUME TInv, [Next]_vars PROVE TInv'
    OBVIOUS
  <1> USE TagsAssumption
  <1>0. TypeOK /\ MemoryInv /\ HeaderInv /\ PendingInv /\ TagsFollowPictures
    BY DEF TInv
  <1>1. CASE TagPicture
    <2>1. TypeOK'
      BY <1>0, <1>1 DEF TypeOK, TagPicture
    <2>2. MemoryInv'
      <3>1. /\ Len(setAt') = Len(setAt) + 1 /\ setAt'[Len(setAt) + 1] = pos
            /\ \A k \in 1 .. Len(setAt) : setAt'[k] = setAt[k]
        BY <1>0, <1>1 DEF TagPicture, TypeOK
      <3>2. \A k \in 1 .. Len(setAt') : setAt'[k] <= pos
        BY <1>0, <3>1 DEF MemoryInv, TypeOK
      <3>3. \A j, k \in 1 .. Len(setAt') : j <= k => setAt'[j] <= setAt'[k]
        BY <1>0, <3>1 DEF MemoryInv, TypeOK
      <3>4. /\ pos' = pos /\ pos \in Nat /\ bytesSinceTag' = 0
            /\ tagCurrent' = Len(setAt') /\ tagPrevious' = Len(setAt') - 1
        BY <1>0, <1>1, <3>1 DEF TagPicture, TypeOK, MemoryInv
      <3> QED BY <3>1, <3>2, <3>3, <3>4 DEF MemoryInv
    <2>3. HeaderInv' /\ PendingInv' /\ TagsFollowPictures'
      BY <1>0, <1>1
      DEF HeaderInv, PendingInv, TagsFollowPictures, TagPicture, TypeOK
    <2> QED BY <2>1, <2>2, <2>3 DEF TInv
  <1>2. CASE Byte
    <2>1. TypeOK'
      BY <1>0, <1>2 DEF TypeOK, Byte, history
    <2>2. MemoryInv'
      BY <1>0, <1>2 DEF TypeOK, MemoryInv, Byte, history
    <2>3. HeaderInv' /\ PendingInv' /\ TagsFollowPictures'
      BY <1>0, <1>2
      DEF HeaderInv, PendingInv, TagsFollowPictures, Byte, TypeOK, history, Prefix
    <2> QED BY <2>1, <2>2, <2>3 DEF TInv
  <1>3. CASE HeaderOverflow
    BY <1>0, <1>3
    DEF TInv, TypeOK, MemoryInv, HeaderInv, PendingInv, TagsFollowPictures,
        HeaderOverflow, library, history
  <1>4. CASE Reset
    <2>1. TypeOK' /\ MemoryInv'
      BY <1>0, <1>4 DEF TypeOK, MemoryInv, Reset
    <2>2. HeaderInv' /\ PendingInv' /\ TagsFollowPictures'
      BY <1>0, <1>4
      DEF HeaderInv, PendingInv, TagsFollowPictures, Reset, TypeOK
    <2> QED BY <2>1, <2>2 DEF TInv
  <1>5. ASSUME NEW picture \in BOOLEAN, ScanFound(picture) PROVE TInv'
    <2>1. TypeOK'
      BY <1>0, <1>5 DEF TypeOK, HeaderInv, ScanFound, StartCode, Prefix
    <2>2. MemoryInv'
      <3>1. /\ setAt' = setAt /\ pos' = pos + 1
            /\ bytesSinceTag' = bytesSinceTag + 1
            /\ tagCurrent' = tagCurrent /\ tagPrevious' = tagPrevious
        BY <1>5 DEF ScanFound, StartCode
      <3> QED BY <1>0, <3>1 DEF TypeOK, MemoryInv
    <2>3. HeaderInv' /\ PendingInv' /\ TagsFollowPictures'
      BY <1>0, <1>5
      DEF HeaderInv, PendingInv, TagsFollowPictures, ScanFound, StartCode,
          TypeOK, Prefix
    <2> QED BY <2>1, <2>2, <2>3 DEF TInv
  <1>6. ASSUME NEW picture \in BOOLEAN, HeaderFound(picture) PROVE TInv'
    <2>1. TypeOK'
      <3>1. /\ decided' \in 0 .. Len(setAt) /\ expected' \in 0 .. Len(setAt)
            /\ tag' \in 0 .. Len(setAt) /\ numTags' \in Nat
        BY <1>0, <1>6 DEF TypeOK, HeaderFound
      <3> QED
        BY <1>0, <1>6, <3>1 DEF TypeOK, HeaderInv, HeaderFound, StartCode, Prefix
    <2>2. MemoryInv'
      <3>1. /\ setAt' = setAt /\ pos' = pos + 1
            /\ bytesSinceTag' = bytesSinceTag + 1
            /\ tagCurrent' = tagCurrent /\ tagPrevious' = tagPrevious
        BY <1>6 DEF HeaderFound, StartCode
      <3> QED BY <1>0, <3>1 DEF TypeOK, MemoryInv
    <2>3. HeaderInv'
      BY <1>0, <1>6 DEF HeaderInv, HeaderFound, StartCode, TypeOK, Prefix
    <2>4. PendingInv' /\ TagsFollowPictures'
      <3>1. setAt' = setAt
        BY <1>6 DEF HeaderFound
      <3> QED BY <1>6, <3>1, HeaderFinds DEF PendingInv, TagsFollowPictures
    <2> QED BY <2>1, <2>2, <2>3, <2>4 DEF TInv
  <1>7. CASE UNCHANGED vars
    BY <1>0, <1>7
    DEF TInv, TypeOK, MemoryInv, HeaderInv, PendingInv, TagsFollowPictures, vars
  <1> QED BY <1>1, <1>2, <1>3, <1>4, <1>5, <1>6, <1>7 DEF Next

(* Types are kept: the header never outgrows the chunk buffer.             *)
THEOREM TagsTypeCorrect == Spec => []TypeOK
  <1>1. TInv => TypeOK
    BY DEF TInv
  <1> QED BY <1>1, TagsInitial, TagsInductive, PTL DEF Spec

(* However the stream is cut and wherever tags are set, a picture gets the *)
(* last tag set before its first byte, as long as there are never two tags *)
(* inside one picture header.                                              *)
THEOREM TagsCorrect == Spec => []TagsFollowPictures
  <1>1. TInv => TagsFollowPictures
    BY DEF TInv
  <1> QED BY <1>1, TagsInitial, TagsInductive, PTL DEF Spec
=============================================================================
