----------------------------- MODULE BufferProofs ------------------------------
(***************************************************************************)
(* Buffer implements ByteQueue, for every set of buffers, every            *)
(* cheap_prepend, initial size and size of extrabuf, and all strings.      *)
(***************************************************************************)
EXTENDS Buffer, SequenceTheorems, TLAPS

(* A buffer in the states the class keeps it in. *)
Sound(b) == b \in Buffers /\ Ordered(b)

-------------------------------------------------------------------------------
(* Sequences.                                                                 *)

(* std::copy inside the vector keeps its length and the type of its bytes. *)
LEMMA CopyType ==
  ASSUME NEW s \in Seq(Byte), NEW at \in Nat, NEW d \in Seq(Byte)
  PROVE  /\ Copy(s, at, d) \in Seq(Byte)
         /\ Len(Copy(s, at, d)) = Len(s)
         /\ \A i \in 1..Len(s) : Copy(s, at, d)[i] =
              IF at < i /\ i <= at + Len(d) THEN d[i - at] ELSE s[i]
  BY DEF Copy

(* resize keeps the bytes that stay and fills up with Nul. *)
LEMMA ResizeType ==
  ASSUME NEW s \in Seq(Byte), NEW n \in Nat
  PROVE  /\ Resize(s, n) \in Seq(Byte)
         /\ Len(Resize(s, n)) = n
         /\ \A i \in 1..n : i <= Len(s) => Resize(s, n)[i] = s[i]
  BY ByteAssumption DEF Resize

(* What a sound buffer holds is a sequence of bytes. *)
LEMMA ContentType ==
  ASSUME NEW b, Sound(b)
  PROVE  /\ Content(b) \in Seq(Byte)
         /\ Len(Content(b)) = read_able_bytes(b)
         /\ read_able_bytes(b) \in Nat
         /\ write_able_bytes(b) \in Nat
         /\ \A i \in 1..read_able_bytes(b) :
              Content(b)[i] = b.buffer_[b.reader_index_ + i]
<1>1. read_able_bytes(b) \in Nat /\ write_able_bytes(b) \in Nat
  BY DEF Sound, Buffers, Ordered, read_able_bytes, write_able_bytes
<1>2. \A i \in 1..read_able_bytes(b) : b.buffer_[b.reader_index_ + i] \in Byte
  BY DEF Sound, Buffers, Ordered, read_able_bytes
<1> QED
  BY <1>1, <1>2 DEF Content

(* Two sequences with the same length and elements are equal. *)
LEMMA SameSequence ==
  ASSUME NEW S, NEW s \in Seq(S), NEW t \in Seq(S), Len(s) = Len(t),
         \A i \in 1..Len(s) : s[i] = t[i]
  PROVE  s = t
  OBVIOUS

(* Concatenation of byte strings is associative. *)
LEMMA ByteConcat ==
  ASSUME NEW s \in Seq(Byte), NEW t \in Seq(Byte), NEW u \in Seq(Byte)
  PROVE  (s \o t) \o u = s \o (t \o u)
  BY ConcatAssociative, SMTT(30)

-------------------------------------------------------------------------------
(* What each operation does to one buffer.                                    *)

(* Moving the bytes to the front changes where they are and nothing else. *)
LEMMA CompactContent ==
  ASSUME NEW b, Sound(b), cheap_prepend + read_able_bytes(b) <= Len(b.buffer_)
  PROVE  /\ Sound(Compact(b))
         /\ Content(Compact(b)) = Content(b)
         /\ Len(Compact(b).buffer_) = Len(b.buffer_)
         /\ write_able_bytes(Compact(b))
              = Len(b.buffer_) - cheap_prepend - read_able_bytes(b)
<1> DEFINE c == Compact(b)
<1>0. cheap_prepend \in Nat
  BY SizeAssumption
<1>1. b.buffer_ \in Seq(Byte) /\ b.reader_index_ \in Nat /\ b.writer_index_ \in Nat
  BY DEF Sound, Buffers
<1>2. /\ c.buffer_ = Copy(b.buffer_, cheap_prepend, Content(b))
      /\ c.reader_index_ = cheap_prepend
      /\ c.writer_index_ = cheap_prepend + read_able_bytes(b)
  BY DEF Compact
<1>2a. c \in [buffer_ : {c.buffer_}, reader_index_ : {c.reader_index_},
             writer_index_ : {c.writer_index_}]
  BY DEF Compact
<1> HIDE DEF c
<1>3. c.buffer_ \in Seq(Byte) /\ Len(c.buffer_) = Len(b.buffer_)
  <2>1. Content(b) \in Seq(Byte)
    BY ContentType
  <2>2. /\ Copy(b.buffer_, cheap_prepend, Content(b)) \in Seq(Byte)
        /\ Len(Copy(b.buffer_, cheap_prepend, Content(b))) = Len(b.buffer_)
    BY <1>0, <1>1, <2>1, CopyType
  <2> QED BY <1>2, <2>2
<1>4. Sound(c)
  <2>1. c \in Buffers
    BY <1>0, <1>2, <1>3, <1>2a, ContentType DEF Buffers
  <2>2. Ordered(c)
    BY <1>0, <1>2, <1>3, ContentType DEF Ordered, Sound
  <2> QED BY <2>1, <2>2 DEF Sound
<1>5. read_able_bytes(c) = read_able_bytes(b)
  BY <1>0, <1>2, ContentType DEF read_able_bytes
<1>6. \A i \in 1..read_able_bytes(b) : Content(c)[i] = Content(b)[i]
  <2> SUFFICES ASSUME NEW i \in 1..read_able_bytes(b)
               PROVE  Content(c)[i] = Content(b)[i]
    OBVIOUS
  <2>1. Content(c)[i] = c.buffer_[cheap_prepend + i]
    BY <1>2, <1>4, <1>5, ContentType
  <2>2. cheap_prepend + i \in 1..Len(b.buffer_) /\ cheap_prepend + i - cheap_prepend = i
    BY <1>0, <1>1, ContentType
  <2>3. c.buffer_[cheap_prepend + i] = Content(b)[cheap_prepend + i - cheap_prepend]
    BY <1>0, <1>1, <1>2, <2>2, ContentType, CopyType
  <2> QED BY <2>1, <2>2, <2>3
<1>7. Content(c) = Content(b)
  BY <1>4, <1>5, <1>6, ContentType, SameSequence
<1>8. write_able_bytes(c) = Len(b.buffer_) - cheap_prepend - read_able_bytes(b)
  BY <1>0, <1>1, <1>2, <1>3, ContentType DEF write_able_bytes
<1> QED BY <1>3, <1>4, <1>7, <1>8 DEF c

(* ensure makes room for len bytes and keeps what the buffer holds; it makes the
   vector longer only when len more bytes do not fit behind cheap_prepend. *)
LEMMA EnsureContent ==
  ASSUME NEW b, Sound(b), NEW len \in Nat
  PROVE  /\ Sound(ensure(b, len))
         /\ Content(ensure(b, len)) = Content(b)
         /\ write_able_bytes(ensure(b, len)) >= len
         /\ Len(ensure(b, len).buffer_) > Len(b.buffer_)
              => cheap_prepend + read_able_bytes(b) + len > Len(b.buffer_)
<1>0. cheap_prepend \in Nat
  BY SizeAssumption
<1>1. b.buffer_ \in Seq(Byte) /\ b.reader_index_ \in Nat /\ b.writer_index_ \in Nat
  BY DEF Sound, Buffers
<1>2. CASE write_able_bytes(b) >= len
  <2>1. ensure(b, len) = b
    BY <1>2, ContentType DEF ensure
  <2> QED BY <1>1, <1>2, <2>1
<1>3. CASE write_able_bytes(b) < len /\ MustGrow(b, len)
  <2> DEFINE c == [b EXCEPT !.buffer_ = Resize(b.buffer_, b.writer_index_ + len)]
  <2>1. ensure(b, len) = c
    BY <1>3 DEF ensure, makespace
  <2>2. /\ c.buffer_ = Resize(b.buffer_, b.writer_index_ + len)
        /\ c.reader_index_ = b.reader_index_
        /\ c.writer_index_ = b.writer_index_
        /\ c.buffer_ \in Seq(Byte) /\ Len(c.buffer_) = b.writer_index_ + len
        /\ \A i \in 1..b.writer_index_ : c.buffer_[i] = b.buffer_[i]
    <3>1. /\ c.buffer_ = Resize(b.buffer_, b.writer_index_ + len)
          /\ c.reader_index_ = b.reader_index_
          /\ c.writer_index_ = b.writer_index_
      BY DEF Sound, Buffers
    <3>2. b.writer_index_ <= Len(b.buffer_)
      BY DEF Sound, Ordered
    <3> HIDE DEF c
    <3>3. b.writer_index_ + len \in Nat
      BY <1>1
    <3>4. c.buffer_ \in Seq(Byte) /\ Len(c.buffer_) = b.writer_index_ + len
      BY <1>1, <3>1, <3>3, ResizeType
    <3>5. \A i \in 1..b.writer_index_ : c.buffer_[i] = b.buffer_[i]
      <4> SUFFICES ASSUME NEW i \in 1..b.writer_index_
                   PROVE  c.buffer_[i] = b.buffer_[i]
        OBVIOUS
      <4>1. i \in 1..(b.writer_index_ + len) /\ i <= Len(b.buffer_)
        BY <1>1, <3>2
      <4>2. Resize(b.buffer_, b.writer_index_ + len)[i] = b.buffer_[i]
        BY <1>1, <3>3, <4>1, ResizeType
      <4> QED BY <3>1, <4>2
    <3> QED BY <3>1, <3>4, <3>5
  <2>2a. c \in Buffers
    BY <1>1, <2>2 DEF Sound, Buffers
  <2> HIDE DEF c
  <2>3. Sound(c)
    <3>1. c \in Buffers
      BY <2>2a
    <3>2. b.writer_index_ + len > Len(b.buffer_)
      BY <1>1, <1>3 DEF write_able_bytes
    <3>3. Ordered(c)
      BY <1>0, <1>1, <2>2, <3>2 DEF Sound, Ordered
    <3> QED BY <3>1, <3>3 DEF Sound
  <2>4. read_able_bytes(c) = read_able_bytes(b)
    BY <2>2 DEF read_able_bytes
  <2>5. \A i \in 1..read_able_bytes(b) : Content(c)[i] = Content(b)[i]
    <3> SUFFICES ASSUME NEW i \in 1..read_able_bytes(b)
                 PROVE  Content(c)[i] = Content(b)[i]
      OBVIOUS
    <3>1. b.reader_index_ + i \in 1..b.writer_index_
      BY <1>1 DEF read_able_bytes
    <3>2. Content(c)[i] = c.buffer_[b.reader_index_ + i]
      <4>1. i \in 1..read_able_bytes(c)
        BY <2>4
      <4>2. Content(c)[i] = c.buffer_[c.reader_index_ + i]
        BY <2>3, <4>1, ContentType
      <4> QED BY <2>2, <4>2
    <3>3. Content(b)[i] = b.buffer_[b.reader_index_ + i]
      BY ContentType
    <3> QED BY <2>2, <3>1, <3>2, <3>3
  <2>6. Content(c) = Content(b)
    BY <2>3, <2>4, <2>5, ContentType, SameSequence
  <2>7. write_able_bytes(c) >= len
    BY <1>1, <2>2 DEF write_able_bytes
  <2>8. cheap_prepend + read_able_bytes(b) + len > Len(b.buffer_)
    BY <1>0, <1>1, <1>3 DEF MustGrow, write_able_bytes, prepend_able_bytes, read_able_bytes
  <2> QED BY <2>1, <2>3, <2>6, <2>7, <2>8
<1>4. CASE write_able_bytes(b) < len /\ ~MustGrow(b, len)
  <2>1. ensure(b, len) = Compact(b)
    BY <1>4 DEF ensure, makespace
  <2>2. cheap_prepend + read_able_bytes(b) + len <= Len(b.buffer_)
    BY <1>0, <1>1, <1>4 DEF MustGrow, write_able_bytes, prepend_able_bytes, read_able_bytes
  <2>3. cheap_prepend + read_able_bytes(b) <= Len(b.buffer_)
    BY <1>0, <1>1, <2>2, ContentType
  <2>4. Len(b.buffer_) - cheap_prepend - read_able_bytes(b) >= len
    BY <1>0, <1>1, <2>2, ContentType
  <2> QED BY <1>1, <2>1, <2>3, <2>4, CompactContent
<1> QED BY <1>2, <1>3, <1>4, ContentType

(* Copying d to begin_write() puts it behind what the buffer holds. *)
LEMMA WriteContent ==
  ASSUME NEW b, Sound(b), NEW d \in Seq(Byte), Len(d) <= write_able_bytes(b)
  PROVE  /\ Sound(Write(b, d))
         /\ Content(Write(b, d)) = Content(b) \o d
         /\ Len(Write(b, d).buffer_) = Len(b.buffer_)
<1> DEFINE c == Write(b, d)
<1>0. cheap_prepend \in Nat
  BY SizeAssumption
<1>1. b.buffer_ \in Seq(Byte) /\ b.reader_index_ \in Nat /\ b.writer_index_ \in Nat
  BY DEF Sound, Buffers
<1>2. /\ c.buffer_ = Copy(b.buffer_, b.writer_index_, d)
      /\ c.reader_index_ = b.reader_index_
      /\ c.writer_index_ = b.writer_index_ + Len(d)
  BY DEF Write, Sound, Buffers
<1>3. c.buffer_ \in Seq(Byte) /\ Len(c.buffer_) = Len(b.buffer_)
  <2>1. /\ Copy(b.buffer_, b.writer_index_, d) \in Seq(Byte)
        /\ Len(Copy(b.buffer_, b.writer_index_, d)) = Len(b.buffer_)
    BY <1>1, CopyType
  <2> QED BY <1>2, <2>1
<1>4. c \in Buffers
  <2>1. Copy(b.buffer_, b.writer_index_, d) \in Seq(Byte)
    BY <1>1, CopyType
  <2>2. b.writer_index_ + Len(d) \in Nat
    BY <1>1
  <2>3. b \in Buffers
    BY DEF Sound
  <2> QED BY <2>1, <2>2, <2>3 DEF Write, Buffers
<1> HIDE DEF c
<1>5. Ordered(c)
  BY <1>0, <1>1, <1>2, <1>3 DEF Sound, Ordered, write_able_bytes
<1>6. Sound(c)
  BY <1>4, <1>5 DEF Sound
<1>7. read_able_bytes(c) = read_able_bytes(b) + Len(d)
  BY <1>1, <1>2 DEF read_able_bytes
<1>8. ASSUME NEW i \in 1..read_able_bytes(c)
      PROVE  Content(c)[i] = (Content(b) \o d)[i]
  <2>1. Content(c)[i] = c.buffer_[b.reader_index_ + i]
    BY <1>2, <1>6, ContentType
  <2>2. b.reader_index_ + i \in 1..Len(b.buffer_)
    BY <1>1, <1>2, <1>3, <1>5 DEF read_able_bytes, Ordered
  <2>3. c.buffer_[b.reader_index_ + i] =
          IF b.writer_index_ < b.reader_index_ + i
               /\ b.reader_index_ + i <= b.writer_index_ + Len(d)
            THEN d[b.reader_index_ + i - b.writer_index_]
            ELSE b.buffer_[b.reader_index_ + i]
    BY <1>1, <1>2, <2>2, CopyType, SMTT(30)
  <2>4. Content(b) \in Seq(Byte) /\ Len(Content(b)) = read_able_bytes(b)
    BY ContentType
  <2>5. CASE i <= read_able_bytes(b)
    <3>1. ~(b.writer_index_ < b.reader_index_ + i)
      BY <1>1, <2>5 DEF read_able_bytes
    <3>2. i \in 1..read_able_bytes(b)
      BY <1>1, <2>5 DEF read_able_bytes, Sound, Ordered
    <3>3. Content(b)[i] = b.buffer_[b.reader_index_ + i]
      BY <3>2, ContentType
    <3>4. (Content(b) \o d)[i] = Content(b)[i]
      BY <2>4, <3>2
    <3> QED BY <2>1, <2>3, <3>1, <3>3, <3>4
  <2>6. CASE i > read_able_bytes(b)
    <3>1. /\ b.writer_index_ < b.reader_index_ + i
          /\ b.reader_index_ + i <= b.writer_index_ + Len(d)
          /\ b.reader_index_ + i - b.writer_index_ = i - read_able_bytes(b)
      BY <1>1, <1>7, <2>6 DEF read_able_bytes
    <3>2. (Content(b) \o d)[i] = d[i - Len(Content(b))]
      BY <1>7, <2>4, <2>6
    <3> QED BY <2>1, <2>3, <2>4, <3>1, <3>2
  <2>7. read_able_bytes(b) \in Nat
    BY ContentType
  <2>8. i <= read_able_bytes(b) \/ i > read_able_bytes(b)
    BY <2>7
  <2> QED BY <2>5, <2>6, <2>8
<1>9. Content(c) = Content(b) \o d
  <2>1. Content(b) \in Seq(Byte) /\ Content(c) \in Seq(Byte)
    BY <1>6, ContentType
  <2>2. Content(b) \o d \in Seq(Byte) /\ Len(Content(b) \o d) = Len(Content(c))
    BY <1>6, <1>7, <2>1, ContentType
  <2>3. \A i \in 1..Len(Content(c)) : Content(c)[i] = (Content(b) \o d)[i]
    BY <1>6, <1>8, ContentType
  <2> QED BY <2>1, <2>2, <2>3, SameSequence
<1> QED BY <1>3, <1>6, <1>9 DEF c

(* append puts d behind what the buffer holds, wherever makespace finds the
   room for it. *)
LEMMA AppendContent ==
  ASSUME NEW b, Sound(b), NEW d \in Seq(Byte)
  PROVE  /\ Sound(append(b, d))
         /\ Content(append(b, d)) = Content(b) \o d
         /\ Len(append(b, d).buffer_) > Len(b.buffer_)
              => cheap_prepend + read_able_bytes(b) + Len(d) > Len(b.buffer_)
<1> DEFINE e == ensure(b, Len(d))
<1>1. /\ Sound(e)
      /\ Content(e) = Content(b)
      /\ write_able_bytes(e) >= Len(d)
      /\ Len(e.buffer_) > Len(b.buffer_)
           => cheap_prepend + read_able_bytes(b) + Len(d) > Len(b.buffer_)
  BY EnsureContent
<1>2. Len(d) <= write_able_bytes(e)
  BY <1>1, ContentType
<1>3. append(b, d) = Write(e, d)
  BY DEF append
<1> HIDE DEF e
<1> QED BY <1>1, <1>2, <1>3, WriteContent

(* A header put in front of the read index comes before what the buffer holds. *)
LEMMA PrependContent ==
  ASSUME NEW b, Sound(b), NEW d \in Seq(Byte), Len(d) <= prepend_able_bytes(b)
  PROVE  /\ Sound(prepend(b, d))
         /\ Content(prepend(b, d)) = d \o Content(b)
         /\ Len(prepend(b, d).buffer_) = Len(b.buffer_)
<1> DEFINE c == prepend(b, d)
           at == b.reader_index_ - Len(d)
<1>0. cheap_prepend \in Nat
  BY SizeAssumption
<1>1. b.buffer_ \in Seq(Byte) /\ b.reader_index_ \in Nat /\ b.writer_index_ \in Nat
  BY DEF Sound, Buffers
<1>2. at \in Nat /\ b \in Buffers
  BY <1>1 DEF prepend_able_bytes, Sound
<1>3. /\ Copy(b.buffer_, at, d) \in Seq(Byte)
      /\ Len(Copy(b.buffer_, at, d)) = Len(b.buffer_)
      /\ \A i \in 1..Len(b.buffer_) : Copy(b.buffer_, at, d)[i] =
           IF at < i /\ i <= at + Len(d) THEN d[i - at] ELSE b.buffer_[i]
  BY <1>1, <1>2, CopyType
<1>4. /\ c.buffer_ = Copy(b.buffer_, at, d)
      /\ c.reader_index_ = at
      /\ c.writer_index_ = b.writer_index_
      /\ c \in Buffers
  BY <1>2, <1>3 DEF prepend, Buffers
<1> HIDE DEF c
<1>5. Ordered(c)
  BY <1>0, <1>1, <1>2, <1>3, <1>4 DEF Sound, Ordered
<1>6. Sound(c)
  BY <1>4, <1>5 DEF Sound
<1>7. read_able_bytes(c) = Len(d) + read_able_bytes(b)
  BY <1>1, <1>4 DEF read_able_bytes
<1>8. ASSUME NEW i \in 1..read_able_bytes(c)
      PROVE  Content(c)[i] = (d \o Content(b))[i]
  <2>1. Content(c)[i] = c.buffer_[at + i]
    BY <1>4, <1>6, ContentType
  <2>2. at + i \in 1..Len(b.buffer_)
    BY <1>1, <1>2, <1>3, <1>4, <1>5, SMTT(30) DEF read_able_bytes, Ordered
  <2> HIDE DEF at
  <2>3. c.buffer_[at + i] = IF at < at + i /\ at + i <= at + Len(d)
                              THEN d[at + i - at] ELSE b.buffer_[at + i]
    BY <1>1, <1>2, <1>4, <2>2, CopyType, SMTT(30)
  <2>4. /\ Content(b) \in Seq(Byte)
        /\ Len(Content(b)) = read_able_bytes(b)
        /\ read_able_bytes(b) \in Nat
    BY ContentType
  <2>5. CASE i <= Len(d)
    <3>1. at < at + i /\ at + i <= at + Len(d) /\ at + i - at = i
      BY <1>2, <2>5
    <3>2. (d \o Content(b))[i] = d[i]
      BY <2>4, <2>5
    <3> QED BY <2>1, <2>3, <3>1, <3>2
  <2>6. CASE i > Len(d)
    <3>1. ~(at + i <= at + Len(d)) /\ at + i = b.reader_index_ + (i - Len(d))
      BY <1>1, <1>2, <2>6 DEF at
    <3>2. i - Len(d) \in 1..read_able_bytes(b)
      BY <1>7, <2>4, <2>6
    <3>3. Content(b)[i - Len(d)] = b.buffer_[b.reader_index_ + (i - Len(d))]
      BY <3>2, ContentType
    <3>4. (d \o Content(b))[i] = Content(b)[i - Len(d)]
      BY <1>7, <2>4, <2>6
    <3> QED BY <2>1, <2>3, <3>1, <3>3, <3>4
  <2> QED BY <1>7, <2>4, <2>5, <2>6
<1>9. Content(c) = d \o Content(b)
  <2>1. Content(b) \in Seq(Byte) /\ Content(c) \in Seq(Byte)
    BY <1>6, ContentType
  <2>2. d \o Content(b) \in Seq(Byte) /\ Len(d \o Content(b)) = Len(Content(c))
    <3>1. Len(Content(c)) = Len(d) + Len(Content(b))
      BY <1>6, <1>7, ContentType
    <3> QED BY <2>1, <3>1
  <2>3. \A i \in 1..Len(Content(c)) : Content(c)[i] = (d \o Content(b))[i]
    BY <1>6, <1>8, ContentType
  <2> QED BY <2>1, <2>2, <2>3, SameSequence
<1> QED BY <1>3, <1>4, <1>6, <1>9 DEF c

(* Moving the read index by n takes the first n bytes out. *)
LEMMA WriteFdContent ==
  ASSUME NEW b, Sound(b), NEW n \in Nat, n <= read_able_bytes(b)
  PROVE  /\ Sound(write_fd(b, n))
         /\ Content(b) = SubSeq(Content(b), 1, n) \o Content(write_fd(b, n))
         /\ SubSeq(Content(b), 1, n) \in Seq(Byte)
         /\ write_fd(b, n).buffer_ = b.buffer_
<1> DEFINE c == write_fd(b, n)
           d == SubSeq(Content(b), 1, n)
<1>0. cheap_prepend \in Nat
  BY SizeAssumption
<1>1. b.buffer_ \in Seq(Byte) /\ b.reader_index_ \in Nat /\ b.writer_index_ \in Nat
  BY DEF Sound, Buffers
<1>2. /\ c.buffer_ = b.buffer_
      /\ c.reader_index_ = b.reader_index_ + n
      /\ c.writer_index_ = b.writer_index_
      /\ c \in Buffers
  BY <1>1 DEF write_fd, Sound, Buffers
<1> HIDE DEF c
<1>3. Sound(c)
  BY <1>0, <1>1, <1>2 DEF Sound, Ordered, read_able_bytes
<1>4. read_able_bytes(c) = read_able_bytes(b) - n
  BY <1>1, <1>2 DEF read_able_bytes
<1>5. /\ Content(b) \in Seq(Byte)
      /\ Len(Content(b)) = read_able_bytes(b)
      /\ read_able_bytes(b) \in Nat
      /\ Content(c) \in Seq(Byte)
      /\ Len(Content(c)) = read_able_bytes(b) - n
  BY <1>3, <1>4, ContentType
<1>6. /\ d \in Seq(Byte)
      /\ Len(d) = n
      /\ \A i \in 1..n : d[i] = Content(b)[i]
  BY <1>5
<1> HIDE DEF d
<1>7. d \o Content(c) \in Seq(Byte) /\ Len(d \o Content(c)) = Len(Content(b))
  BY <1>5, <1>6
<1>8. ASSUME NEW i \in 1..Len(Content(b))
      PROVE  Content(b)[i] = (d \o Content(c))[i]
  <2>1. CASE i <= n
    BY <1>5, <1>6, <2>1
  <2>2. CASE i > n
    <3>1. i - n \in 1..read_able_bytes(c) /\ i \in 1..read_able_bytes(b)
      BY <1>4, <1>5, <2>2
    <3>2. Content(c)[i - n] = c.buffer_[c.reader_index_ + (i - n)]
      BY <1>3, <3>1, ContentType
    <3>3. Content(b)[i] = b.buffer_[b.reader_index_ + i]
      BY <3>1, ContentType
    <3>4. c.reader_index_ + (i - n) = b.reader_index_ + i
      BY <1>1, <1>2
    <3>5. (d \o Content(c))[i] = Content(c)[i - n]
      BY <1>5, <1>6, <2>2, SMTT(30)
    <3> QED BY <1>2, <3>2, <3>3, <3>4, <3>5
  <2>3. i <= n \/ i > n
    BY <1>5
  <2> QED BY <2>1, <2>2, <2>3
<1>9. Content(b) = d \o Content(c)
  BY <1>5, <1>7, <1>8, SameSequence
<1> QED BY <1>2, <1>3, <1>6, <1>9 DEF c, d

(* retrieve takes the first n bytes out, and rewinds a buffer it empties. *)
LEMMA RetrieveContent ==
  ASSUME NEW b, Sound(b), NEW n \in Nat, n <= read_able_bytes(b)
  PROVE  /\ Sound(retrieve(b, n))
         /\ Content(b) = SubSeq(Content(b), 1, n) \o Content(retrieve(b, n))
         /\ SubSeq(Content(b), 1, n) \in Seq(Byte)
         /\ retrieve(b, n).buffer_ = b.buffer_
<1>1. CASE n < read_able_bytes(b)
  <2>1. retrieve(b, n) = write_fd(b, n)
    BY <1>1 DEF retrieve, write_fd
  <2> QED BY <2>1, WriteFdContent
<1>2. CASE ~(n < read_able_bytes(b))
  <2> DEFINE c == retrieve(b, n)
  <2>0. cheap_prepend \in Nat
    BY SizeAssumption
  <2>1. /\ c.buffer_ = b.buffer_
        /\ c.reader_index_ = cheap_prepend
        /\ c.writer_index_ = cheap_prepend
        /\ c \in Buffers
    BY <1>2, <2>0 DEF retrieve, retrieve_all, Sound, Buffers
  <2> HIDE DEF c
  <2>2. b.buffer_ \in Seq(Byte)
    BY DEF Sound, Buffers
  <2>3. Sound(c)
    BY <2>0, <2>1, <2>2 DEF Sound, Ordered
  <2>4. Content(b) \in Seq(Byte) /\ Len(Content(b)) = n
    BY <1>2, ContentType
  <2>5. Content(c) = <<>>
    <3>1. read_able_bytes(c) = 0
      BY <2>0, <2>1 DEF read_able_bytes
    <3> QED BY <2>3, <3>1, ContentType
  <2>6. SubSeq(Content(b), 1, n) = Content(b)
    BY <2>4
  <2>7. Content(b) = Content(b) \o <<>>
    BY <2>4
  <2> QED BY <2>1, <2>3, <2>4, <2>5, <2>6, <2>7 DEF c
<1> QED BY <1>1, <1>2

(* read_fd puts what readv delivers behind what the buffer holds, in order also
   when it comes in two parts. *)
LEMMA ReadFdContent ==
  ASSUME NEW b, Sound(b), NEW d \in Seq(Byte)
  PROVE  /\ Sound(read_fd(b, d))
         /\ Content(read_fd(b, d)) = Content(b) \o d
         /\ Len(read_fd(b, d).buffer_) > Len(b.buffer_)
              => cheap_prepend + read_able_bytes(b) + Len(d) > Len(b.buffer_)
<1> DEFINE room == write_able_bytes(b)
           front == SubSeq(d, 1, room)
           rest == SubSeq(d, room + 1, Len(d))
           w == Write(b, front)
<1>0. /\ room \in Nat /\ read_able_bytes(b) \in Nat /\ Content(b) \in Seq(Byte)
      /\ Len(Content(b)) = read_able_bytes(b) /\ Len(b.buffer_) \in Nat
      /\ cheap_prepend \in Nat
  BY ContentType, SizeAssumption DEF Sound, Buffers
<1>1. CASE Len(d) <= room
  <2>1. read_fd(b, d) = Write(b, d)
    BY <1>1 DEF read_fd
  <2>2. /\ Sound(Write(b, d))
        /\ Content(Write(b, d)) = Content(b) \o d
        /\ Len(Write(b, d).buffer_) = Len(b.buffer_)
    BY <1>1, WriteContent
  <2> QED BY <1>0, <2>1, <2>2
<1>2. CASE ~(Len(d) <= room)
  <2> HIDE DEF room
  <2>1. /\ front \in Seq(Byte) /\ Len(front) = room
        /\ rest \in Seq(Byte) /\ Len(rest) = Len(d) - room
        /\ front \o rest = d
    <3>1. /\ 1 \in 1..(Len(d) + 1) /\ room \in (1 - 1)..Len(d)
          /\ Len(d) \in room..Len(d)
      BY <1>0, <1>2
    <3>2. front \o rest = SubSeq(d, 1, Len(d))
      BY <3>1, ConcatAdjacentSubSeq
    <3>3. SubSeq(d, 1, Len(d)) = d
      BY SubSeqFull
    <3>4. front \in Seq(Byte) /\ Len(front) = room
      BY <1>0, <1>2
    <3>5. rest \in Seq(Byte) /\ Len(rest) = Len(d) - room
      BY <1>0, <1>2
    <3> QED BY <3>2, <3>3, <3>4, <3>5
  <2>2. read_fd(b, d) = append(w, rest)
    BY <1>2 DEF read_fd, room
  <2> HIDE DEF front, rest
  <2>3. /\ Sound(w)
        /\ Content(w) = Content(b) \o front
        /\ Len(w.buffer_) = Len(b.buffer_)
    BY <1>0, <2>1, WriteContent, SMTT(30) DEF room
  <2> HIDE DEF w
  <2>4. /\ Sound(append(w, rest))
        /\ Content(append(w, rest)) = Content(w) \o rest
        /\ Len(append(w, rest).buffer_) > Len(w.buffer_)
             => cheap_prepend + read_able_bytes(w) + Len(rest) > Len(w.buffer_)
    BY <2>1, <2>3, AppendContent
  <2>5. read_able_bytes(w) = read_able_bytes(b) + room
    <3>1. Len(Content(w)) = read_able_bytes(w)
      BY <2>3, ContentType
    <3>2. Len(Content(b) \o front) = Len(Content(b)) + Len(front)
      BY <1>0, <2>1, ConcatProperties
    <3> QED BY <1>0, <2>1, <2>3, <3>1, <3>2
  <2>6. (Content(b) \o front) \o rest = Content(b) \o d
    <3>1. Content(b) \o (front \o rest) = Content(b) \o d
      BY <2>1
    <3>2. (Content(b) \o front) \o rest = Content(b) \o (front \o rest)
      <4>1. Content(b) \in Seq(Byte) /\ front \in Seq(Byte) /\ rest \in Seq(Byte)
        BY <1>0, <2>1
      <4> QED BY <4>1, ByteConcat
    <3> QED BY <3>1, <3>2
  <2>7. read_able_bytes(b) + room + Len(rest) = read_able_bytes(b) + Len(d)
    BY <1>0, <2>1
  <2> QED BY <1>0, <2>1, <2>2, <2>3, <2>4, <2>5, <2>6, <2>7
<1> QED BY <1>1, <1>2

-------------------------------------------------------------------------------
(* The specification.                                                         *)

(* TypeOK, buffer by buffer. *)
LEMMA TypeOKSound == TypeOK => \A k \in Bufs : Sound(buf[k])
  BY DEF TypeOK, Sound

(* Every call leaves every buffer sound: the inductive step of TypeOK. *)
LEMMA TypeOKStep == TypeOK /\ [Next]_vars => TypeOK'
<1> SUFFICES ASSUME TypeOK, [Next]_vars PROVE TypeOK'
  OBVIOUS
<1> USE DEF Call
<1>0. /\ \A k \in Bufs : Sound(buf[k])
      /\ DOMAIN buf = Bufs
      /\ Strings \subseteq Seq(Byte)
  BY TypeOKSound, ByteAssumption DEF TypeOK
<1>1. ASSUME NEW k \in Bufs, NEW b, Sound(b), buf' = [buf EXCEPT ![k] = b],
             op' \in [name : {"new", "in", "front", "out", "swap"}, on : Bufs,
                     with : Bufs, data : Seq(Byte)]
      PROVE  TypeOK'
  BY <1>1 DEF TypeOK, Sound
<1>2. ASSUME NEW k \in Bufs, NEW d \in Strings, AppendData(k, d) PROVE TypeOK'
  BY <1>0, <1>1, <1>2, AppendContent DEF AppendData
<1>3. ASSUME NEW k \in Bufs, NEW d \in Strings, Prepend(k, d) PROVE TypeOK'
  BY <1>0, <1>1, <1>3, PrependContent DEF Prepend
<1>4. ASSUME NEW k \in Bufs, NEW d \in Strings, ReadFd(k, d) PROVE TypeOK'
  BY <1>0, <1>1, <1>4, ReadFdContent DEF ReadFd
<1>5. ASSUME NEW k \in Bufs, NEW n \in 0..MaxBytes, Retrieve(k, n) PROVE TypeOK'
  <2>1. Sound(buf[k]) /\ n \in Nat /\ n <= read_able_bytes(buf[k])
    BY <1>0, <1>5 DEF Retrieve
  <2>2. Sound(retrieve(buf[k], n)) /\ SubSeq(Content(buf[k]), 1, n) \in Seq(Byte)
    BY <2>1, RetrieveContent
  <2> QED BY <1>1, <1>5, <2>2 DEF Retrieve
<1>6. ASSUME NEW k \in Bufs, NEW n \in 0..MaxBytes, WriteFd(k, n) PROVE TypeOK'
  <2>1. Sound(buf[k]) /\ n \in Nat /\ n <= read_able_bytes(buf[k])
    BY <1>0, <1>6 DEF WriteFd
  <2>2. Sound(write_fd(buf[k], n)) /\ SubSeq(Content(buf[k]), 1, n) \in Seq(Byte)
    BY <2>1, WriteFdContent
  <2> QED BY <1>1, <1>6, <2>2 DEF WriteFd
<1>7. ASSUME NEW k \in Bufs, NEW l \in Bufs, Swap(k, l) PROVE TypeOK'
  BY <1>7 DEF TypeOK, Swap
<1>8. CASE UNCHANGED vars
  BY <1>8 DEF TypeOK, vars
<1> QED BY <1>2, <1>3, <1>4, <1>5, <1>6, <1>7, <1>8 DEF Next

(* A new buffer is sound and empty. *)
LEMMA NewBufferSound == Sound(NewBuffer) /\ Content(NewBuffer) = <<>>
<1>1. cheap_prepend \in Nat /\ initial_size \in Nat
  BY SizeAssumption
<1>2. NewBuffer.buffer_ \in Seq(Byte) /\ Len(NewBuffer.buffer_) = cheap_prepend + initial_size
  BY <1>1, ByteAssumption DEF NewBuffer
<1>3. Sound(NewBuffer)
  BY <1>1, <1>2 DEF NewBuffer, Sound, Buffers, Ordered
<1>4. read_able_bytes(NewBuffer) = 0
  BY <1>1 DEF NewBuffer, read_able_bytes
<1> QED BY <1>3, <1>4, ContentType

(* The indexes of every buffer stay in order and inside its vector after any
   sequence of calls: append, prepend, retrieve, read_fd, write_fd and swap. *)
THEOREM TypeCorrect == Spec => []TypeOK
<1>1. Init => TypeOK
  BY NewBufferSound DEF Init, TypeOK, Call, Sound
<1> QED BY <1>1, TypeOKStep, PTL DEF Spec

(* One call on one buffer, seen from the queue: what is needed of each of them. *)
LEMMA CallOnOne ==
  ASSUME TypeOK, NEW k \in Bufs, NEW b, buf' = [buf EXCEPT ![k] = b]
  PROVE  [j \in Bufs |-> Content(buf'[j])]
           = [[j \in Bufs |-> Content(buf[j])] EXCEPT ![k] = Content(b)]
  BY DEF TypeOK

(* Buffer implements ByteQueue: through all the moving and growing of makespace,
   and the detour of read_fd over extrabuf, no byte is lost, changed or taken
   out of order. *)
THEOREM Refinement == Spec => ImplementsByteQueue
<1> DEFINE bytes == [k \in Bufs |-> Content(buf[k])]
<1>1. Init => Queue!Init
  BY NewBufferSound DEF Init, Queue!Init, Call, Queue!Call
<1>2. TypeOK /\ TypeOK' /\ [Next]_vars => [Queue!Next]_(Queue!queueVars)
  <2> SUFFICES ASSUME TypeOK, TypeOK', [Next]_vars
               PROVE  [Queue!Next]_(Queue!queueVars)
    OBVIOUS
  <2>0. /\ \A k \in Bufs : Sound(buf[k])
        /\ Strings \subseteq Seq(Byte)
        /\ op' \in Queue!Calls
    BY TypeOKSound, ByteAssumption DEF TypeOK, Queue!Calls
  <2>1. ASSUME NEW k \in Bufs, NEW d \in Strings, AppendData(k, d) PROVE Queue!Next
    <3>1. /\ op'.name = "in" /\ op'.on = k /\ op'.data = d
          /\ buf' = [buf EXCEPT ![k] = append(buf[k], d)]
      BY <2>1 DEF AppendData, Call
    <3>2. Content(append(buf[k], d)) = Content(buf[k]) \o d
      BY <2>0, AppendContent
    <3>3. bytes' = [bytes EXCEPT ![k] = bytes[k] \o d]
      <4>1. bytes' = [bytes EXCEPT ![k] = Content(append(buf[k], d))]
        BY <3>1, CallOnOne
      <4>2. bytes[k] = Content(buf[k])
        OBVIOUS
      <4> QED BY <3>2, <4>1, <4>2
    <3> QED BY <2>0, <3>1, <3>3 DEF Queue!Next, Queue!PutBack, Queue!Changes
  <2>2. ASSUME NEW k \in Bufs, NEW d \in Strings, ReadFd(k, d) PROVE Queue!Next
    <3>1. /\ op'.name = "in" /\ op'.on = k /\ op'.data = d
          /\ buf' = [buf EXCEPT ![k] = read_fd(buf[k], d)]
      BY <2>2 DEF ReadFd, Call
    <3>2. Content(read_fd(buf[k], d)) = Content(buf[k]) \o d
      BY <2>0, ReadFdContent
    <3>3. bytes' = [bytes EXCEPT ![k] = bytes[k] \o d]
      <4>1. bytes' = [bytes EXCEPT ![k] = Content(read_fd(buf[k], d))]
        BY <3>1, CallOnOne
      <4>2. bytes[k] = Content(buf[k])
        OBVIOUS
      <4> QED BY <3>2, <4>1, <4>2
    <3> QED BY <2>0, <3>1, <3>3 DEF Queue!Next, Queue!PutBack, Queue!Changes
  <2>3. ASSUME NEW k \in Bufs, NEW d \in Strings, Prepend(k, d) PROVE Queue!Next
    <3>1. /\ op'.name = "front" /\ op'.on = k /\ op'.data = d
          /\ buf' = [buf EXCEPT ![k] = prepend(buf[k], d)]
          /\ Len(d) <= prepend_able_bytes(buf[k])
      BY <2>3 DEF Prepend, Call
    <3>2. Content(prepend(buf[k], d)) = d \o Content(buf[k])
      BY <2>0, <3>1, PrependContent
    <3>3. bytes' = [bytes EXCEPT ![k] = d \o bytes[k]]
      <4>1. bytes' = [bytes EXCEPT ![k] = Content(prepend(buf[k], d))]
        BY <3>1, CallOnOne
      <4>2. bytes[k] = Content(buf[k])
        OBVIOUS
      <4> QED BY <3>2, <4>1, <4>2
    <3> QED BY <2>0, <3>1, <3>3 DEF Queue!Next, Queue!PutFront, Queue!Changes
  <2>4. ASSUME NEW k \in Bufs, NEW n \in Nat, n <= read_able_bytes(buf[k]), NEW b,
               buf' = [buf EXCEPT ![k] = b],
               Content(buf[k]) = SubSeq(Content(buf[k]), 1, n) \o Content(b),
               op' = Call("out", k, k, SubSeq(Content(buf[k]), 1, n))
        PROVE  Queue!Next
    <3>1. /\ op'.name = "out" /\ op'.on = k
          /\ op'.data = SubSeq(Content(buf[k]), 1, n)
      BY <2>4 DEF Call
    <3>2. bytes' = [bytes EXCEPT ![k] = Content(b)]
      BY <2>4, CallOnOne
    <3>3. bytes'[k] = Content(b) /\ bytes[k] = Content(buf[k])
      BY <3>2
    <3>4. bytes' = [bytes EXCEPT ![k] = bytes'[k]] /\ bytes[k] = op'.data \o bytes'[k]
      BY <2>4, <3>1, <3>2, <3>3
    <3> QED BY <2>0, <3>1, <3>4 DEF Queue!Next, Queue!Take, Queue!Changes
  <2>5. ASSUME NEW k \in Bufs, NEW n \in 0..MaxBytes, Retrieve(k, n) PROVE Queue!Next
    <3>1. Sound(buf[k]) /\ n \in Nat /\ n <= read_able_bytes(buf[k])
      BY <2>0, <2>5 DEF Retrieve
    <3>2. Content(buf[k]) = SubSeq(Content(buf[k]), 1, n) \o Content(retrieve(buf[k], n))
      BY <3>1, RetrieveContent
    <3> QED BY <2>4, <2>5, <3>1, <3>2 DEF Retrieve
  <2>6. ASSUME NEW k \in Bufs, NEW n \in 0..MaxBytes, WriteFd(k, n) PROVE Queue!Next
    <3>1. Sound(buf[k]) /\ n \in Nat /\ n <= read_able_bytes(buf[k])
      BY <2>0, <2>6 DEF WriteFd
    <3>2. Content(buf[k]) = SubSeq(Content(buf[k]), 1, n) \o Content(write_fd(buf[k], n))
      BY <3>1, WriteFdContent
    <3> QED BY <2>4, <2>6, <3>1, <3>2 DEF WriteFd
  <2>7. ASSUME NEW k \in Bufs, NEW l \in Bufs, Swap(k, l) PROVE Queue!Next
    <3>1. op'.name = "swap" /\ op'.on = k /\ op'.with = l
      BY <2>7 DEF Swap, Call
    <3>2. bytes' = [bytes EXCEPT ![k] = bytes[l], ![l] = bytes[k]]
      BY <2>7 DEF Swap, TypeOK
    <3> QED BY <2>0, <3>1, <3>2 DEF Queue!Next, Queue!Swap
  <2>8. CASE UNCHANGED vars
    BY <2>8 DEF vars, Queue!queueVars
  <2> QED BY <2>1, <2>2, <2>3, <2>5, <2>6, <2>7, <2>8 DEF Next
<1> QED BY <1>1, <1>2, TypeCorrect, PTL DEF Spec, ImplementsByteQueue, Queue!Spec

(* The vector is made longer only when what it is to hold would not fit behind
   the cheap_prepend bytes (makespace). *)
THEOREM GrowthCorrect == Spec => GrowsOnlyWhenFull
<1> DEFINE Grows(k) == Len(buf'[k].buffer_) > Len(buf[k].buffer_)
           Full(k) == cheap_prepend + read_able_bytes(buf'[k]) > Len(buf[k].buffer_)
<1>1. TypeOK /\ TypeOK' /\ [Next]_vars
        => [op'.name # "swap" => \A k \in Bufs : Grows(k) => Full(k)]_vars
  <2> SUFFICES ASSUME TypeOK, TypeOK', Next, op'.name # "swap", NEW j \in Bufs, Grows(j)
               PROVE  Full(j)
    BY DEF vars
  <2>0. /\ \A k \in Bufs : Sound(buf[k])
        /\ \A k \in Bufs : Len(buf[k].buffer_) \in Nat
        /\ Strings \subseteq Seq(Byte)
    <3>1. \A k \in Bufs : Sound(buf[k])
      BY TypeOKSound
    <3>2. \A k \in Bufs : buf[k].buffer_ \in Seq(Byte)
      BY <3>1 DEF Sound, Buffers
    <3> QED BY <3>1, <3>2, ByteAssumption
  <2>1. ASSUME NEW k \in Bufs, NEW b, buf' = [buf EXCEPT ![k] = b],
               Len(b.buffer_) = Len(buf[k].buffer_)
        PROVE  FALSE
    BY <2>0, <2>1 DEF TypeOK
  <2>2. ASSUME NEW k \in Bufs, NEW d \in Seq(Byte), NEW b, buf' = [buf EXCEPT ![k] = b],
               Sound(b), Content(b) = Content(buf[k]) \o d,
               Len(b.buffer_) > Len(buf[k].buffer_)
                 => cheap_prepend + read_able_bytes(buf[k]) + Len(d) > Len(buf[k].buffer_)
        PROVE  Full(j)
    <3>1. j = k /\ buf'[j] = b
      BY <2>0, <2>2 DEF TypeOK
    <3>2. read_able_bytes(b) = read_able_bytes(buf[k]) + Len(d)
      <4>1. /\ Len(Content(b)) = read_able_bytes(b)
            /\ Len(Content(buf[k])) = read_able_bytes(buf[k])
            /\ Content(buf[k]) \in Seq(Byte)
        BY <2>0, <2>2, ContentType
      <4>2. Len(Content(buf[k]) \o d) = Len(Content(buf[k])) + Len(d)
        BY <4>1, ConcatProperties
      <4> QED BY <2>2, <4>1, <4>2
    <3>3. read_able_bytes(buf[k]) \in Nat /\ cheap_prepend \in Nat /\ Len(d) \in Nat
      BY <2>0, ContentType, SizeAssumption
    <3>4. cheap_prepend + read_able_bytes(buf[k]) + Len(d) > Len(buf[k].buffer_)
      BY <2>2, <3>1
    <3>5. cheap_prepend + (read_able_bytes(buf[k]) + Len(d)) > Len(buf[k].buffer_)
      BY <2>0, <3>3, <3>4
    <3> QED BY <3>1, <3>2, <3>5
  <2>3. ASSUME NEW k \in Bufs, NEW d \in Strings, AppendData(k, d) PROVE Full(j)
    BY <2>0, <2>2, <2>3, AppendContent DEF AppendData
  <2>4. ASSUME NEW k \in Bufs, NEW d \in Strings, ReadFd(k, d) PROVE Full(j)
    BY <2>0, <2>2, <2>4, ReadFdContent DEF ReadFd
  <2>5. ASSUME NEW k \in Bufs, NEW d \in Strings, Prepend(k, d) PROVE Full(j)
    BY <2>0, <2>1, <2>5, PrependContent DEF Prepend
  <2>6. ASSUME NEW k \in Bufs, NEW n \in 0..MaxBytes, Retrieve(k, n) PROVE Full(j)
    <3>1. Sound(buf[k]) /\ n \in Nat /\ n <= read_able_bytes(buf[k])
      BY <2>0, <2>6 DEF Retrieve
    <3>2. retrieve(buf[k], n).buffer_ = buf[k].buffer_
      BY <3>1, RetrieveContent
    <3> QED BY <2>1, <2>6, <3>2 DEF Retrieve
  <2>7. ASSUME NEW k \in Bufs, NEW n \in 0..MaxBytes, WriteFd(k, n) PROVE Full(j)
    <3>1. Sound(buf[k]) /\ n \in Nat /\ n <= read_able_bytes(buf[k])
      BY <2>0, <2>7 DEF WriteFd
    <3>2. write_fd(buf[k], n).buffer_ = buf[k].buffer_
      BY <3>1, WriteFdContent
    <3> QED BY <2>1, <2>7, <3>2 DEF WriteFd
  <2>8. ASSUME NEW k \in Bufs, NEW l \in Bufs, Swap(k, l) PROVE FALSE
    BY <2>8 DEF Swap, Call
  <2> QED BY <2>3, <2>4, <2>5, <2>6, <2>7, <2>8 DEF Next
<1> QED BY <1>1, TypeCorrect, PTL DEF Spec, GrowsOnlyWhenFull
===============================================================================
