---------------------------- MODULE HttpConnProofs ----------------------------
(***************************************************************************)
(* What the operations of Buffer do to the bytes in it, for buffers of any *)
(* size and cells of any kind; what HttpConn, with them, does with the     *)
(* bytes of its clients, for every size of the buffers, everything the     *)
(* clients send and however it arrives; and that the parser understands    *)
(* every whole request as the client meant it.                             *)
(***************************************************************************)
EXTENDS HttpConn, SequenceTheorems, WellFoundedInduction, TLAPS
-----------------------------------------------------------------------------
(* The buffers whose cells hold elements of S.                             *)
Buffers(S) ==
  {b \in [size : Nat, cells : UNION {[0..(n - 1) -> S] : n \in Nat},
          readPos : Nat, writePos : Nat] :
     /\ b.cells \in [0..(b.size - 1) -> S]
     /\ b.readPos <= b.writePos /\ b.writePos <= b.size}

LEMMA BufferFields ==
  ASSUME NEW S, NEW b \in Buffers(S)
  PROVE  /\ b.size \in Nat /\ b.readPos \in Nat /\ b.writePos \in Nat
         /\ b.cells \in [0..(b.size - 1) -> S]
         /\ b.readPos <= b.writePos /\ b.writePos <= b.size
         /\ b = [size |-> b.size, cells |-> b.cells,
                 readPos |-> b.readPos, writePos |-> b.writePos]
BY DEF Buffers

LEMMA BufferIntro ==
  ASSUME NEW S, NEW size \in Nat, NEW cells \in [0..(size - 1) -> S],
         NEW readPos \in Nat, NEW writePos \in Nat, readPos <= writePos, writePos <= size
  PROVE  [size |-> size, cells |-> cells, readPos |-> readPos, writePos |-> writePos]
           \in Buffers(S)
BY DEF Buffers

LEMMA FunctionIsSeq ==
  ASSUME NEW S, NEW n \in Nat, NEW f \in [1..n -> S]
  PROVE  f \in Seq(S) /\ Len(f) = n
<1>1. f \in Seq(S)
  OBVIOUS
<1> QED
  BY <1>1

(* What lies between two indices is a sequence. *)
LEMMA BytesAreSeq ==
  ASSUME NEW S, NEW b \in Buffers(S), NEW i \in Nat, NEW j \in Nat, i <= j, j <= b.size
  PROVE  /\ Bytes(b, i, j) \in Seq(S)
         /\ Len(Bytes(b, i, j)) = j - i
         /\ \A k \in 1..(j - i) : Bytes(b, i, j)[k] = b.cells[i + k - 1]
<1>1. \A k \in 1..(j - i) : b.cells[i + k - 1] \in S
  BY BufferFields
<1>2. Bytes(b, i, j) \in [1..(j - i) -> S] /\ j - i \in Nat
  BY <1>1 DEF Bytes
<1>3. Bytes(b, i, j) \in Seq(S) /\ Len(Bytes(b, i, j)) = j - i
  BY <1>2, FunctionIsSeq
<1>4. \A k \in 1..(j - i) : Bytes(b, i, j)[k] = b.cells[i + k - 1]
  BY DEF Bytes
<1> QED
  BY <1>3, <1>4

LEMMA ContentIsSeq ==
  ASSUME NEW S, NEW b \in Buffers(S)
  PROVE  /\ Content(b) \in Seq(S)
         /\ Len(Content(b)) = ReadableBytes(b)
         /\ \A k \in 1..ReadableBytes(b) : Content(b)[k] = b.cells[b.readPos + k - 1]
BY BufferFields, BytesAreSeq DEF Content, ReadableBytes

(* A buffer holds a sequence if its cells do, one after the other. *)
LEMMA ContentIs ==
  ASSUME NEW S, NEW b \in Buffers(S), NEW t \in Seq(S), Len(t) = ReadableBytes(b),
         \A k \in 1..Len(t) : b.cells[b.readPos + k - 1] = t[k]
  PROVE  Content(b) = t
<1>1. Content(b) \in Seq(S) /\ Len(Content(b)) = Len(t)
  BY ContentIsSeq
<1>2. \A k \in 1..Len(t) : Content(b)[k] = t[k]
  BY ContentIsSeq
<1> QED
  BY <1>1, <1>2, SeqEqual

LEMMA NewIsEmpty ==
  ASSUME NEW S, Nul \in S, NEW n \in Nat
  PROVE  New(n) \in Buffers(S) /\ Content(New(n)) = <<>>
<1>1. New(n) \in Buffers(S)
  BY BufferIntro DEF New
<1>2. Len(Content(New(n))) = 0
  BY <1>1, ContentIsSeq DEF New, ReadableBytes
<1> QED
  BY <1>1, <1>2, ContentIsSeq

(* Retrieve takes bytes off the front and leaves the others as they were.  *)
THEOREM RetrieveDrops ==
  ASSUME NEW S, NEW b \in Buffers(S), NEW len \in 0..ReadableBytes(b)
  PROVE  /\ Retrieve(b, len) \in Buffers(S)
         /\ Content(Retrieve(b, len)) = SubSeq(Content(b), len + 1, Len(Content(b)))
<1> DEFINE c == Retrieve(b, len)
           s == Content(b)
           t == SubSeq(s, len + 1, Len(s))
<1>1. /\ c = [size |-> b.size, cells |-> b.cells, readPos |-> b.readPos + len,
              writePos |-> b.writePos]
      /\ b.readPos + len \in Nat /\ b.readPos + len <= b.writePos
  BY BufferFields DEF Retrieve, ReadableBytes
<1>2. /\ b.size \in Nat /\ b.cells \in [0..(b.size - 1) -> S]
      /\ b.readPos \in Nat /\ b.writePos \in Nat /\ b.writePos <= b.size
      /\ len \in Nat /\ ReadableBytes(b) = b.writePos - b.readPos
  BY BufferFields DEF ReadableBytes
<1>3. /\ s \in Seq(S) /\ Len(s) = ReadableBytes(b)
      /\ \A k \in 1..ReadableBytes(b) : s[k] = b.cells[b.readPos + k - 1]
  BY ContentIsSeq
<1> HIDE DEF c, s
<1>4. c \in Buffers(S)
  BY <1>1, <1>2, BufferIntro
<1>5. /\ t \in Seq(S) /\ Len(t) = ReadableBytes(b) - len
      /\ \A k \in 1..(ReadableBytes(b) - len) : t[k] = s[len + k]
  <2>1. /\ \A i \in (len + 1)..Len(s) : s[i] \in S
        /\ len + 1 \in Int /\ Len(s) \in Int
        /\ Len(s) = b.writePos - b.readPos /\ len \in 0..Len(s)
    BY <1>2, <1>3
  <2>2. /\ t \in Seq(S)
        /\ Len(t) = IF len + 1 <= Len(s) THEN Len(s) - (len + 1) + 1 ELSE 0
        /\ \A i \in 1..(Len(s) - (len + 1) + 1) : t[i] = s[(len + 1) + i - 1]
    BY <2>1, SubSeqProperties
  <2> HIDE DEF t
  <2>3. Len(t) = ReadableBytes(b) - len
    BY <1>3, <2>1, <2>2
  <2>4. ASSUME NEW k \in 1..(ReadableBytes(b) - len) PROVE t[k] = s[len + k]
    <3>1. k \in 1..(Len(s) - (len + 1) + 1) /\ (len + 1) + k - 1 = len + k
      BY <1>2, <1>3, <2>1
    <3> QED
      BY <3>1, <2>2
  <2> QED
    BY <2>2, <2>3, <2>4
<1> HIDE DEF t
<1>6. Len(t) = ReadableBytes(c)
  BY <1>1, <1>2, <1>5 DEF ReadableBytes
<1>7. ASSUME NEW k \in 1..Len(t) PROVE c.cells[c.readPos + k - 1] = t[k]
  <2>1. /\ len + k \in 1..ReadableBytes(b) /\ k \in 1..(ReadableBytes(b) - len)
        /\ (b.readPos + len) + k - 1 = b.readPos + (len + k) - 1
    BY SMTT(40), <1>2, <1>5
  <2> QED
    BY <2>1, <1>1, <1>3, <1>5
<1>8. Content(c) = t
  BY <1>4, <1>5, <1>6, <1>7, ContentIs
<1> QED
  BY <1>4, <1>8 DEF c, s, t

(* What Copied and HasWritten do to the fields.                            *)
LEMMA CopiedIs ==
  ASSUME NEW S, NEW b \in Buffers(S), NEW i, NEW s
  PROVE  Copied(b, i, s) =
           [size |-> b.size,
            cells |-> [k \in DOMAIN b.cells |->
                         IF k \in i..(i + Len(s) - 1) THEN s[k - i + 1] ELSE b.cells[k]],
            readPos |-> b.readPos, writePos |-> b.writePos]
<1> DEFINE cells == [k \in DOMAIN b.cells |->
                       IF k \in i..(i + Len(s) - 1) THEN s[k - i + 1] ELSE b.cells[k]]
<1>1. Copied(b, i, s) = [b EXCEPT !.cells = cells]
  BY DEF Copied
<1> HIDE DEF cells
<1>2. Copied(b, i, s) = [size |-> b.size, cells |-> cells,
                         readPos |-> b.readPos, writePos |-> b.writePos]
  BY <1>1, BufferFields
<1> QED
  BY <1>2 DEF cells

LEMMA HasWrittenIs ==
  ASSUME NEW size, NEW cells, NEW readPos, NEW writePos, NEW n
  PROVE  HasWritten([size |-> size, cells |-> cells, readPos |-> readPos,
                     writePos |-> writePos], n)
           = [size |-> size, cells |-> cells, readPos |-> readPos,
              writePos |-> writePos + n]
BY DEF HasWritten

(* Bytes copied behind the others, where there is room, are appended.      *)
LEMMA CopyAppends ==
  ASSUME NEW S, NEW b \in Buffers(S), NEW s \in Seq(S), Len(s) <= WritableBytes(b)
  PROVE  /\ HasWritten(Copied(b, b.writePos, s), Len(s)) \in Buffers(S)
         /\ Content(HasWritten(Copied(b, b.writePos, s), Len(s))) = Content(b) \o s
<1> DEFINE cells == [k \in DOMAIN b.cells |->
                       IF k \in b.writePos..(b.writePos + Len(s) - 1)
                       THEN s[k - b.writePos + 1] ELSE b.cells[k]]
           c == HasWritten(Copied(b, b.writePos, s), Len(s))
           r == Content(b)
           t == r \o s
<1>1. /\ b.size \in Nat /\ b.cells \in [0..(b.size - 1) -> S]
      /\ b.readPos \in Nat /\ b.writePos \in Nat
      /\ b.readPos <= b.writePos /\ b.writePos <= b.size
      /\ Len(s) \in Nat /\ b.writePos + Len(s) <= b.size
      /\ ReadableBytes(b) = b.writePos - b.readPos
  BY BufferFields DEF ReadableBytes, WritableBytes
<1>2. c = [size |-> b.size, cells |-> cells, readPos |-> b.readPos,
           writePos |-> b.writePos + Len(s)]
  <2>1. Copied(b, b.writePos, s) = [size |-> b.size, cells |-> cells, readPos |-> b.readPos,
                                    writePos |-> b.writePos]
    BY CopiedIs
  <2> HIDE DEF cells
  <2> QED
    BY <2>1, HasWrittenIs
<1>3. cells \in [0..(b.size - 1) -> S]
  <2>1. \A k \in 1..Len(s) : s[k] \in S
    OBVIOUS
  <2> QED
    BY SMTT(40), <1>1, <2>1
<1>4. /\ \A k \in 0..(b.writePos - 1) : cells[k] = b.cells[k]
      /\ \A k \in 1..Len(s) : cells[b.writePos + k - 1] = s[k]
  <2>1. ASSUME NEW k \in 0..(b.writePos - 1) PROVE cells[k] = b.cells[k]
    <3>1. k \in 0..(b.size - 1) /\ ~(k \in b.writePos..(b.writePos + Len(s) - 1))
      BY <1>1
    <3> QED
      BY <1>1, <3>1
  <2>2. ASSUME NEW k \in 1..Len(s) PROVE cells[b.writePos + k - 1] = s[k]
    <3>1. /\ b.writePos + k - 1 \in 0..(b.size - 1)
          /\ b.writePos + k - 1 \in b.writePos..(b.writePos + Len(s) - 1)
          /\ (b.writePos + k - 1) - b.writePos + 1 = k
      BY SMTT(40), <1>1
    <3> QED
      BY <1>1, <3>1
  <2> QED
    BY <2>1, <2>2
<1>5. /\ r \in Seq(S) /\ Len(r) = ReadableBytes(b)
      /\ \A k \in 1..ReadableBytes(b) : r[k] = b.cells[b.readPos + k - 1]
  BY ContentIsSeq
<1> HIDE DEF cells, c, r
<1>6. /\ t \in Seq(S) /\ Len(t) = Len(r) + Len(s)
      /\ \A k \in 1..(Len(r) + Len(s)) : t[k] = IF k <= Len(r) THEN r[k] ELSE s[k - Len(r)]
  BY <1>5, ConcatProperties
<1> HIDE DEF t
<1>7. c \in Buffers(S)
  <2>1. /\ b.writePos + Len(s) \in Nat /\ b.readPos <= b.writePos + Len(s)
    BY <1>1
  <2> QED
    BY <1>1, <1>2, <1>3, <2>1, BufferIntro
<1>8. Len(t) = ReadableBytes(c)
  BY <1>1, <1>2, <1>5, <1>6 DEF ReadableBytes
<1>9. ASSUME NEW k \in 1..Len(t) PROVE c.cells[c.readPos + k - 1] = t[k]
  <2>1. CASE k <= Len(r)
    <3>1. /\ k \in 1..ReadableBytes(b) /\ t[k] = r[k]
          /\ b.readPos + k - 1 \in 0..(b.writePos - 1)
      BY SMTT(40), <2>1, <1>1, <1>5, <1>6
    <3>2. r[k] = b.cells[b.readPos + k - 1]
      BY <3>1, <1>5
    <3>3. cells[b.readPos + k - 1] = b.cells[b.readPos + k - 1]
      BY <3>1, <1>4
    <3>4. c.cells = cells /\ c.readPos = b.readPos
      BY <1>2
    <3> QED
      BY <3>1, <3>2, <3>3, <3>4
  <2>2. CASE ~(k <= Len(r))
    <3>1. Len(r) = b.writePos - b.readPos /\ k \in 1..(Len(r) + Len(s))
      BY <1>1, <1>5, <1>6
    <3>2. t[k] = s[k - Len(r)]
      BY <2>2, <3>1, <1>6
    <3> DEFINE i == b.readPos
               j == b.writePos
               n == Len(r)
               m == Len(s)
    <3>3. /\ i \in Nat /\ j \in Nat /\ i <= j /\ m \in Nat
          /\ n = j - i /\ k \in 1..(n + m) /\ ~(k <= n)
      BY <1>1, <2>2, <3>1
    <3> HIDE DEF i, j, n, m
    <3>4. k - n \in 1..m /\ i + k - 1 = j + (k - n) - 1
      BY <3>3
    <3> QED
      BY <3>2, <3>4, <1>2, <1>4 DEF i, j, n, m
  <2> QED
    BY <2>1, <2>2
<1>10. Content(c) = t
  BY <1>6, <1>7, <1>8, <1>9, ContentIs
<1> QED
  BY <1>7, <1>10 DEF c, t, r

(* MakeSpace_ makes as much room as was asked for, by moving the bytes to  *)
(* the front or by growing the vector, and neither loses nor repeats any.  *)
THEOREM MakeSpaceKeeps ==
  ASSUME NEW S, Nul \in S, NEW b \in Buffers(S), NEW len \in Nat
  PROVE  /\ MakeSpace_(b, len) \in Buffers(S)
         /\ Content(MakeSpace_(b, len)) = Content(b)
         /\ len <= WritableBytes(MakeSpace_(b, len))
<1> DEFINE c == MakeSpace_(b, len)
           s == Content(b)
<1>1. /\ b.size \in Nat /\ b.cells \in [0..(b.size - 1) -> S]
      /\ b.readPos \in Nat /\ b.writePos \in Nat
      /\ b.readPos <= b.writePos /\ b.writePos <= b.size
      /\ ReadableBytes(b) = b.writePos - b.readPos
  BY BufferFields DEF ReadableBytes
<1>2. /\ s \in Seq(S) /\ Len(s) = ReadableBytes(b)
      /\ \A k \in 1..ReadableBytes(b) : s[k] = b.cells[b.readPos + k - 1]
  BY ContentIsSeq
<1>3. CASE WritableBytes(b) + PrependableBytes(b) < len
  <2> DEFINE cells == [i \in 0..(b.writePos + len - 1) |->
                         IF i \in DOMAIN b.cells THEN b.cells[i] ELSE Nul]
  <2>1. c = [size |-> b.writePos + len, cells |-> cells,
             readPos |-> b.readPos, writePos |-> b.writePos]
    <3> DEFINE d == [b EXCEPT !.size = b.writePos + len]
    <3>1. c = [d EXCEPT !.cells = cells]
      BY <1>3 DEF MakeSpace_
    <3>2. d = [size |-> b.writePos + len, cells |-> b.cells,
               readPos |-> b.readPos, writePos |-> b.writePos]
      BY BufferFields
    <3> HIDE DEF c, d, cells
    <3> QED
      BY <3>1, <3>2
  <2>2. cells \in [0..((b.writePos + len) - 1) -> S]
    BY <1>1
  <2>3. \A k \in 0..(b.writePos - 1) : cells[k] = b.cells[k]
    BY <1>1
  <2> HIDE DEF cells, c, s
  <2>4. c \in Buffers(S)
    <3>1. b.writePos + len \in Nat /\ b.writePos <= b.writePos + len
      BY <1>1
    <3> QED
      BY <1>1, <2>1, <2>2, <3>1, BufferIntro
  <2>5. Len(s) = ReadableBytes(c) /\ len <= WritableBytes(c)
    BY <1>1, <1>2, <2>1 DEF ReadableBytes, WritableBytes
  <2>6. ASSUME NEW k \in 1..Len(s) PROVE c.cells[c.readPos + k - 1] = s[k]
    <3>1. b.readPos + k - 1 \in 0..(b.writePos - 1) /\ k \in 1..ReadableBytes(b)
      BY <1>1, <1>2
    <3> QED
      BY <3>1, <1>2, <2>1, <2>3
  <2>7. Content(c) = s
    BY <1>2, <2>4, <2>5, <2>6, ContentIs
  <2> QED
    BY <2>4, <2>5, <2>7 DEF c, s
<1>4. CASE ~(WritableBytes(b) + PrependableBytes(b) < len)
  <2> DEFINE cells == [k \in DOMAIN b.cells |->
                         IF k \in 0..(0 + Len(s) - 1) THEN s[k - 0 + 1] ELSE b.cells[k]]
  <2>1. c = [size |-> b.size, cells |-> cells, readPos |-> 0,
             writePos |-> ReadableBytes(b)]
    <3> DEFINE d == [Copied(b, 0, s) EXCEPT !.readPos = 0]
    <3>1. c = [d EXCEPT !.writePos = ReadableBytes(b)]
      BY <1>4 DEF MakeSpace_
    <3>2. Copied(b, 0, s) = [size |-> b.size, cells |-> cells, readPos |-> b.readPos,
                             writePos |-> b.writePos]
      BY CopiedIs
    <3> HIDE DEF c, s, cells
    <3>3. d = [size |-> b.size, cells |-> cells, readPos |-> 0, writePos |-> b.writePos]
      BY <3>2
    <3> HIDE DEF d
    <3> QED
      BY <3>1, <3>3
  <2> HIDE DEF c, s
  <2>2. cells \in [0..(b.size - 1) -> S]
    <3>1. \A k \in 1..Len(s) : s[k] \in S
      BY <1>2
    <3> QED
      BY <1>1, <1>2, <3>1
  <2>3. \A k \in 1..Len(s) : cells[k - 1] = s[k]
    BY SMTT(40), <1>1, <1>2
  <2> HIDE DEF cells
  <2>4. c \in Buffers(S)
    <3>1. ReadableBytes(b) \in Nat /\ 0 <= ReadableBytes(b) /\ ReadableBytes(b) <= b.size
      BY <1>1
    <3> QED
      BY <1>1, <2>1, <2>2, <3>1, BufferIntro
  <2>5. Len(s) = ReadableBytes(c) /\ len <= WritableBytes(c)
    BY <1>1, <1>2, <1>4, <2>1 DEF ReadableBytes, WritableBytes, PrependableBytes
  <2>6. \A k \in 1..Len(s) : c.cells[c.readPos + k - 1] = s[k]
    BY <1>2, <2>1, <2>3
  <2>7. Content(c) = s
    BY <1>2, <2>4, <2>5, <2>6, ContentIs
  <2> QED
    BY <2>4, <2>5, <2>7 DEF c, s
<1> QED
  BY <1>3, <1>4

LEMMA EnsureKeeps ==
  ASSUME NEW S, Nul \in S, NEW b \in Buffers(S), NEW len \in Nat
  PROVE  /\ EnsureWriteable(b, len) \in Buffers(S)
         /\ Content(EnsureWriteable(b, len)) = Content(b)
         /\ len <= WritableBytes(EnsureWriteable(b, len))
<1>1. CASE len > WritableBytes(b)
  BY <1>1, MakeSpaceKeeps DEF EnsureWriteable
<1>2. CASE ~(len > WritableBytes(b))
  <2>1. WritableBytes(b) \in Nat
    BY BufferFields DEF WritableBytes
  <2> QED
    BY <1>2, <2>1 DEF EnsureWriteable
<1> QED
  BY <1>1, <1>2

(* Append puts its bytes behind those the buffer holds.                    *)
THEOREM AppendAppends ==
  ASSUME NEW S, Nul \in S, NEW b \in Buffers(S), NEW s \in Seq(S)
  PROVE  /\ Append_(b, s) \in Buffers(S)
         /\ Content(Append_(b, s)) = Content(b) \o s
<1> DEFINE room == EnsureWriteable(b, Len(s))
<1>1. /\ room \in Buffers(S) /\ Content(room) = Content(b)
      /\ Len(s) <= WritableBytes(room)
  <2>1. Len(s) \in Nat
    OBVIOUS
  <2> QED
    BY <2>1, EnsureKeeps
<1> HIDE DEF room
<1>2. /\ HasWritten(Copied(room, room.writePos, s), Len(s)) \in Buffers(S)
      /\ Content(HasWritten(Copied(room, room.writePos, s), Len(s))) = Content(room) \o s
  BY <1>1, CopyAppends
<1> QED
  BY <1>1, <1>2 DEF Append_, room

(* ReadFd puts what readv took behind the bytes the buffer holds, in the   *)
(* order it came, whether it fits behind them or goes by way of the stack. *)
THEOREM ReadFdAppends ==
  ASSUME NEW S, Nul \in S, NEW b \in Buffers(S), NEW s \in Seq(S)
  PROVE  /\ ReadFd(b, s) \in Buffers(S)
         /\ Content(ReadFd(b, s)) = Content(b) \o s
<1> DEFINE w == WritableBytes(b)
           head == SubSeq(s, 1, w)
           tail == SubSeq(s, w + 1, Len(s))
<1>1. /\ w \in Nat /\ b.writePos + w = b.size /\ b.writePos \in Nat
  BY BufferFields DEF WritableBytes
<1>2. CASE Len(s) <= w
  BY <1>2, CopyAppends DEF ReadFd
<1>3. CASE ~(Len(s) <= w)
  <2> HIDE DEF w
  <2>1. Len(s) \in Nat /\ \A i \in 1..Len(s) : s[i] \in S
    OBVIOUS
  <2>2. /\ head \in Seq(S) /\ Len(head) = w
        /\ \A i \in 1..w : head[i] = s[i]
    BY <1>1, <1>3, <2>1, SubSeqProperties
  <2>3. /\ tail \in Seq(S) /\ Len(tail) = Len(s) - w
        /\ \A i \in 1..(Len(s) - w) : tail[i] = s[w + i]
    BY <1>1, <1>3, <2>1, SubSeqProperties
  <2> HIDE DEF head, tail
  <2>4. head \o tail = s
    <3>1. /\ head \o tail \in Seq(S) /\ Len(head \o tail) = Len(s)
          /\ \A i \in 1..Len(s) : (head \o tail)[i] =
               IF i <= w THEN head[i] ELSE tail[i - w]
      BY <1>1, <2>1, <2>2, <2>3, ConcatProperties
    <3>2. ASSUME NEW i \in 1..Len(s) PROVE (head \o tail)[i] = s[i]
      <4>1. CASE i <= w
        BY <4>1, <1>1, <3>1, <2>2
      <4>2. CASE ~(i <= w)
        <5>1. i - w \in 1..(Len(s) - w) /\ w + (i - w) = i
          BY <4>2, <1>1, <2>1
        <5> QED
          BY <4>2, <5>1, <3>1, <2>3
      <4> QED
        BY <4>1, <4>2
    <3> QED
      BY <3>1, <3>2, SeqEqual
  <2> DEFINE full == HasWritten(Copied(b, b.writePos, head), Len(head))
  <2>5. full \in Buffers(S) /\ Content(full) = Content(b) \o head
    BY SMTT(40), <1>1, <2>2, CopyAppends DEF w
  <2>6. full = [Copied(b, b.writePos, head) EXCEPT !.writePos = b.size]
    BY <1>1, <2>2, BufferFields DEF HasWritten, Copied
  <2>7. ReadFd(b, s) = Append_(full, tail)
    BY <1>3, <2>6 DEF ReadFd, w, head, tail
  <2> HIDE DEF full
  <2>8. /\ Append_(full, tail) \in Buffers(S)
        /\ Content(Append_(full, tail)) = (Content(b) \o head) \o tail
    BY <2>3, <2>5, AppendAppends
  <2>9. (Content(b) \o head) \o tail = Content(b) \o (head \o tail)
    <3>1. Content(b) \in Seq(S)
      BY ContentIsSeq
    <3>2. \A x, y, z \in Seq(S) : (x \o y) \o z = x \o (y \o z)
      OBVIOUS
    <3> QED
      BY <2>2, <2>3, <3>1, <3>2, Zenon
  <2> QED
    BY <2>4, <2>7, <2>8, <2>9
<1> QED
  BY <1>2, <1>3
-----------------------------------------------------------------------------
(* A piece of a sequence. *)
LEMMA Piece ==
  ASSUME NEW S, NEW s \in Seq(S), NEW a \in Nat, NEW c \in Nat,
         1 <= a, a <= c + 1, c <= Len(s)
  PROVE  /\ SubSeq(s, a, c) \in Seq(S) /\ Len(SubSeq(s, a, c)) = c - a + 1
         /\ \A k \in 1..(c - a + 1) : SubSeq(s, a, c)[k] = s[a + k - 1]
<1>1. \A i \in a..c : s[i] \in S
  OBVIOUS
<1>2. /\ SubSeq(s, a, c) \in Seq(S)
      /\ Len(SubSeq(s, a, c)) = IF a <= c THEN c - a + 1 ELSE 0
      /\ \A i \in 1..(c - a + 1) : SubSeq(s, a, c)[i] = s[a + i - 1]
  BY <1>1, SubSeqProperties
<1> QED
  BY <1>2

LEMMA PiecesJoin ==
  ASSUME NEW S, NEW s \in Seq(S), NEW a \in Nat, NEW c \in Nat, NEW d \in Nat,
         1 <= a, a <= c + 1, c <= d, d <= Len(s)
  PROVE  SubSeq(s, a, c) \o SubSeq(s, c + 1, d) = SubSeq(s, a, d)
<1> DEFINE x == SubSeq(s, a, c)
           y == SubSeq(s, c + 1, d)
           z == SubSeq(s, a, d)
<1>1. Len(s) \in Nat /\ c + 1 \in Nat
  OBVIOUS
<1>2. /\ x \in Seq(S) /\ Len(x) = c - a + 1
      /\ \A k \in 1..(c - a + 1) : x[k] = s[a + k - 1]
  BY <1>1, Piece
<1>3. /\ y \in Seq(S) /\ Len(y) = d - (c + 1) + 1
      /\ \A k \in 1..(d - (c + 1) + 1) : y[k] = s[(c + 1) + k - 1]
  BY <1>1, Piece
<1>4. /\ z \in Seq(S) /\ Len(z) = d - a + 1
      /\ \A k \in 1..(d - a + 1) : z[k] = s[a + k - 1]
  BY <1>1, Piece
<1> HIDE DEF x, y, z
<1>5. /\ x \o y \in Seq(S) /\ Len(x \o y) = Len(x) + Len(y)
      /\ \A k \in 1..(Len(x) + Len(y)) :
           (x \o y)[k] = IF k <= Len(x) THEN x[k] ELSE y[k - Len(x)]
  BY <1>2, <1>3, ConcatProperties
<1>6. ASSUME NEW k \in 1..(d - a + 1) PROVE (x \o y)[k] = z[k]
  <2>1. k \in 1..(Len(x) + Len(y))
    BY <1>2, <1>3
  <2>2. CASE k <= Len(x)
    <3>1. k \in 1..(c - a + 1)
      BY <1>2, <2>2
    <3> QED
      BY <3>1, <2>1, <2>2, <1>2, <1>4, <1>5
  <2>3. CASE ~(k <= Len(x))
    <3>1. /\ k - Len(x) \in 1..(d - (c + 1) + 1)
          /\ (c + 1) + (k - Len(x)) - 1 = a + k - 1
      BY <1>2, <2>3
    <3>2. (x \o y)[k] = y[k - Len(x)]
      BY <1>5, <2>1, <2>3
    <3> QED
      BY <3>1, <3>2, <1>3, <1>4
  <2> QED
    BY <2>2, <2>3
<1>7. Len(x \o y) = Len(z) /\ Len(z) = d - a + 1
  BY <1>2, <1>3, <1>4, <1>5
<1>8. x \o y = z
  BY <1>4, <1>5, <1>6, <1>7, SeqEqual
<1> QED
  BY <1>8 DEF x, y, z

LEMMA TailOfPiece ==
  ASSUME NEW S, NEW s \in Seq(S), NEW a \in Nat, NEW c \in Nat,
         1 <= a, a <= c + 1, c <= Len(s), NEW len \in 0..(c - a + 1)
  PROVE  SubSeq(SubSeq(s, a, c), len + 1, c - a + 1) = SubSeq(s, a + len, c)
<1> DEFINE x == SubSeq(s, a, c)
           y == SubSeq(x, len + 1, c - a + 1)
           z == SubSeq(s, a + len, c)
<1>1. /\ x \in Seq(S) /\ Len(x) = c - a + 1
      /\ \A k \in 1..(c - a + 1) : x[k] = s[a + k - 1]
  BY Piece
<1>2. /\ len + 1 \in Nat /\ c - a + 1 \in Nat /\ 1 <= len + 1
      /\ len + 1 <= (c - a + 1) + 1 /\ a + len \in Nat /\ 1 <= a + len /\ a + len <= c + 1
  OBVIOUS
<1>3. /\ z \in Seq(S) /\ Len(z) = c - (a + len) + 1
      /\ \A k \in 1..(c - (a + len) + 1) : z[k] = s[(a + len) + k - 1]
  BY <1>2, Piece
<1> HIDE DEF x, z
<1>4. /\ y \in Seq(S) /\ Len(y) = (c - a + 1) - (len + 1) + 1
      /\ \A k \in 1..((c - a + 1) - (len + 1) + 1) : y[k] = x[(len + 1) + k - 1]
  BY <1>1, <1>2, Piece
<1> HIDE DEF y
<1>5. ASSUME NEW k \in 1..(c - (a + len) + 1) PROVE y[k] = z[k]
  <2>1. /\ k \in 1..((c - a + 1) - (len + 1) + 1)
        /\ (len + 1) + k - 1 = len + k /\ len + k \in 1..(c - a + 1)
        /\ a + (len + k) - 1 = (a + len) + k - 1
    OBVIOUS
  <2> QED
    BY <2>1, <1>1, <1>3, <1>4
<1>6. Len(y) = Len(z) /\ Len(z) = c - (a + len) + 1
  BY <1>3, <1>4
<1>7. y = z
  BY <1>3, <1>4, <1>5, <1>6, SeqEqual
<1> QED
  BY <1>7 DEF x, y, z
-----------------------------------------------------------------------------
(* The bytes in b are those of s up to the t-th that are left to be read.  *)
Unread(b, s, t) ==
  /\ ReadableBytes(b) <= t
  /\ Content(b) = SubSeq(s, t - ReadableBytes(b) + 1, t)

LEMMA UnreadOfNew ==
  ASSUME NEW S, Nul \in S, NEW n \in Nat, NEW s
  PROVE  Unread(New(n), s, 0)
<1>1. New(n) \in Buffers(S) /\ Content(New(n)) = <<>> /\ ReadableBytes(New(n)) = 0
  BY NewIsEmpty DEF New, ReadableBytes
<1>2. SubSeq(s, 0 - 0 + 1, 0) = <<>>
  BY SubSeqEmpty
<1> QED
  BY <1>1, <1>2 DEF Unread

LEMMA UnreadAfterRead ==
  ASSUME NEW S, Nul \in S, NEW b \in Buffers(S), NEW s \in Seq(S), NEW t \in Nat,
         NEW n \in Nat, t + n <= Len(s), Unread(b, s, t)
  PROVE  /\ ReadFd(b, SubSeq(s, t + 1, t + n)) \in Buffers(S)
         /\ Unread(ReadFd(b, SubSeq(s, t + 1, t + n)), s, t + n)
<1> DEFINE p == SubSeq(s, t + 1, t + n)
           c == ReadFd(b, p)
<1>1. Len(s) \in Nat /\ ReadableBytes(b) \in Nat /\ ReadableBytes(b) <= t
  BY SMTT(40), BufferFields DEF ReadableBytes, Unread
<1>2. p \in Seq(S) /\ Len(p) = n
  BY <1>1, Piece
<1>3. c \in Buffers(S) /\ Content(c) = Content(b) \o p
  BY <1>2, ReadFdAppends
<1> DEFINE a == t - ReadableBytes(b) + 1
<1>4. /\ a \in Nat /\ 1 <= a /\ a <= t + 1 /\ t <= Len(s)
      /\ t + n \in Nat /\ t <= t + n
  BY <1>1
<1>5. Content(b) = SubSeq(s, a, t)
  BY DEF Unread
<1> HIDE DEF a, c
<1>6. Content(c) = SubSeq(s, a, t + n)
  <2>1. SubSeq(s, a, t) \o p = SubSeq(s, a, t + n)
    BY <1>4, PiecesJoin
  <2> QED
    BY <2>1, <1>3, <1>5
<1>7. Len(Content(c)) = (t + n) - a + 1
  <2>1. a <= (t + n) + 1
    BY <1>4
  <2> HIDE DEF p
  <2> QED
    BY <2>1, <1>4, <1>6, Piece
<1>8. Len(Content(c)) = ReadableBytes(c)
  BY <1>3, ContentIsSeq
<1>9. ReadableBytes(c) = ReadableBytes(b) + n
  BY <1>1, <1>7, <1>8 DEF a
<1>10. a = (t + n) - ReadableBytes(c) + 1 /\ ReadableBytes(c) <= t + n
  BY <1>1, <1>9 DEF a
<1> QED
  BY <1>3, <1>6, <1>10 DEF Unread, c, p

LEMMA UnreadAfterRetrieve ==
  ASSUME NEW S, NEW b \in Buffers(S), NEW s \in Seq(S), NEW t \in Nat,
         t <= Len(s), Unread(b, s, t), NEW len \in 0..ReadableBytes(b)
  PROVE  /\ Retrieve(b, len) \in Buffers(S)
         /\ Unread(Retrieve(b, len), s, t)
<1> DEFINE c == Retrieve(b, len)
           a == t - ReadableBytes(b) + 1
<1>1. Len(s) \in Nat /\ ReadableBytes(b) \in Nat /\ ReadableBytes(b) <= t
  BY BufferFields DEF ReadableBytes, Unread
<1>2. /\ a \in Nat /\ 1 <= a /\ a <= t + 1
      /\ t - a + 1 = ReadableBytes(b) /\ len \in 0..(t - a + 1)
  BY <1>1
<1>3. Content(b) = SubSeq(s, a, t)
  BY DEF Unread
<1>4. /\ c \in Buffers(S)
      /\ Content(c) = SubSeq(Content(b), len + 1, Len(Content(b)))
      /\ Len(Content(b)) = ReadableBytes(b)
  BY RetrieveDrops, ContentIsSeq
<1>5. ReadableBytes(c) = ReadableBytes(b) - len
  BY BufferFields DEF Retrieve, ReadableBytes
<1> HIDE DEF a, c
<1>6. Content(c) = SubSeq(SubSeq(s, a, t), len + 1, t - a + 1)
  BY <1>2, <1>3, <1>4
<1>7. Content(c) = SubSeq(s, a + len, t)
  BY <1>2, <1>6, TailOfPiece
<1>8. a + len = t - ReadableBytes(c) + 1 /\ ReadableBytes(c) <= t
  BY <1>1, <1>5 DEF a
<1> QED
  BY <1>4, <1>7, <1>8 DEF Unread, c

(* search finds a place in the buffer, with room for a CRLF if not its end. *)
LEMMA LeastExists ==
  ASSUME NEW T \in SUBSET Nat, T # {}
  PROVE  \E m \in T : \A k \in T : m <= k
<1> DEFINE R == OpToRel(<, Nat)
<1>1. IsWellFoundedOn(R, Nat)
  BY NatLessThanWellFounded
<1>2. PICK m \in T : \A k \in T : <<k, m>> \notin R
  <2> HIDE DEF R
  <2> QED
    BY <1>1, WFMin
<1>3. \A k \in T : ~(k < m)
  BY <1>2 DEF OpToRel
<1> QED
  BY <1>3

LEMMA LineEndInside ==
  ASSUME NEW S, NEW b \in Buffers(S)
  PROVE  /\ LineEnd(b) \in b.readPos..b.writePos
         /\ LineEnd(b) # b.writePos => LineEnd(b) + 2 <= b.writePos
<1>1. b.readPos \in Nat /\ b.writePos \in Nat /\ b.readPos <= b.writePos
  BY BufferFields
<1>2. CASE LineEnds(b) = {}
  BY <1>1, <1>2 DEF LineEnd
<1>3. CASE LineEnds(b) # {}
  <2>1. LineEnds(b) \in SUBSET Nat
    BY <1>1 DEF LineEnds
  <2>2. LineEnd(b) \in LineEnds(b)
    BY <1>3, <2>1, LeastExists DEF LineEnd
  <2>3. LineEnd(b) \in b.readPos..(b.writePos - 2)
    BY <2>2 DEF LineEnds
  <2> QED
    BY <1>1, <2>3
<1> QED
  BY <1>2, <1>3

LEMMA UnreadAfterLine ==
  ASSUME NEW S, NEW b \in Buffers(S), NEW s \in Seq(S), NEW t \in Nat,
         t <= Len(s), Unread(b, s, t)
  PROVE  /\ AfterLine(b, LineEnd(b)) \in Buffers(S)
         /\ Unread(AfterLine(b, LineEnd(b)), s, t)
<1> DEFINE end == LineEnd(b)
           to == IF end = b.writePos THEN end ELSE end + 2
<1>1. b.readPos \in Nat /\ b.writePos \in Nat /\ ReadableBytes(b) = b.writePos - b.readPos
  BY BufferFields DEF ReadableBytes
<1>2. end \in b.readPos..b.writePos /\ (end # b.writePos => end + 2 <= b.writePos)
  BY LineEndInside
<1> HIDE DEF end
<1>3. to - b.readPos \in 0..ReadableBytes(b)
  BY <1>1, <1>2
<1>4. AfterLine(b, end) = Retrieve(b, to - b.readPos)
  BY DEF AfterLine, RetrieveUntil
<1> HIDE DEF to
<1>5. /\ Retrieve(b, to - b.readPos) \in Buffers(S)
      /\ Unread(Retrieve(b, to - b.readPos), s, t)
  BY <1>3, UnreadAfterRetrieve
<1> QED
  BY <1>4, <1>5 DEF end
-----------------------------------------------------------------------------
(* The read buffer holds words, and as long as there is a client, its      *)
(* words that the parser has yet to see.                                   *)
Reading ==
  /\ readBuff \in Buffers(Words)
  /\ stream \in Seq(Words) /\ arrived \in Nat /\ taken \in Nat /\ visits \in Nat
  /\ taken <= arrived /\ arrived <= Len(stream)
  /\ pc \notin {"closed", "dead", "raced"} => Unread(readBuff, stream, taken)

LEMMA ReadingInit == Init => Reading
<1> SUFFICES ASSUME Init PROVE Reading
  OBVIOUS
<1>1. readBuff \in Buffers(Words)
  BY NewIsEmpty, SizesAreNat DEF Init, Words
<1>2. stream \in Seq(Words) /\ Len(stream) = 0
  BY DEF Init
<1> QED
  BY <1>1, <1>2 DEF Init, Reading

(* What is left when the client is forgotten. *)
LEMMA ForgetKeeps ==
  ASSUME Reading, Forget, pc' \in {"closed", "dead", "raced"}
  PROVE  Reading'
<1>1. stream' \in Seq(Words) /\ Len(stream') = 0
  BY DEF Forget
<1> QED
  BY <1>1 DEF Forget, Reading, buffers

(* The steps that leave the client's words and the read buffer alone. *)
LEMMA ElsewhereKeeps ==
  ASSUME Reading, UNCHANGED <<readBuff, stream, taken, visits>>,
         arrived' \in Nat, arrived <= arrived', arrived' <= Len(stream),
         pc \notin {"closed", "dead", "raced"}
  PROVE  Reading'
<1>1. Len(stream) \in Nat
  BY DEF Reading
<1> QED
  BY <1>1 DEF Reading

LEMMA ReadingStep == Reading /\ [Next]_vars => Reading'
<1> SUFFICES ASSUME Reading, [Next]_vars PROVE Reading'
  OBVIOUS
<1> USE DEF client, buffers, output
<1>0. arrived \in Nat /\ arrived <= Len(stream) /\ Len(stream) \in Nat
  BY DEF Reading
<1>1. CASE Arrive
  <2>1. arrived' \in Nat /\ arrived <= arrived' /\ arrived' <= Len(stream)
    BY <1>0, <1>1 DEF Arrive
  <2> QED
    BY <1>1, <2>1, ElsewhereKeeps DEF Arrive
<1>2. CASE init
  <2>1. PICK s \in Streams[visits'] : stream' = Encoded(s)
    BY <1>2 DEF init
  <2>2. visits' \in 1..Len(Streams)
    BY <1>2 DEF init, Reading
  <2>3. stream' \in Seq(Words)
    BY <2>1, <2>2, StreamsAreWords DEF Sent
  <2>4. readBuff' = New(readBuff.size) /\ readBuff.size \in Nat /\ Nul \in Words
    BY <1>2, BufferFields DEF init, RetrieveAll, Reading, Words
  <2>5. readBuff' \in Buffers(Words) /\ Unread(readBuff', stream', 0)
    BY <2>4, NewIsEmpty, UnreadOfNew
  <2>6. Len(stream') \in Nat
    BY <2>3
  <2>7. arrived' = 0 /\ taken' = 0 /\ visits' \in Nat
    BY <1>2, <2>2 DEF init, Reading
  <2> QED
    BY <2>3, <2>5, <2>6, <2>7 DEF Reading
<1>3. CASE Read
  <2> DEFINE n == ReadAtMost(readBuff, arrived - taken)
  <2>1. /\ readBuff \in Buffers(Words) /\ stream \in Seq(Words) /\ taken \in Nat
        /\ Unread(readBuff, stream, taken) /\ taken <= arrived /\ Nul \in Words
    BY <1>3 DEF Read, Reading, Words
  <2>2. n \in Nat /\ taken + n <= arrived
    BY <1>0, <2>1, BufferFields, StackSizeIsNat DEF ReadAtMost, WritableBytes
  <2>3. /\ readBuff' = ReadFd(readBuff, SubSeq(stream, taken + 1, taken + n))
        /\ taken' = taken + n /\ UNCHANGED <<stream, arrived, visits>>
    BY <1>3 DEF Read
  <2> HIDE DEF n
  <2>4. readBuff' \in Buffers(Words) /\ Unread(readBuff', stream, taken + n)
    <3>1. taken + n <= Len(stream)
      BY <1>0, <2>1, <2>2
    <3> QED
      BY <3>1, <2>1, <2>2, <2>3, UnreadAfterRead
  <2>5. taken' \in Nat /\ taken' <= arrived'
    BY <2>1, <2>2, <2>3
  <2> QED
    BY <2>3, <2>4, <2>5 DEF Reading
<1>4. CASE Parse
  <2>1. /\ readBuff \in Buffers(Words) /\ stream \in Seq(Words) /\ taken \in Nat
        /\ Unread(readBuff, stream, taken) /\ taken <= Len(stream)
    BY <1>0, <1>4 DEF Parse, Reading
  <2>2. /\ UNCHANGED <<stream, arrived, taken, visits>>
        /\ readBuff' \in {readBuff, AfterLine(readBuff, LineEnd(readBuff))}
    BY <1>4 DEF Parse
  <2>3. readBuff' \in Buffers(Words) /\ Unread(readBuff', stream, taken)
    BY <2>1, <2>2, UnreadAfterLine
  <2> QED
    BY <2>2, <2>3 DEF Reading
<1>5. CASE MainCloses \/ TimerCloses \/ ReadEnds \/ WriteCloses
  BY <1>5, ForgetKeeps DEF MainCloses, TimerCloses, ReadEnds, WriteCloses, Close
<1>6. CASE Leave \/ DealRead \/ ReadAgain \/ Process
  BY <1>0, <1>6, ElsewhereKeeps DEF Leave, DealRead, ReadAgain, Process
<1>7. CASE Respond
  <2>1. CASE Dies
    BY <2>1, ForgetKeeps DEF Dies
  <2>2. CASE ~Dies
    <3>1. UNCHANGED <<client, readBuff>> /\ pc = "respond"
      BY <1>7, <2>2 DEF Respond
    <3> QED
      BY <1>0, <3>1, ElsewhereKeeps
  <2> QED
    BY <2>1, <2>2
<1>8. CASE DealWrite \/ Write \/ WriteEnds \/ WriteAgain \/ WriteOn
  BY <1>0, <1>8, ElsewhereKeeps DEF DealWrite, Write, WriteEnds, WriteAgain, WriteOn
<1>9. CASE WriteFails
  <2>1. CASE Dies
    BY <2>1, ForgetKeeps DEF Dies
  <2>2. CASE ~Dies
    <3>1. pc = "write" /\ UNCHANGED <<client, readBuff>>
      BY <1>9, <2>2 DEF WriteFails
    <3> QED
      BY <1>0, <3>1, ElsewhereKeeps
  <2> QED
    BY <2>1, <2>2
<1>10. CASE UNCHANGED vars
  BY <1>10 DEF Reading, vars
<1> QED
  BY <1>1, <1>2, <1>3, <1>4, <1>5, <1>6, <1>7, <1>8, <1>9, <1>10 DEF Next

(* No word of a client is lost, repeated or moved on its way from the      *)
(* kernel to the parser (HttpConn::read, ReadFd, search, RetrieveUntil).   *)
THEOREM InputInOrder == Spec => []InOrder
<1>1. Reading => InOrder
  BY BufferFields DEF Reading, Unread, InOrder
<1> QED
  BY <1>1, ReadingInit, ReadingStep, PTL DEF Spec
-----------------------------------------------------------------------------
(* A connection is armed for input only with an empty read buffer          *)
(* (WebServer::OnProcess): what came behind a request is processed.        *)
THEOREM NothingLeftBehind == Spec => []NoRequestLeftBehind
<1>1. Init => NoRequestLeftBehind
  BY DEF Init, NoRequestLeftBehind
<1>2. NoRequestLeftBehind /\ [Next]_vars => NoRequestLeftBehind'
  <2> SUFFICES ASSUME NoRequestLeftBehind, [Next]_vars PROVE NoRequestLeftBehind'
    OBVIOUS
  <2> USE DEF client, buffers, output, NoRequestLeftBehind
  <2>1. CASE Arrive \/ Leave \/ MainCloses \/ TimerCloses
    BY <2>1 DEF Arrive, Leave, MainCloses, TimerCloses, Close, Forget
  <2>2. CASE init
    BY <2>2 DEF init, RetrieveAll, New, ReadableBytes
  <2>3. CASE DealRead \/ Read \/ ReadAgain \/ ReadEnds
    BY <2>3 DEF DealRead, Read, ReadAgain, ReadEnds, Close, Forget
  <2>4. CASE Process
    BY <2>4 DEF Process
  <2>5. CASE Parse
    BY <2>5 DEF Parse
  <2>6. CASE Respond
    BY <2>6 DEF Respond, Dies
  <2>7. CASE DealWrite \/ Write \/ WriteEnds \/ WriteAgain \/ WriteFails
    BY <2>7 DEF DealWrite, Write, WriteEnds, WriteAgain, WriteFails, Dies
  <2>8. CASE WriteOn \/ WriteCloses
    BY <2>8 DEF WriteOn, WriteCloses, Close
  <2>9. CASE UNCHANGED vars
    BY <2>9 DEF vars
  <2> QED
    BY <2>1, <2>2, <2>3, <2>4, <2>5, <2>6, <2>7, <2>8, <2>9 DEF Next
<1> QED
  BY <1>1, <1>2, PTL DEF Spec
-----------------------------------------------------------------------------
(* What a cell of the write buffer may hold, and what a client receives.   *)
Units ==
  {Nul} \cup {<<"status", c>> : c \in Codes} \cup {<<"keep-alive", k>> : k \in BOOLEAN}
    \cup {<<"length", n>> : n \in Nat} \cup {<<"page", 1>>} \cup {<<"file", n>> : n \in Nat}

LEMMA FileDataIsSeq ==
  ASSUME NEW from \in Nat, NEW n \in Nat
  PROVE  /\ FileData(from, n) \in Seq(Units) /\ Len(FileData(from, n)) = n
         /\ \A k \in 1..n : FileData(from, n)[k] = <<"file", from + k>>
<1>1. \A k \in 1..n : <<"file", from + k>> \in Units
  <2>1. \A k \in 1..n : from + k \in Nat
    OBVIOUS
  <2> QED
    BY <2>1 DEF Units
<1>2. FileData(from, n) \in [1..n -> Units]
  BY <1>1 DEF FileData
<1>3. FileData(from, n) \in Seq(Units) /\ Len(FileData(from, n)) = n
  BY <1>2, FunctionIsSeq
<1> QED
  BY <1>3 DEF FileData

LEMMA FileDataDrops ==
  ASSUME NEW from \in Nat, NEW n \in Nat, NEW m \in 0..n
  PROVE  SubSeq(FileData(from, n), m + 1, n) = FileData(from + m, n - m)
<1> DEFINE x == FileData(from, n)
           y == SubSeq(x, m + 1, n)
           z == FileData(from + m, n - m)
<1>1. /\ x \in Seq(Units) /\ Len(x) = n
      /\ \A k \in 1..n : x[k] = <<"file", from + k>>
  BY FileDataIsSeq
<1>2. m + 1 \in Nat /\ 1 <= m + 1 /\ m + 1 <= n + 1 /\ from + m \in Nat /\ n - m \in Nat
  OBVIOUS
<1>3. /\ z \in Seq(Units) /\ Len(z) = n - m
      /\ \A k \in 1..(n - m) : z[k] = <<"file", (from + m) + k>>
  BY <1>2, FileDataIsSeq
<1> HIDE DEF x, z
<1>4. /\ y \in Seq(Units) /\ Len(y) = n - (m + 1) + 1
      /\ \A k \in 1..(n - (m + 1) + 1) : y[k] = x[(m + 1) + k - 1]
  <2> DEFINE a == m + 1
  <2>1. /\ a \in Nat /\ 1 <= a /\ a <= n + 1
        /\ x \in Seq(Units) /\ n <= Len(x)
    BY <1>1, <1>2
  <2>2. /\ SubSeq(x, a, n) \in Seq(Units) /\ Len(SubSeq(x, a, n)) = n - a + 1
        /\ \A k \in 1..(n - a + 1) : SubSeq(x, a, n)[k] = x[a + k - 1]
    <3> HIDE DEF a
    <3> QED
      BY <2>1, Piece
  <2> QED
    BY <2>2
<1> HIDE DEF y
<1>5. ASSUME NEW k \in 1..(n - m) PROVE y[k] = z[k]
  <2>1. /\ k \in 1..(n - (m + 1) + 1) /\ (m + 1) + k - 1 = m + k
        /\ m + k \in 1..n /\ from + (m + k) = (from + m) + k
    OBVIOUS
  <2> QED
    BY <2>1, <1>1, <1>3, <1>4
<1>6. Len(y) = Len(z) /\ Len(z) = n - m
  BY <1>3, <1>4
<1>7. y = z
  BY <1>3, <1>4, <1>5, <1>6, SeqEqual
<1> QED
  BY <1>7 DEF x, y, z

(* Dropping from the front of two sequences, one behind the other. *)
LEMMA DropsFromFirst ==
  ASSUME NEW S, NEW x \in Seq(S), NEW y \in Seq(S), NEW n \in 0..Len(x)
  PROVE  SubSeq(x \o y, n + 1, Len(x \o y)) = SubSeq(x, n + 1, Len(x)) \o y
<1> DEFINE u == x \o y
           v == SubSeq(u, n + 1, Len(u))
           w == SubSeq(x, n + 1, Len(x))
           z == w \o y
<1>1. /\ u \in Seq(S) /\ Len(u) = Len(x) + Len(y)
      /\ \A k \in 1..(Len(x) + Len(y)) : u[k] = IF k <= Len(x) THEN x[k] ELSE y[k - Len(x)]
  BY ConcatProperties
<1>2. Len(x) \in Nat /\ Len(y) \in Nat /\ n + 1 \in Nat /\ 1 <= n + 1
  OBVIOUS
<1>3. n + 1 <= Len(x) + 1 /\ Len(u) \in Nat /\ n + 1 <= Len(u) + 1
  BY <1>1, <1>2
<1> HIDE DEF u
<1>4. /\ v \in Seq(S) /\ Len(v) = Len(u) - (n + 1) + 1
      /\ \A k \in 1..(Len(u) - (n + 1) + 1) : v[k] = u[(n + 1) + k - 1]
  BY <1>1, <1>2, <1>3, Piece
<1>5. /\ w \in Seq(S) /\ Len(w) = Len(x) - (n + 1) + 1
      /\ \A k \in 1..(Len(x) - (n + 1) + 1) : w[k] = x[(n + 1) + k - 1]
  BY <1>2, <1>3, Piece
<1> HIDE DEF v, w
<1>6. /\ z \in Seq(S) /\ Len(z) = Len(w) + Len(y)
      /\ \A k \in 1..(Len(w) + Len(y)) : z[k] = IF k <= Len(w) THEN w[k] ELSE y[k - Len(w)]
  BY <1>5, ConcatProperties
<1> HIDE DEF z
<1>7. Len(v) = Len(z) /\ Len(z) = Len(x) + Len(y) - n
  BY <1>1, <1>2, <1>4, <1>5, <1>6
<1>8. ASSUME NEW k \in 1..Len(z) PROVE v[k] = z[k]
  <2>1. /\ k \in 1..(Len(u) - (n + 1) + 1) /\ (n + 1) + k - 1 = n + k
        /\ n + k \in 1..(Len(x) + Len(y)) /\ k \in 1..(Len(w) + Len(y))
        /\ Len(w) = Len(x) - n
    BY <1>1, <1>2, <1>5, <1>7
  <2>2. v[k] = IF n + k <= Len(x) THEN x[n + k] ELSE y[(n + k) - Len(x)]
    BY <2>1, <1>1, <1>4
  <2>3. z[k] = IF k <= Len(w) THEN w[k] ELSE y[k - Len(w)]
    BY <2>1, <1>6
  <2>4. CASE k <= Len(w)
    <3>1. k \in 1..(Len(x) - (n + 1) + 1) /\ n + k <= Len(x)
      BY <2>1, <2>4, <1>2
    <3> QED
      BY <3>1, <2>1, <2>2, <2>3, <2>4, <1>5
  <2>5. CASE ~(k <= Len(w))
    <3>1. ~(n + k <= Len(x)) /\ (n + k) - Len(x) = k - Len(w)
      BY <2>1, <2>5, <1>2
    <3> QED
      BY <3>1, <2>2, <2>3, <2>5
  <2> QED
    BY <2>4, <2>5
<1>9. v = z
  BY <1>4, <1>6, <1>7, <1>8, SeqEqual
<1> QED
  BY <1>9 DEF u, v, w, z

LEMMA DropsFirst ==
  ASSUME NEW S, NEW x \in Seq(S), NEW y \in Seq(S), NEW n \in Nat,
         Len(x) <= n, n <= Len(x) + Len(y)
  PROVE  SubSeq(x \o y, n + 1, Len(x \o y)) = SubSeq(y, (n - Len(x)) + 1, Len(y))
<1> DEFINE u == x \o y
           v == SubSeq(u, n + 1, Len(u))
           z == SubSeq(y, (n - Len(x)) + 1, Len(y))
<1>1. /\ u \in Seq(S) /\ Len(u) = Len(x) + Len(y)
      /\ \A k \in 1..(Len(x) + Len(y)) : u[k] = IF k <= Len(x) THEN x[k] ELSE y[k - Len(x)]
  BY ConcatProperties
<1>2. Len(x) \in Nat /\ Len(y) \in Nat /\ n + 1 \in Nat /\ 1 <= n + 1
  OBVIOUS
<1>3. Len(u) \in Nat /\ n + 1 <= Len(u) + 1
  BY <1>1, <1>2
<1> HIDE DEF u
<1>4. /\ v \in Seq(S) /\ Len(v) = Len(u) - (n + 1) + 1
      /\ \A k \in 1..(Len(u) - (n + 1) + 1) : v[k] = u[(n + 1) + k - 1]
  BY <1>1, <1>2, <1>3, Piece
<1> DEFINE m == (n - Len(x)) + 1
<1>5. m \in Nat /\ 1 <= m /\ m <= Len(y) + 1 /\ m = n - Len(x) + 1
  BY <1>2
<1> HIDE DEF v, m
<1>6. /\ SubSeq(y, m, Len(y)) \in Seq(S) /\ Len(SubSeq(y, m, Len(y))) = Len(y) - m + 1
      /\ \A k \in 1..(Len(y) - m + 1) : SubSeq(y, m, Len(y))[k] = y[m + k - 1]
  BY <1>2, <1>5, Piece
<1>7. z = SubSeq(y, m, Len(y))
  BY DEF m
<1> HIDE DEF z
<1>8. Len(v) = Len(z) /\ Len(z) = Len(x) + Len(y) - n
  BY <1>1, <1>2, <1>4, <1>5, <1>6, <1>7
<1>9. ASSUME NEW k \in 1..Len(z) PROVE v[k] = z[k]
  <2>1. /\ k \in 1..(Len(u) - (n + 1) + 1) /\ (n + 1) + k - 1 = n + k
        /\ n + k \in 1..(Len(x) + Len(y)) /\ ~(n + k <= Len(x))
        /\ k \in 1..(Len(y) - m + 1) /\ m + k - 1 = (n + k) - Len(x)
    BY <1>1, <1>2, <1>5, <1>8
  <2>2. v[k] = y[(n + k) - Len(x)]
    BY <2>1, <1>1, <1>4
  <2> QED
    BY <2>1, <2>2, <1>6, <1>7
<1>10. v = z
  BY <1>4, <1>6, <1>7, <1>8, <1>9, SeqEqual
<1> QED
  BY <1>10 DEF u, v, z
-----------------------------------------------------------------------------
(* MakeResponse appends a status line, a header and the content's length,  *)
(* and the error page if no file is mapped.                                *)
Heading(r) ==
  <<<<"status", r.code>>, <<"keep-alive", r.keep>>,
    <<"length", IF r.mapped THEN r.size ELSE 1>>>>

LEMMA ThreeAppended ==
  ASSUME NEW S, NEW x \in S, NEW y \in S, NEW z \in S
  PROVE  /\ ((<<>> \o <<x>>) \o <<y>>) \o <<z>> = <<x, y, z>>
         /\ <<x, y, z>> \in Seq(S)
<1>1. <<>> \o <<x>> = <<x>>
  OBVIOUS
<1>2. <<x>> \o <<y>> = <<x, y>>
  <2> DEFINE t == <<x>> \o <<y>>
             u == <<x, y>>
  <2>1. /\ <<x>> \in Seq(S) /\ Len(<<x>>) = 1 /\ <<y>> \in Seq(S) /\ Len(<<y>>) = 1
    OBVIOUS
  <2>2. t \in Seq(S) /\ Len(t) = 2 /\ t[1] = x /\ t[2] = y
    BY <2>1, ConcatProperties
  <2>3. u \in Seq(S) /\ Len(u) = 2 /\ u[1] = x /\ u[2] = y
    OBVIOUS
  <2> HIDE DEF t, u
  <2>4. t = u
    BY <2>2, <2>3, SeqEqual
  <2> QED
    BY <2>4 DEF t, u
<1>3. <<x, y>> \o <<z>> = <<x, y, z>>
  <2> DEFINE t == <<x, y>> \o <<z>>
             u == <<x, y, z>>
  <2>1. /\ <<x, y>> \in Seq(S) /\ Len(<<x, y>>) = 2 /\ <<z>> \in Seq(S) /\ Len(<<z>>) = 1
    OBVIOUS
  <2>2. t \in Seq(S) /\ Len(t) = 3 /\ t[1] = x /\ t[2] = y /\ t[3] = z
    BY <2>1, ConcatProperties
  <2>3. u \in Seq(S) /\ Len(u) = 3 /\ u[1] = x /\ u[2] = y /\ u[3] = z
    OBVIOUS
  <2> HIDE DEF t, u
  <2>4. t = u
    BY <2>2, <2>3, SeqEqual
  <2> QED
    BY <2>4 DEF t, u
<1>4. <<x, y, z>> \in Seq(S)
  OBVIOUS
<1> QED
  BY <1>1, <1>2, <1>3, <1>4, Zenon

LEMMA AppendsUnit ==
  ASSUME NEW b \in Buffers(Units), NEW u \in Units
  PROVE  Append_(b, <<u>>) \in Buffers(Units) /\ Content(Append_(b, <<u>>)) = Content(b) \o <<u>>
<1>1. Nul \in Units /\ <<u>> \in Seq(Units)
  <2>1. Nul \in Units
    BY DEF Units
  <2>2. <<u>> \in Seq(Units)
    OBVIOUS
  <2> QED
    BY <2>1, <2>2
<1> QED
  BY <1>1, AppendAppends

LEMMA MakesResponse ==
  ASSUME NEW b \in Buffers(Units), Content(b) = <<>>,
         NEW code \in Codes, NEW keep \in BOOLEAN, NEW size \in Nat, NEW mapped \in BOOLEAN
  PROVE  LET r == Response(code, keep, size, mapped)
             c == MakeResponse(b, r)
         IN  /\ c \in Buffers(Units)
             /\ Heading(r) \in Seq(Units)
             /\ mapped => Content(c) = Heading(r)
             /\ ~mapped => Content(c) = Heading(r) \o <<<<"page", 1>>>>
<1> DEFINE r == Response(code, keep, size, mapped)
           l == IF mapped THEN size ELSE 1
           s1 == <<"status", code>>
           s2 == <<"keep-alive", keep>>
           s3 == <<"length", l>>
           s4 == <<"page", 1>>
           b1 == Append_(b, <<s1>>)
           b2 == Append_(b1, <<s2>>)
           b3 == Append_(b2, <<s3>>)
           b4 == Append_(b3, <<s4>>)
<1>1. s1 \in Units /\ s2 \in Units /\ s4 \in Units
  BY DEF Units
<1>2. s3 \in Units
  <2>1. l \in Nat
    OBVIOUS
  <2> HIDE DEF l
  <2> QED
    BY <2>1 DEF Units
<1>3. r.code = code /\ r.keep = keep /\ r.mapped = mapped /\ r.size = size
  BY DEF Response
<1>4. MakeResponse(b, r) = IF mapped THEN b3 ELSE b4
  BY <1>3 DEF MakeResponse, AddContent_, AddHeader_, AddStateLine_, ErrorContent
<1>5. Heading(r) = <<s1, s2, s3>>
  BY <1>3 DEF Heading
<1> HIDE DEF r, s1, s2, s3, s4
<1>6. b1 \in Buffers(Units) /\ Content(b1) = <<>> \o <<s1>>
  BY <1>1, AppendsUnit
<1> HIDE DEF b1
<1>7. b2 \in Buffers(Units) /\ Content(b2) = Content(b1) \o <<s2>>
  BY <1>1, <1>6, AppendsUnit
<1> HIDE DEF b2
<1>8. b3 \in Buffers(Units) /\ Content(b3) = Content(b2) \o <<s3>>
  BY <1>2, <1>7, AppendsUnit
<1> HIDE DEF b3
<1>9. b4 \in Buffers(Units) /\ Content(b4) = Content(b3) \o <<s4>>
  BY <1>1, <1>8, AppendsUnit
<1> HIDE DEF b4
<1>10. /\ ((<<>> \o <<s1>>) \o <<s2>>) \o <<s3>> = <<s1, s2, s3>>
       /\ <<s1, s2, s3>> \in Seq(Units)
  BY <1>1, <1>2, ThreeAppended
<1>11. Content(b3) = Heading(r) /\ Heading(r) \in Seq(Units)
  BY <1>5, <1>6, <1>7, <1>8, <1>10, Zenon
<1> QED
  BY <1>4, <1>8, <1>9, <1>11 DEF r, s4
-----------------------------------------------------------------------------
(* While a response goes out, what is due of it is in the write buffer and *)
(* the mapped file, and iov_ points there.  Before, nothing is due and the *)
(* write buffer is empty; a client that left may have left bytes in it.    *)
Sending == {"out", "write", "wrote", "again"}
Part == [base : Nat, len : Nat]
FilePart == IF iovCnt = 2 THEN FileData(iov[2].base, iov[2].len) ELSE <<>>

Pointing ==
  /\ iovCnt \in {1, 2}
  /\ iov[1].len = ReadableBytes(writeBuff)
  /\ iov[1].len > 0 => iov[1].base = writeBuff.readPos
  /\ iovCnt = 2 => iov[2].base + iov[2].len = mappedUnits
  /\ due = Content(writeBuff) \o FilePart

Writing ==
  /\ writeBuff \in Buffers(Units)
  /\ iov \in Part \X Part
  /\ response.mapped \in BOOLEAN /\ response.size \in Nat
  /\ mappedUnits = (IF response.mapped THEN response.size ELSE 0)
  /\ pc \notin Sending => due = <<>>
  /\ pc \notin Sending \cup {"closed", "dead", "raced"} => ReadableBytes(writeBuff) = 0
  /\ pc \in Sending => Pointing

LEMMA PartFields ==
  ASSUME NEW v \in Part \X Part
  PROVE  /\ v[1].base \in Nat /\ v[1].len \in Nat /\ v[2].base \in Nat /\ v[2].len \in Nat
         /\ v[1] \in Part /\ v[2] \in Part
BY DEF Part

LEMMA NulIsUnit == Nul \in Units
BY DEF Units

LEMMA EmptyContent ==
  ASSUME NEW b \in Buffers(Units), ReadableBytes(b) = 0
  PROVE  Content(b) = <<>>
BY ContentIsSeq

LEMMA FilePartIsSeq ==
  ASSUME iov \in Part \X Part
  PROVE  /\ FilePart \in Seq(Units)
         /\ Len(FilePart) = IF iovCnt = 2 THEN iov[2].len ELSE 0
<1>1. iov[2].base \in Nat /\ iov[2].len \in Nat
  BY PartFields
<1>2. CASE iovCnt = 2
  BY <1>1, <1>2, FileDataIsSeq DEF FilePart
<1>3. CASE iovCnt # 2
  <2>1. <<>> \in Seq(Units) /\ Len(<<>>) = 0
    OBVIOUS
  <2> QED
    BY <1>3, <2>1 DEF FilePart
<1> QED
  BY <1>2, <1>3

LEMMA WritingInit == Init => Writing
<1> SUFFICES ASSUME Init PROVE Writing
  OBVIOUS
<1>1. writeBuff \in Buffers(Units)
  BY NulIsUnit, NewIsEmpty, SizesAreNat DEF Init
<1>2. PICK g \in Garbage : iov = Unset(g)
  BY DEF Init
<1>3. iov \in Part \X Part
  BY <1>2, SizesAreNat DEF Unset, Part
<1> QED
  BY <1>1, <1>3 DEF Init, Writing, Sending, NewResponse, Response

LEMMA ForgetKeepsWriting ==
  ASSUME Writing, Forget, pc' \in {"closed", "dead", "raced"}, mappedUnits' = 0
  PROVE  Writing'
<1>1. iov' \in Part \X Part
  BY PartFields DEF Writing, Forget, Unset, Part
<1> QED
  BY <1>1 DEF Forget, Writing, Sending, NewResponse, Response, buffers

LEMMA UnmapsAll ==
  ASSUME Writing
  PROVE  UnmapFile = 0
BY DEF Writing, UnmapFile

LEMMA OutputKept ==
  ASSUME Writing, UNCHANGED <<writeBuff, output>>,
         pc \notin {"closed", "dead", "raced"}, pc \in Sending <=> pc' \in Sending
  PROVE  Writing'
BY DEF Writing, output, Pointing, FilePart

(* A turn of write's loop. *)
LEMMA WriteKeeps ==
  ASSUME Writing, Write
  PROVE  Writing'
<1> DEFINE l1 == iov[1].len
           l2 == iov[2].len
           x == Content(writeBuff)
           y == FilePart
<1>1. PICK n \in 1..Offered :
        /\ iov' = Advance(n) /\ writeBuff' = WriteBuffAfter(n)
        /\ due' = SubSeq(due, n + 1, Len(due))
  BY DEF Write
<1>2. /\ pc \in Sending /\ pc' \in Sending
      /\ UNCHANGED <<response, iovCnt, mappedUnits>>
  BY DEF Write, Sending
<1>3. /\ writeBuff \in Buffers(Units) /\ iov \in Part \X Part
      /\ iovCnt \in {1, 2} /\ l1 = ReadableBytes(writeBuff)
      /\ l1 > 0 => iov[1].base = writeBuff.readPos
      /\ iovCnt = 2 => iov[2].base + l2 = mappedUnits
      /\ due = x \o y
  BY <1>2 DEF Writing, Pointing
<1>4. /\ l1 \in Nat /\ l2 \in Nat /\ iov[1].base \in Nat /\ iov[2].base \in Nat
      /\ iov[2] \in Part
  BY <1>3, PartFields
<1>5. n \in Nat /\ n >= 1 /\ n <= l1 + (IF iovCnt = 2 THEN l2 ELSE 0)
  BY <1>1, <1>4 DEF Offered
<1>6. /\ x \in Seq(Units) /\ Len(x) = l1
      /\ y \in Seq(Units) /\ Len(y) = (IF iovCnt = 2 THEN l2 ELSE 0)
  BY <1>3, ContentIsSeq, FilePartIsSeq
<1>7. /\ writeBuff' \in Buffers(Units) /\ iov' \in Part \X Part /\ Pointing'
  <2>1. CASE n <= l1
    <3>1. writeBuff' = Retrieve(writeBuff, n) /\ n \in 0..ReadableBytes(writeBuff)
      BY <1>1, <1>3, <1>4, <1>5, <2>1 DEF WriteBuffAfter
    <3>2. /\ writeBuff' \in Buffers(Units)
          /\ Content(writeBuff') = SubSeq(x, n + 1, Len(x))
      BY <1>3, <3>1, RetrieveDrops
    <3>3. /\ ReadableBytes(writeBuff') = l1 - n
          /\ writeBuff'.readPos = writeBuff.readPos + n
      BY <1>3, <3>1, BufferFields DEF Retrieve, ReadableBytes
    <3>4. iov' = <<[base |-> iov[1].base + n, len |-> l1 - n], iov[2]>>
      BY <1>1, <1>4, <1>5, <2>1 DEF Advance
    <3>5. iov' \in Part \X Part /\ l1 - n \in Nat
      BY <1>4, <1>5, <2>1, <3>4 DEF Part
    <3>6. FilePart' = y
      BY <1>2, <3>4 DEF FilePart
    <3>7. due' = SubSeq(x, n + 1, Len(x)) \o y
      <4>1. n \in 0..Len(x)
        BY <1>5, <1>6, <2>1
      <4> HIDE DEF x, y
      <4> QED
        BY <1>1, <1>3, <1>6, <4>1, DropsFromFirst
    <3>8. due' = Content(writeBuff') \o FilePart'
      BY <3>2, <3>6, <3>7
    <3>9. /\ iov'[1].len = ReadableBytes(writeBuff')
          /\ iov'[1].len > 0 => iov'[1].base = writeBuff'.readPos
          /\ iovCnt' = 2 => iov'[2].base + iov'[2].len = mappedUnits'
      BY <1>2, <1>3, <1>4, <1>5, <3>3, <3>4
    <3> QED
      BY <1>2, <1>3, <3>2, <3>5, <3>8, <3>9 DEF Pointing
  <2>2. CASE ~(n <= l1)
    <3> DEFINE m == n - l1
    <3>1. iovCnt = 2 /\ m \in 0..l2
      BY <1>3, <1>4, <1>5, <2>2
    <3>2. /\ writeBuff' \in Buffers(Units) /\ ReadableBytes(writeBuff') = 0
      <4>1. CASE l1 > 0
        <5>1. writeBuff' = New(writeBuff.size) /\ writeBuff.size \in Nat
          BY <1>1, <1>3, <2>2, <4>1, BufferFields DEF WriteBuffAfter, RetrieveAll
        <5>2. ReadableBytes(writeBuff') = 0
          BY <5>1 DEF New, ReadableBytes
        <5> QED
          BY <5>1, <5>2, NulIsUnit, NewIsEmpty
      <4>2. CASE ~(l1 > 0)
        BY <1>1, <1>3, <1>4, <2>2, <4>2 DEF WriteBuffAfter
      <4> QED
        BY <4>1, <4>2
    <3>3. iov' = <<[base |-> iov[1].base, len |-> 0],
                   [base |-> iov[2].base + m, len |-> l2 - m]>>
      BY <1>1, <1>4, <1>5, <2>2 DEF Advance
    <3>4. iov' \in Part \X Part
      BY <1>4, <3>1, <3>3 DEF Part
    <3>5. FilePart' = FileData(iov[2].base + m, l2 - m)
      BY <1>2, <3>1, <3>3 DEF FilePart
    <3>6. y = FileData(iov[2].base, l2)
      BY <3>1 DEF FilePart
    <3>7. due' = SubSeq(y, m + 1, Len(y))
      <4>1. Len(x) <= n /\ n <= Len(x) + Len(y) /\ m = n - Len(x)
        BY <1>4, <1>5, <1>6, <2>2, <3>1
      <4> HIDE DEF x, y, m
      <4> QED
        BY <1>1, <1>3, <1>5, <1>6, <4>1, DropsFirst
    <3>8. due' = FilePart'
      <4>1. Len(y) = l2
        BY <1>6, <3>1
      <4> HIDE DEF m, l2, y
      <4>2. SubSeq(FileData(iov[2].base, l2), m + 1, l2) = FileData(iov[2].base + m, l2 - m)
        BY <1>4, <3>1, FileDataDrops
      <4> QED
        BY <3>5, <3>6, <3>7, <4>1, <4>2
    <3>9. due' = Content(writeBuff') \o FilePart'
      <4>1. Content(writeBuff') = <<>>
        BY <3>2, EmptyContent
      <4>2. FilePart' \in Seq(Units)
        <5>1. iov[2].base + m \in Nat /\ l2 - m \in Nat
          BY <1>4, <3>1
        <5> QED
          BY <3>5, <5>1, FileDataIsSeq
      <4>3. <<>> \o FilePart' = FilePart'
        BY <4>2
      <4> QED
        BY <3>8, <4>1, <4>3
    <3>10. /\ iov'[1].len = ReadableBytes(writeBuff') /\ ~(iov'[1].len > 0)
           /\ iovCnt' = 2 => iov'[2].base + iov'[2].len = mappedUnits'
      <4>1. iov'[1].len = 0 /\ iov'[2].base = iov[2].base + m /\ iov'[2].len = l2 - m
        BY <3>3
      <4>2. m \in Nat /\ iov[2].base + l2 = mappedUnits
        BY <1>3, <3>1
      <4>3. (iov[2].base + m) + (l2 - m) = iov[2].base + l2
        <5> HIDE DEF m, l2
        <5> QED
          BY <1>4, <4>2
      <4> HIDE DEF m, l2
      <4> QED
        BY <1>2, <3>2, <4>1, <4>2, <4>3
    <3> QED
      BY <1>2, <1>3, <3>2, <3>4, <3>9, <3>10 DEF Pointing
  <2> QED
    BY <2>1, <2>2
<1> QED
  BY <1>2, <1>7 DEF Writing

(* What stat finds has a size. *)
LEMMA SizesFound ==
  ASSUME NEW first \in Stats, NEW second \in Stats, NEW code
  PROVE  ErrorHtml_(code, first, second) \in Nat
<1>1. first.size \in Nat /\ second.size \in Nat
  BY FileUnitsIsNat DEF Stats, FileStats, Missing, Directory, Unreadable
<1> QED
  BY <1>1 DEF ErrorHtml_

LEMMA RespondKeeps ==
  ASSUME Writing, Respond, ~Dies
  PROVE  Writing'
<1>1. PICK first \in IF Parsed THEN Stats ELSE {Directory},
           second \in FileStats \cup {Missing}, outcome \in Outcomes :
        LET code == CodeFor(IF Parsed THEN 200 ELSE 400, first)
            size == ErrorHtml_(code, first, second)
            mapped == outcome = "mapped"
            r == Response(code, Parsed /\ IsKeepAlive(request), size, mapped)
        IN  /\ MayBe(outcome, size)
            /\ \/ outcome = "faults" /\ Dies
               \/ /\ outcome # "faults"
                  /\ response' = r
                  /\ writeBuff' = MakeResponse(writeBuff, r)
                  /\ mappedUnits' = UnmapFile + (IF mapped THEN size ELSE 0)
                  /\ leaked' = leaked + (IF outcome = "ones" THEN size ELSE 0)
                  /\ iov' = IovFor(writeBuff', r)
                  /\ iovCnt' = IF r.mapped /\ r.size > 0 THEN 2 ELSE 1
                  /\ due' = due \o Wanted(r)
                  /\ pc' = "out"
                  /\ before' = <<>>
                  /\ UNCHANGED <<isET, client, readBuff, request>>
  BY Zenon DEF Respond
<1> DEFINE code == CodeFor(IF Parsed THEN 200 ELSE 400, first)
           size == ErrorHtml_(code, first, second)
           keep == Parsed /\ IsKeepAlive(request)
           opened == outcome = "mapped"
           r == Response(code, keep, size, opened)
<1>2. /\ response' = r
      /\ writeBuff' = MakeResponse(writeBuff, r)
      /\ mappedUnits' = UnmapFile + (IF opened THEN size ELSE 0)
      /\ iov' = IovFor(writeBuff', r)
      /\ iovCnt' = IF r.mapped /\ r.size > 0 THEN 2 ELSE 1
      /\ due' = due \o Wanted(r) /\ pc' = "out"
  BY <1>1
<1>o. opened \in BOOLEAN /\ (opened => size > 0)
  BY <1>1 DEF MayBe
<1>3. code \in Codes /\ keep \in BOOLEAN
  BY DEF CodeFor, Codes
<1>4. size \in Nat
  <2>1. first \in Stats /\ second \in Stats
    BY DEF Stats
  <2> QED
    BY <2>1, SizesFound
<1> HIDE DEF code, size, keep, opened
<1>5. r.mapped = opened /\ r.size = size
  BY DEF Response
<1>6. /\ writeBuff \in Buffers(Units) /\ iov \in Part \X Part
      /\ due = <<>> /\ Content(writeBuff) = <<>>
  BY EmptyContent DEF Writing, Respond, Sending
<1>7. /\ writeBuff' \in Buffers(Units) /\ Heading(r) \in Seq(Units)
      /\ opened => Content(writeBuff') = Heading(r)
      /\ ~opened => Content(writeBuff') = Heading(r) \o <<<<"page", 1>>>>
  BY ZenonT(40), <1>2, <1>3, <1>4, <1>6, <1>o, MakesResponse
<1>8. mappedUnits' = (IF opened THEN size ELSE 0) /\ (opened => size > 0)
  BY <1>2, <1>4, <1>o, UnmapsAll
<1>9. /\ iovCnt' = (IF opened THEN 2 ELSE 1)
      /\ iov' = <<[base |-> writeBuff'.readPos, len |-> ReadableBytes(writeBuff')],
                  IF opened THEN [base |-> 0, len |-> size] ELSE iov[2]>>
  BY <1>2, <1>5, <1>8 DEF IovFor
<1>10. Wanted(r) = Heading(r) \o (IF opened THEN FileData(0, size) ELSE <<<<"page", 1>>>>)
  BY <1>5 DEF Wanted, Heading
<1> HIDE DEF r
<1>11. iov' \in Part \X Part
  <2>1. iov[2] \in Part
    BY <1>6, PartFields
  <2>2. writeBuff'.readPos \in Nat /\ ReadableBytes(writeBuff') \in Nat
    BY <1>7, BufferFields DEF ReadableBytes
  <2> QED
    BY <1>4, <1>9, <2>1, <2>2 DEF Part
<1>12. due' = Content(writeBuff') \o FilePart'
  <2>1. CASE opened
    <3>1. Wanted(r) = Heading(r) \o FileData(0, size) /\ FilePart' = FileData(0, size)
      BY <1>9, <1>10, <2>1 DEF FilePart
    <3>2. FileData(0, size) \in Seq(Units)
      BY <1>4, FileDataIsSeq
    <3>3. Heading(r) \o FileData(0, size) \in Seq(Units)
      BY <1>7, <3>2, ConcatProperties
    <3> DEFINE w == Heading(r) \o FileData(0, size)
    <3>4. w \in Seq(Units) /\ Wanted(r) = w
      BY <3>1, <3>3
    <3>5. due' = <<>> \o w
      BY <1>2, <1>6, <3>4
    <3> HIDE DEF w
    <3>6. <<>> \o w = w
      BY <3>4
    <3> QED
      BY <1>7, <2>1, <3>1, <3>5, <3>6 DEF w
  <2>2. CASE ~opened
    <3> DEFINE w == Heading(r) \o <<<<"page", 1>>>>
    <3>1. Wanted(r) = w /\ FilePart' = <<>> /\ Content(writeBuff') = w
      BY <1>7, <1>9, <1>10, <2>2 DEF FilePart
    <3>2. w \in Seq(Units)
      BY <1>7, <3>1, ContentIsSeq
    <3>3. due' = <<>> \o w
      BY <1>2, <1>6, <3>1
    <3> HIDE DEF w
    <3>4. <<>> \o w = w /\ w \o <<>> = w
      BY <3>2
    <3> QED
      BY <3>1, <3>3, <3>4
  <2> QED
    BY <2>1, <2>2
<1>13. Pointing'
  <2>1. /\ iovCnt' \in {1, 2}
        /\ iov'[1].len = ReadableBytes(writeBuff') /\ iov'[1].base = writeBuff'.readPos
    BY <1>9
  <2>2. iovCnt' = 2 => iov'[2].base + iov'[2].len = mappedUnits'
    BY <1>4, <1>8, <1>9
  <2> QED
    BY <1>12, <2>1, <2>2 DEF Pointing
<1> QED
  BY <1>2, <1>4, <1>5, <1>7, <1>8, <1>11, <1>13, <1>o DEF Writing, Sending

(* Nothing is due when writev has nothing to take. *)
LEMMA NothingDue ==
  ASSUME Writing, pc \in Sending, iov[1].len = 0, iovCnt = 2 => iov[2].len = 0
  PROVE  due = <<>>
<1>1. /\ ReadableBytes(writeBuff) = 0 /\ writeBuff \in Buffers(Units)
      /\ due = Content(writeBuff) \o FilePart /\ iov \in Part \X Part
  BY DEF Writing, Pointing
<1>2. FilePart = <<>>
  <2>1. FilePart \in Seq(Units) /\ Len(FilePart) = 0
    BY <1>1, FilePartIsSeq
  <2> HIDE DEF FilePart
  <2> QED
    BY <2>1
<1>3. Content(writeBuff) = <<>>
  BY <1>1, EmptyContent
<1> QED
  BY <1>1, <1>2, <1>3

LEMMA WritingStep == Writing /\ [Next]_vars => Writing'
<1> SUFFICES ASSUME Writing, [Next]_vars PROVE Writing'
  OBVIOUS
<1>1. CASE Arrive \/ Leave \/ DealRead \/ Read \/ ReadAgain \/ Process \/ Parse
  <2>1. /\ UNCHANGED <<writeBuff, output>> /\ pc \notin {"closed", "dead", "raced"}
        /\ pc \in Sending <=> pc' \in Sending
    BY <1>1 DEF Arrive, Leave, DealRead, Read, ReadAgain, Process, Parse, Sending,
                buffers, output
  <2> QED
    BY <2>1, OutputKept
<1>2. CASE init
  <2>1. writeBuff' = New(writeBuff.size) /\ writeBuff.size \in Nat
    BY <1>2, BufferFields DEF init, RetrieveAll, Writing
  <2>2. writeBuff' \in Buffers(Units) /\ ReadableBytes(writeBuff') = 0
    <3>1. writeBuff' \in Buffers(Units)
      BY <2>1, NulIsUnit, NewIsEmpty
    <3>2. ReadableBytes(writeBuff') = 0
      BY <2>1 DEF New, ReadableBytes
    <3> QED
      BY <3>1, <3>2
  <2> QED
    BY <1>2, <2>2 DEF init, Writing, Sending, output
<1>3. CASE MainCloses \/ TimerCloses \/ ReadEnds \/ WriteCloses
  BY <1>3, UnmapsAll, ForgetKeepsWriting
  DEF MainCloses, TimerCloses, ReadEnds, WriteCloses, Close
<1>4. CASE Respond
  <2>1. CASE Dies
    BY <2>1, ForgetKeepsWriting DEF Dies
  <2> QED
    BY <1>4, <2>1, RespondKeeps
<1>5. CASE DealWrite \/ WriteEnds \/ WriteAgain
  BY <1>5, OutputKept DEF DealWrite, WriteEnds, WriteAgain, Sending, buffers
<1>6. CASE Write
  BY <1>6, WriteKeeps
<1>7. CASE WriteFails
  <2>1. CASE Dies
    BY <2>1, ForgetKeepsWriting DEF Dies
  <2>2. CASE ~Dies
    BY <1>7, <2>2, OutputKept DEF WriteFails, Sending, buffers
  <2> QED
    BY <2>1, <2>2
<1>8. CASE WriteOn
  <2>1. CASE pc' = "out"
    BY <1>8, <2>1, OutputKept DEF WriteOn, Sending, buffers
  <2>2. CASE pc' # "out"
    <3>1. /\ ToWriteBytes = 0 /\ pc' = "process" /\ pc \in Sending
          /\ UNCHANGED <<writeBuff, response, iov, iovCnt, mappedUnits, due>>
      BY <1>8, <2>2 DEF WriteOn, Sending, buffers, output
    <3>2. iov[1].len = 0 /\ iov[2].len = 0
      <4>1. iov[1].len \in Nat /\ iov[2].len \in Nat
        BY PartFields DEF Writing
      <4> QED
        BY <3>1, <4>1 DEF ToWriteBytes
    <3>3. ReadableBytes(writeBuff) = 0 /\ due = <<>>
      BY <3>1, <3>2, NothingDue DEF Writing, Pointing
    <3> QED
      BY <3>1, <3>3 DEF Writing, Sending
  <2> QED
    BY <2>1, <2>2
<1>9. CASE UNCHANGED vars
  BY <1>9 DEF Writing, Pointing, FilePart, vars, output, buffers
<1> QED
  BY <1>1, <1>2, <1>3, <1>4, <1>5, <1>6, <1>7, <1>8, <1>9 DEF Next

(* What iov_ points at is what the client has yet to receive, whatever     *)
(* writev takes, and the file is mapped as long as it is needed; nothing   *)
(* else is mapped, but for what AddContent_ leaks of a file of bytes 0xFF  *)
(* (HttpConn::process, HttpConn::write, UnmapFile).  It says nothing of an *)
(* object whose timer fires while a worker uses it.                        *)
THEOREM ResponseKept == Spec => []ResponseIntact
<1>1. Writing => ResponseIntact
  <2> SUFFICES ASSUME Writing PROVE ResponseIntact
    OBVIOUS
  <2>1. mappedUnits = (IF response.mapped THEN response.size ELSE 0)
    BY DEF Writing
  <2>2. ASSUME pc \in Sending
        PROVE  Outgoing = due /\ (iovCnt = 2 => iov[2].base + iov[2].len <= mappedUnits)
    <3>1. writeBuff \in Buffers(Units) /\ Pointing /\ iov \in Part \X Part
      BY <2>2 DEF Writing
    <3>2. iov[1].base \in Nat /\ iov[1].len \in Nat /\ iov[2].base \in Nat /\ iov[2].len \in Nat
      BY <3>1, PartFields
    <3>3. Bytes(writeBuff, iov[1].base, iov[1].base + iov[1].len) = Content(writeBuff)
      <4>1. CASE iov[1].len > 0
        BY <3>1, <4>1, BufferFields DEF Pointing, Content, ReadableBytes
      <4>2. CASE ~(iov[1].len > 0)
        <5>1. iov[1].len = 0 /\ Content(writeBuff) = <<>>
          BY <3>1, <3>2, <4>2, EmptyContent DEF Pointing
        <5> DEFINE none == Bytes(writeBuff, iov[1].base, iov[1].base + iov[1].len)
        <5>2. none \in [1..0 -> Units]
          BY <3>2, <5>1 DEF Bytes
        <5> HIDE DEF none
        <5>3. none \in Seq(Units) /\ Len(none) = 0
          BY <5>2, FunctionIsSeq
        <5>4. none = <<>>
          BY <5>3
        <5> QED
          BY <5>1, <5>4 DEF none
      <4> QED
        BY <4>1, <4>2
    <3>4. due = Outgoing
      BY <3>1, <3>3 DEF Pointing, Outgoing, FilePart
    <3>5. iovCnt = 2 => iov[2].base + iov[2].len <= mappedUnits
      BY <3>1, <3>2 DEF Pointing
    <3> QED
      BY <3>4, <3>5
  <2> QED
    BY <2>1, <2>2 DEF ResponseIntact, Sending
<1> QED
  BY <1>1, WritingInit, WritingStep, PTL DEF Spec
-----------------------------------------------------------------------------
(* With edge-triggered connections write returns without EAGAIN only when  *)
(* writev had nothing left to take, or found the client gone.              *)
Drained == isET /\ pc = "wrote" /\ ~gone => ToWriteBytes = 0 \/ Offered = 0

LEMMA DrainedStep == Drained /\ [Next]_vars => Drained'
<1> SUFFICES ASSUME Drained, [Next]_vars PROVE Drained'
  OBVIOUS
<1> USE DEF Drained, client, buffers, output
<1>1. CASE pc' # "wrote"
  BY <1>1
<1>2. CASE pc' = "wrote"
  <2>1. CASE Write
    BY <2>1, <1>2 DEF Write
  <2>2. CASE WriteEnds
    BY <2>2 DEF WriteEnds, ToWriteBytes, Offered
  <2>3. CASE WriteFails
    BY <2>3, <1>2 DEF WriteFails, Dies
  <2>4. CASE UNCHANGED vars
    BY <2>4 DEF vars, ToWriteBytes, Offered
  <2>5. CASE \/ Arrive \/ Leave \/ init \/ MainCloses \/ TimerCloses
             \/ DealRead \/ Read \/ ReadAgain \/ ReadEnds
    BY <2>5, <1>2 DEF Arrive, Leave, init, MainCloses, TimerCloses, DealRead, Read,
                      ReadAgain, ReadEnds, Close
  <2>6. CASE \/ Process \/ Parse \/ Respond
             \/ DealWrite \/ WriteAgain \/ WriteOn \/ WriteCloses
    BY <2>6, <1>2 DEF Process, Parse, Respond, Dies, DealWrite, WriteAgain, WriteOn,
                      WriteCloses, Close
  <2> QED
    BY <2>1, <2>2, <2>3, <2>4, <2>5, <2>6 DEF Next
<1> QED
  BY <1>1, <1>2

(* OnWrite_ closes an edge-triggered connection whose client is there only *)
(* when the response is out, and a keep-alive one only when iov_[1] has a  *)
(* length that an earlier response left in it.                             *)
THEOREM ClosedInTime == Spec => ClosesInTime
<1> DEFINE A == isET /\ ~gone /\ pc \in {"wrote", "again"} /\ pc' = "closed" =>
                  due = <<>> /\ (IsKeepAlive(request) => iovCnt = 1 /\ iov[2].len > 0)
<1>1. Writing /\ Drained /\ [Next]_vars => [A]_vars
  <2> SUFFICES ASSUME Writing, Drained, Next, isET, ~gone, pc \in {"wrote", "again"},
                      pc' = "closed"
               PROVE  due = <<>> /\ (IsKeepAlive(request) => iovCnt = 1 /\ iov[2].len > 0)
    OBVIOUS
  <2>1. WriteCloses
    BY DEF Next, Arrive, Leave, init, MainCloses, TimerCloses, DealRead, Read, ReadAgain, ReadEnds,
           Process, Parse, Respond, DealWrite, Write, WriteEnds, WriteAgain, WriteFails,
           WriteOn
  <2>2. pc \in Sending
    BY DEF Sending
  <2>3. iov[1].len \in Nat /\ iov[2].len \in Nat /\ iovCnt \in {1, 2}
    BY <2>2, PartFields DEF Writing, Pointing
  <2>4. CASE ToWriteBytes = 0
    <3>1. iov[1].len = 0 /\ iov[2].len = 0
      BY <2>3, <2>4 DEF ToWriteBytes
    <3> QED
      BY <2>1, <2>2, <2>4, <3>1, NothingDue DEF WriteCloses
  <2>5. CASE ToWriteBytes # 0
    <3>1. pc = "wrote" /\ Offered = 0
      BY <2>1, <2>5 DEF WriteCloses, Drained
    <3>2. iov[1].len = 0 /\ (iovCnt = 2 => iov[2].len = 0) /\ iov[2].len > 0
      BY <2>3, <2>5, <3>1 DEF Offered, ToWriteBytes
    <3>3. iovCnt = 1
      BY <2>3, <3>2
    <3> QED
      BY <2>2, <3>2, <3>3, NothingDue
  <2> QED
    BY <2>4, <2>5
<1>2. Init => Drained
  BY DEF Init, Drained
<1> QED
  BY <1>1, <1>2, WritingInit, WritingStep, DrainedStep, PTL DEF Spec, ClosesInTime
-----------------------------------------------------------------------------
(* What the parser takes from the buffer.                                  *)
LEMMA BuffersGrow ==
  ASSUME NEW S, NEW T, S \subseteq T, NEW b \in Buffers(S)
  PROVE  b \in Buffers(T)
<1>1. /\ b.size \in Nat /\ b.readPos \in Nat /\ b.writePos \in Nat
      /\ b.readPos <= b.writePos /\ b.writePos <= b.size
      /\ b.cells \in [0..(b.size - 1) -> S]
      /\ b = [size |-> b.size, cells |-> b.cells,
              readPos |-> b.readPos, writePos |-> b.writePos]
  BY BufferFields
<1>2. b.cells \in [0..(b.size - 1) -> T]
  BY <1>1
<1>3. [size |-> b.size, cells |-> b.cells, readPos |-> b.readPos, writePos |-> b.writePos]
        \in Buffers(T)
  BY <1>1, <1>2, BufferIntro
<1> QED
  BY <1>1, <1>3, Zenon

(* A line ends at its CRLF, and what is behind that is left.               *)
LEMMA LineFound ==
  ASSUME NEW S, NEW b \in Buffers(S), NEW c, Content(b) = c, NEW n \in Nat, NEW m \in Nat,
         Len(c) = n + 2 + m, \A k \in 1..n : c[k] # "CR",
         c[n + 1] = "CR", c[n + 2] = "LF"
  PROVE  /\ LineEnd(b) = b.readPos + n
         /\ AfterLine(b, LineEnd(b)) = Retrieve(b, n + 2) /\ n + 2 \in 0..ReadableBytes(b)
<1> DEFINE r == b.readPos
           w == b.writePos
           cells == b.cells
<1>1. /\ r \in Nat /\ w \in Nat /\ ReadableBytes(b) = w - r
      /\ Len(c) = ReadableBytes(b)
      /\ \A k \in 1..ReadableBytes(b) : c[k] = cells[r + k - 1]
  BY BufferFields, ContentIsSeq DEF ReadableBytes
<1>2. LineEnds(b) = {i \in r..(w - 2) : cells[i] = "CR" /\ cells[i + 1] = "LF"}
  BY DEF LineEnds
<1> HIDE DEF r, w, cells
<1>3. w = r + n + 2 + m /\ ReadableBytes(b) = n + 2 + m /\ w - 2 = r + n + m
  BY <1>1
<1>4. \A k \in 1..(n + 2 + m) : c[k] = cells[r + k - 1]
  BY <1>1, <1>3, Zenon
<1>5. cells[r + n] = "CR" /\ cells[r + n + 1] = "LF"
  <2>1. /\ n + 1 \in 1..(n + 2 + m) /\ r + (n + 1) - 1 = r + n
        /\ n + 2 \in 1..(n + 2 + m) /\ r + (n + 2) - 1 = r + n + 1
    BY <1>1
  <2> QED
    BY <1>4, <2>1
<1>6. r + n \in LineEnds(b)
  BY <1>1, <1>2, <1>3, <1>5
<1>7. ASSUME NEW j \in LineEnds(b) PROVE j \in Nat /\ r + n <= j
  <2>1. j \in r..(r + n + m) /\ cells[j] = "CR"
    BY <1>2, <1>3
  <2>2. SUFFICES ASSUME j < r + n PROVE FALSE
    BY <1>1, <2>1
  <2>3. /\ j - r + 1 \in 1..n /\ j - r + 1 \in 1..(n + 2 + m)
        /\ r + (j - r + 1) - 1 = j
    BY <1>1, <2>1, <2>2
  <2>4. cells[j] = c[j - r + 1]
    BY <1>4, <2>3
  <2> QED
    BY <2>1, <2>3, <2>4
<1>8. LineEnd(b) = r + n
  <2>1. LineEnd(b) = CHOOSE i \in LineEnds(b) : \A j \in LineEnds(b) : i <= j
    BY <1>6 DEF LineEnd
  <2>2. LineEnd(b) \in LineEnds(b) /\ \A j \in LineEnds(b) : LineEnd(b) <= j
    BY <1>6, <1>7, <2>1
  <2> DEFINE e == LineEnd(b)
  <2>3. e <= r + n /\ r + n <= e /\ e \in Nat
    BY <1>6, <1>7, <2>2
  <2> HIDE DEF e
  <2>4. e = r + n
    BY <1>1, <2>3
  <2> QED
    BY <2>4 DEF e
<1>9. AfterLine(b, r + n) = Retrieve(b, n + 2)
  <2>1. r + n # w /\ (r + n + 2) - r = n + 2
    BY <1>1, <1>3
  <2>2. AfterLine(b, r + n) = Retrieve(b, (r + n + 2) - r)
    BY <2>1 DEF AfterLine, RetrieveUntil, r, w
  <2> QED
    BY <2>1, <2>2
<1>10. n + 2 \in 0..ReadableBytes(b)
  BY <1>3
<1> QED
  BY <1>8, <1>9, <1>10 DEF r

(* A line and its CRLF in front of the rest: where each word is.           *)
StartsWith(c, l, u) == c = l \o (<<"CR", "LF">> \o u)
NoCR(l) == \A k \in 1..Len(l) : l[k] # "CR"

LEMMA LineParts ==
  ASSUME NEW S, "CR" \in S, "LF" \in S, NEW l \in Seq(S), NEW u \in Seq(S),
         NEW c, StartsWith(c, l, u)
  PROVE  /\ c \in Seq(S) /\ Len(c) = Len(l) + 2 + Len(u)
         /\ \A k \in 1..Len(l) : c[k] = l[k]
         /\ c[Len(l) + 1] = "CR" /\ c[Len(l) + 2] = "LF"
         /\ \A k \in 1..Len(u) : c[Len(l) + 2 + k] = u[k]
<1> DEFINE x == <<"CR", "LF">>
           y == x \o u
           n == Len(l)
           m == Len(u)
<1>1. n \in Nat /\ m \in Nat /\ x \in Seq(S) /\ Len(x) = 2 /\ x[1] = "CR" /\ x[2] = "LF"
  OBVIOUS
<1>2. c = l \o y
  BY DEF StartsWith
<1> HIDE DEF x
<1>3. /\ y \in Seq(S) /\ Len(y) = Len(x) + m
      /\ \A k \in 1..(Len(x) + m) : y[k] = IF k <= Len(x) THEN x[k] ELSE u[k - Len(x)]
  BY <1>1, ConcatProperties
<1> HIDE DEF y
<1>4. /\ c \in Seq(S) /\ Len(c) = n + Len(y)
      /\ \A k \in 1..(n + Len(y)) : c[k] = IF k <= n THEN l[k] ELSE y[k - n]
  <2>1. /\ l \o y \in Seq(S) /\ Len(l \o y) = Len(l) + Len(y)
        /\ \A k \in 1..(Len(l) + Len(y)) : (l \o y)[k] = IF k <= Len(l) THEN l[k] ELSE y[k - Len(l)]
    <3>1. y \in Seq(S)
      BY <1>3
    <3> QED
      BY <3>1, ConcatProperties
  <2> QED
    BY <1>2, <2>1, Zenon
<1> HIDE DEF n, m
<1>5. Len(y) = 2 + m /\ Len(c) = n + 2 + m
  BY <1>1, <1>3, <1>4
<1>6. \A k \in 1..n : c[k] = l[k]
  BY <1>1, <1>4, <1>5
<1>7. c[n + 1] = "CR" /\ c[n + 2] = "LF"
  <2>1. /\ n + 1 \in 1..(n + Len(y)) /\ n + 2 \in 1..(n + Len(y))
        /\ (n + 1) - n = 1 /\ (n + 2) - n = 2 /\ ~(n + 1 <= n) /\ ~(n + 2 <= n)
        /\ 1 \in 1..(Len(x) + m) /\ 2 \in 1..(Len(x) + m) /\ 1 <= Len(x) /\ 2 <= Len(x)
    BY <1>1, <1>5
  <2>2. c[n + 1] = y[1] /\ c[n + 2] = y[2]
    BY <1>4, <2>1
  <2>3. y[1] = x[1] /\ y[2] = x[2]
    BY <1>3, <2>1
  <2> QED
    BY <1>1, <2>2, <2>3
<1>8. ASSUME NEW k \in 1..m PROVE c[n + 2 + k] = u[k]
  <2>1. /\ n + 2 + k \in 1..(n + Len(y)) /\ ~(n + 2 + k <= n) /\ (n + 2 + k) - n = 2 + k
        /\ 2 + k \in 1..(Len(x) + m) /\ ~(2 + k <= Len(x)) /\ (2 + k) - Len(x) = k
    BY <1>1, <1>5
  <2>2. c[n + 2 + k] = y[2 + k]
    BY <1>4, <2>1
  <2>3. y[2 + k] = u[k]
    BY <1>3, <2>1
  <2> QED
    BY <2>2, <2>3
<1> QED
  BY <1>4, <1>5, <1>6, <1>7, <1>8 DEF n, m

LEMMA LineTaken ==
  ASSUME NEW S, "CR" \in S, "LF" \in S, NEW b \in Buffers(S),
         NEW l \in Seq(S), NEW u \in Seq(S), NoCR(l), StartsWith(Content(b), l, u)
  PROVE  /\ Bytes(b, b.readPos, LineEnd(b)) = l
         /\ AfterLine(b, LineEnd(b)) \in Buffers(S)
         /\ Content(AfterLine(b, LineEnd(b))) = u
<1> DEFINE n == Len(l)
           m == Len(u)
           c == Content(b)
           r == b.readPos
<1>1. /\ c \in Seq(S) /\ Len(c) = n + 2 + m /\ n \in Nat /\ m \in Nat
      /\ \A k \in 1..n : c[k] = l[k]
      /\ c[n + 1] = "CR" /\ c[n + 2] = "LF"
      /\ \A k \in 1..m : c[n + 2 + k] = u[k]
  BY LineParts
<1>2. \A k \in 1..n : l[k] # "CR"
  BY DEF NoCR
<1> HIDE DEF n, m, c
<1>3. \A k \in 1..n : c[k] # "CR"
  BY <1>1, <1>2, Zenon
<1>4. /\ LineEnd(b) = b.readPos + n
      /\ AfterLine(b, LineEnd(b)) = Retrieve(b, n + 2) /\ n + 2 \in 0..ReadableBytes(b)
  <2>1. c = Content(b)
    BY DEF c
  <2> QED
    BY ZenonT(40), <1>1, <1>3, <2>1, LineFound
<1>5. Bytes(b, r, r + n) = l
  <2> DEFINE t == Bytes(b, r, r + n)
  <2>1. /\ r \in Nat /\ r + n \in Nat /\ r <= r + n /\ r + n <= b.size /\ (r + n) - r = n
        /\ \A k \in 1..n : k \in 1..ReadableBytes(b)
    <3> DEFINE w == b.writePos
               z == b.size
    <3>1. r \in Nat /\ w \in Nat /\ z \in Nat /\ w <= z /\ ReadableBytes(b) = w - r
      BY BufferFields DEF ReadableBytes
    <3> HIDE DEF r, w, z
    <3>2. w - r = ReadableBytes(b) /\ n + 2 <= ReadableBytes(b)
      BY <1>1, <1>4, <3>1
    <3>3. r + n \in Nat /\ r <= r + n /\ r + n <= z /\ (r + n) - r = n
      BY <1>1, <3>1, <3>2
    <3>4. \A k \in 1..n : k \in 1..ReadableBytes(b)
      BY <1>1, <3>1, <3>2
    <3> QED
      BY <3>1, <3>3, <3>4 DEF z
  <2>2. /\ t \in Seq(S) /\ Len(t) = n
        /\ \A k \in 1..n : t[k] = b.cells[r + k - 1]
    <3> DEFINE j == r + n
    <3>1. r \in Nat /\ j \in Nat /\ r <= j /\ j <= b.size /\ j - r = n
      BY <2>1
    <3> HIDE DEF j, r
    <3>2. /\ Bytes(b, r, j) \in Seq(S) /\ Len(Bytes(b, r, j)) = j - r
          /\ \A k \in 1..(j - r) : Bytes(b, r, j)[k] = b.cells[r + k - 1]
      BY ZenonT(40), <3>1, BytesAreSeq
    <3>3. t = Bytes(b, r, j)
      BY DEF j
    <3> HIDE DEF t
    <3>4. t \in Seq(S) /\ Len(t) = n
      BY <3>1, <3>2, <3>3
    <3>5. ASSUME NEW k \in 1..n PROVE t[k] = b.cells[r + k - 1]
      BY <3>1, <3>2, <3>3
    <3> QED
      BY <3>4, <3>5
  <2>3. \A k \in 1..ReadableBytes(b) : c[k] = b.cells[r + k - 1]
    BY ContentIsSeq DEF c
  <2> HIDE DEF t
  <2>4. ASSUME NEW k \in 1..n PROVE t[k] = l[k]
    BY ZenonT(40), <1>1, <2>1, <2>2, <2>3
  <2>5. t = l
    BY <2>2, <2>4, SeqEqual DEF n
  <2> QED
    BY <2>5 DEF t
<1>6. /\ AfterLine(b, LineEnd(b)) \in Buffers(S)
      /\ Content(Retrieve(b, n + 2)) = SubSeq(c, n + 3, Len(c))
  <2>1. (n + 2) + 1 = n + 3
    BY <1>1
  <2>2. /\ Retrieve(b, n + 2) \in Buffers(S)
        /\ Content(Retrieve(b, n + 2)) = SubSeq(c, (n + 2) + 1, Len(c))
    BY <1>4, RetrieveDrops DEF c
  <2> QED
    BY <1>4, <2>1, <2>2
<1>7. SubSeq(c, n + 3, Len(c)) = u
  <2> DEFINE t == SubSeq(c, n + 3, Len(c))
             z == Len(c)
             a == n + 3
  <2>1. z \in Nat /\ z = n + 2 + m /\ a \in Nat
    BY <1>1
  <2>2. c \in Seq(S) /\ z <= Len(c)
    BY <1>1
  <2> HIDE DEF z, a
  <2>3. 1 <= a /\ a <= z + 1 /\ z - a + 1 = m
    BY <1>1, <2>1 DEF a
  <2>4. /\ SubSeq(c, a, z) \in Seq(S) /\ Len(SubSeq(c, a, z)) = z - a + 1
        /\ \A k \in 1..(z - a + 1) : SubSeq(c, a, z)[k] = c[a + k - 1]
    BY <2>1, <2>2, <2>3, Piece
  <2>5. t = SubSeq(c, a, z)
    BY DEF a, z
  <2> HIDE DEF t
  <2>6. t \in Seq(S) /\ Len(t) = m /\ \A k \in 1..m : t[k] = c[a + k - 1]
    BY <2>3, <2>4, <2>5
  <2>7. ASSUME NEW k \in 1..m PROVE a + k - 1 = n + 2 + k
    BY <1>1 DEF a
  <2>8. ASSUME NEW k \in 1..m PROVE t[k] = u[k]
    BY ZenonT(40), <1>1, <2>6, <2>7
  <2>9. t = u
    BY <2>6, <2>8, SeqEqual DEF m
  <2> QED
    BY <2>9 DEF t
<1> QED
  BY <1>4, <1>5, <1>6, <1>7

(* Without one the rest of the buffer is the line.                         *)
LEMMA RestTaken ==
  ASSUME NEW S, NEW b \in Buffers(S), NoCR(Content(b))
  PROVE  /\ Bytes(b, b.readPos, LineEnd(b)) = Content(b)
         /\ AfterLine(b, LineEnd(b)) \in Buffers(S)
         /\ ReadableBytes(AfterLine(b, LineEnd(b))) = 0
<1>1. /\ b.readPos \in Nat /\ b.writePos \in Nat /\ b.readPos <= b.writePos
      /\ ReadableBytes(b) = b.writePos - b.readPos
  BY BufferFields DEF ReadableBytes
<1>2. /\ Len(Content(b)) = ReadableBytes(b)
      /\ \A k \in 1..ReadableBytes(b) : Content(b)[k] = b.cells[b.readPos + k - 1]
  BY ContentIsSeq
<1>3. LineEnds(b) = {}
  <2>1. ASSUME NEW j \in LineEnds(b) PROVE FALSE
    <3>1. j \in b.readPos..(b.writePos - 2) /\ b.cells[j] = "CR"
      BY DEF LineEnds
    <3>2. /\ j - b.readPos + 1 \in 1..ReadableBytes(b)
          /\ b.readPos + (j - b.readPos + 1) - 1 = j
      BY <1>1, <3>1
    <3> QED
      BY <1>2, <3>1, <3>2 DEF NoCR
  <2> QED
    BY <2>1
<1>4. LineEnd(b) = b.writePos
  BY <1>3 DEF LineEnd
<1>5. AfterLine(b, b.writePos) = Retrieve(b, ReadableBytes(b))
  BY <1>1 DEF AfterLine, RetrieveUntil
<1>6. Retrieve(b, ReadableBytes(b)) \in Buffers(S)
  <2>1. ReadableBytes(b) \in 0..ReadableBytes(b)
    BY <1>1
  <2> QED
    BY <2>1, RetrieveDrops
<1>7. ReadableBytes(Retrieve(b, ReadableBytes(b))) = 0
  BY <1>1, BufferFields DEF Retrieve, ReadableBytes
<1> QED
  BY <1>4, <1>5, <1>6, <1>7 DEF Content
-----------------------------------------------------------------------------
(* What the parser makes of a line of a request.                           *)
LEMMA WordOfOne ==
  ASSUME NEW x
  PROVE  Word(<<x>>) = x
BY DEF Word

LEMMA PieceOfOne ==
  ASSUME NEW S, NEW s \in Seq(S), NEW k \in 1..Len(s)
  PROVE  SubSeq(s, k, k) = <<s[k]>>
<1> DEFINE t == SubSeq(s, k, k)
<1>1. k \in Nat /\ 1 <= k /\ k <= k + 1 /\ k <= Len(s) /\ k - k + 1 = 1 /\ k + 1 - 1 = k
  OBVIOUS
<1>2. /\ t \in Seq(S) /\ Len(t) = k - k + 1
      /\ \A i \in 1..(k - k + 1) : t[i] = s[k + i - 1]
  BY <1>1, Piece
<1> HIDE DEF t
<1>3. Len(t) = 1 /\ t[1] = s[k]
  BY <1>1, <1>2
<1>4. s[k] \in S
  OBVIOUS
<1>5. t = <<s[k]>>
  BY <1>2, <1>3, <1>4, SeqEqual
<1> QED
  BY <1>5 DEF t

LEMMA RequestLineParsed ==
  ASSUME NEW m \in Methods, NEW p \in Paths
  PROVE  ParseRequestLine_(NewRequest, <<m, p, "1.1">>)
           = Request("HEADERS", m, ParsePath_(p), "1.1", NewRequest.header)
<1> DEFINE l == <<m, p, "1.1">>
           at == RequestLineAt(l)
<1>1. Len(l) = 3 /\ l[1] = m /\ l[2] = p /\ l[3] = "1.1"
  OBVIOUS
<1>s. l \in Seq({m, p, "1.1"})
  OBVIOUS
<1> HIDE DEF l
<1>2. SubSeq(l, 1, 1) = <<m>> /\ SubSeq(l, 3, 3) = <<"1.1">>
  <2>1. 1 \in 1..3 /\ 3 \in 1..3
    OBVIOUS
  <2> QED
    BY <2>1, <1>s, <1>1, PieceOfOne
<1>3. at = {1}
  <2>1. p \notin Methods
    BY MethodsAndPaths
  <2>2. at = {i \in 1..2 : l[i] \in Methods /\ l[i + 1] \in Paths}
    BY <1>1 DEF RequestLineAt
  <2> HIDE DEF at
  <2>3. 1..2 = {1, 2} /\ 1 + 1 = 2
    OBVIOUS
  <2> QED
    BY <1>1, <2>1, <2>2, <2>3, Zenon
<1>4. (CHOOSE k \in at : TRUE) = 1
  BY <1>3
<1>5. ParseRequestLine_(NewRequest, l)
        = Request("HEADERS", Word(SubSeq(l, 1, 1)), ParsePath_(l[2]),
                  Word(SubSeq(l, 3, 3)), NewRequest.header)
  <2>1. 1 + 1 = 2 /\ 1 + 2 = 3
    OBVIOUS
  <2> DEFINE i == CHOOSE k \in at : TRUE
  <2>2. ParseRequestLine_(NewRequest, l)
          = Request("HEADERS", Word(SubSeq(l, 1, i)), ParsePath_(l[i + 1]),
                    Word(SubSeq(l, i + 2, Len(l))), NewRequest.header)
    BY <1>3 DEF ParseRequestLine_
  <2>3. i = 1
    BY <1>4
  <2> HIDE DEF i
  <2> QED
    BY <1>1, <2>1, <2>2, <2>3
<1> QED
  BY <1>1, <1>2, <1>5, WordOfOne DEF l

LEMMA HeaderParsed ==
  ASSUME NEW r, NEW name \in Names, NEW value, value \notin {"CR", "LF"}
  PROVE  ParseHeader_(r, <<name, ":", value>>) = [r EXCEPT !.header[name] = value]
<1> DEFINE l == <<name, ":", value>>
           at == HeaderAt(l)
<1>1. Len(l) = 3 /\ l[1] = name /\ l[2] = ":" /\ l[3] = value
  OBVIOUS
<1>s. l \in Seq({name, ":", value})
  OBVIOUS
<1> HIDE DEF l
<1>2. SubSeq(l, 1, 1) = <<name>> /\ SubSeq(l, 3, 3) = <<value>>
  <2>1. 1 \in 1..3 /\ 3 \in 1..3
    OBVIOUS
  <2> QED
    BY <2>1, <1>s, <1>1, PieceOfOne
<1>3. at = {2}
  <2>1. name # ":"
    BY DEF Names
  <2>2. at = {i \in 1..3 : /\ l[i] = ":" /\ \A k \in 1..(i - 1) : l[k] # ":"
                           /\ \A k \in i..3 : l[k] \notin {"CR", "LF"}}
    BY <1>1 DEF HeaderAt
  <2> HIDE DEF at
  <2>3. 1..3 = {1, 2, 3} /\ 1..(2 - 1) = {1} /\ 2..3 = {2, 3} /\ 2 \in 1..(3 - 1)
    OBVIOUS
  <2>4. 2 \in at
    BY <1>1, <2>1, <2>2, <2>3
  <2>5. 1 \notin at
    BY <1>1, <2>1, <2>2
  <2>6. 3 \notin at
    BY <1>1, <2>2, <2>3
  <2>7. at \subseteq {1, 2, 3}
    BY <2>2, <2>3
  <2> QED
    BY <2>4, <2>5, <2>6, <2>7
<1>4. (CHOOSE k \in at : TRUE) = 2
  BY <1>3
<1>5. ParseHeader_(r, l)
        = IF Word(SubSeq(l, 1, 1)) \in Names
          THEN [r EXCEPT !.header[Word(SubSeq(l, 1, 1))] = Word(SubSeq(l, 3, 3))] ELSE r
  <2>1. 2 - 1 = 1 /\ 2 + 1 = 3
    OBVIOUS
  <2> DEFINE i == CHOOSE k \in at : TRUE
  <2>2. ParseHeader_(r, l)
          = IF Word(SubSeq(l, 1, i - 1)) \in Names
            THEN [r EXCEPT !.header[Word(SubSeq(l, 1, i - 1))] = Word(SubSeq(l, i + 1, Len(l)))]
            ELSE r
    BY <1>3 DEF ParseHeader_
  <2>3. i = 2
    BY <1>4
  <2> HIDE DEF i
  <2> QED
    BY <1>1, <2>1, <2>2, <2>3
<1> QED
  BY <1>1, <1>2, <1>5, WordOfOne DEF l

LEMMA HeadersEnd ==
  ASSUME NEW r
  PROVE  ParseHeader_(r, <<>>)
           = [r EXCEPT !.state = IF r.method = "POST" THEN "BODY" ELSE "FINISH"]
<1>1. HeaderAt(<<>>) = {}
  BY DEF HeaderAt
<1> QED
  BY <1>1 DEF ParseHeader_
-----------------------------------------------------------------------------
(* A request, part by part.                                                *)
Text == Words \cup Methods \cup Paths
          \cup {"1.1", "CR", "LF", "Connection", "Content-Type", ":", "keep-alive", "urlencoded"}

KeepLine(q) == IF q.keep THEN <<"Connection", ":", "keep-alive", "CR", "LF">> ELSE <<>>
TypeLine(q) == IF q.body # <<>> THEN <<"Content-Type", ":", "urlencoded", "CR", "LF">> ELSE <<>>
FromEnd(q) == <<"CR", "LF">> \o q.body
FromType(q) == TypeLine(q) \o FromEnd(q)
FromKeep(q) == KeepLine(q) \o FromType(q)

(* A request for one of the paths, as RequestsAreOfPages has them.         *)
OfPage(q) ==
  /\ q.method \in Methods /\ q.path \in Paths /\ q.keep \in BOOLEAN
  /\ q.body \in Seq(Words \ {"CR"})
  /\ q.body # <<>> <=> q.method = "POST"

LEMMA PartsAreText ==
  ASSUME NEW q, OfPage(q)
  PROVE  /\ q.body \in Seq(Text) /\ KeepLine(q) \in Seq(Text) /\ TypeLine(q) \in Seq(Text)
         /\ FromEnd(q) \in Seq(Text) /\ FromType(q) \in Seq(Text) /\ FromKeep(q) \in Seq(Text)
         /\ q.method \in Text /\ q.path \in Text
<1>1. /\ "Connection" \in Text /\ ":" \in Text /\ "keep-alive" \in Text
      /\ "Content-Type" \in Text /\ "urlencoded" \in Text /\ "CR" \in Text /\ "LF" \in Text
  BY DEF Text
<1>2. q.body \in Seq(Text)
  <2>1. Words \ {"CR"} \subseteq Text
    BY DEF Text
  <2>2. q.body \in Seq(Words \ {"CR"})
    BY DEF OfPage
  <2> QED
    BY <2>1, <2>2
<1>3. q.method \in Text /\ q.path \in Text
  BY DEF OfPage, Text
<1>4. <<"CR", "LF">> \in Seq(Text)
  BY <1>1
<1>5. KeepLine(q) \in Seq(Text) /\ TypeLine(q) \in Seq(Text)
  BY <1>1 DEF KeepLine, TypeLine
<1>6. FromEnd(q) \in Seq(Text)
  BY <1>2, <1>4, ConcatProperties DEF FromEnd
<1>7. FromType(q) \in Seq(Text)
  BY <1>5, <1>6, ConcatProperties DEF FromType
<1>8. FromKeep(q) \in Seq(Text)
  BY <1>5, <1>7, ConcatProperties DEF FromKeep
<1> QED
  BY <1>2, <1>3, <1>5, <1>6, <1>7, <1>8

(* Concatenation under a name, for what follows from its being             *)
(* associative alone.                                                      *)
Then(s, t) == s \o t

LEMMA ThenIsText ==
  ASSUME NEW s \in Seq(Text), NEW t \in Seq(Text)
  PROVE  Then(s, t) \in Seq(Text)
BY ConcatProperties DEF Then

LEMMA ThenAssociative ==
  ASSUME NEW s \in Seq(Text), NEW t \in Seq(Text), NEW u \in Seq(Text)
  PROVE  Then(Then(s, t), u) = Then(s, Then(t, u))
BY ConcatAssociative DEF Then

LEMMA FourParts ==
  ASSUME NEW a \in Seq(Text), NEW b \in Seq(Text), NEW c \in Seq(Text), NEW d \in Seq(Text)
  PROVE  Then(Then(Then(a, b), c), d) = Then(a, Then(b, Then(c, d)))
<1>1. Then(a, b) \in Seq(Text) /\ Then(c, d) \in Seq(Text)
  BY ThenIsText
<1>2. Then(Then(Then(a, b), c), d) = Then(Then(a, b), Then(c, d))
  BY <1>1, ThenAssociative
<1>3. Then(Then(a, b), Then(c, d)) = Then(a, Then(b, Then(c, d)))
  BY <1>1, ThenAssociative
<1> QED
  BY <1>2, <1>3

LEMMA FiveParts ==
  ASSUME NEW a \in Seq(Text), NEW b \in Seq(Text), NEW c \in Seq(Text), NEW d \in Seq(Text),
         NEW e \in Seq(Text)
  PROVE  Then(Then(Then(Then(a, b), c), d), e) = Then(a, Then(b, Then(c, Then(d, e))))
<1>1. Then(Then(a, b), c) \in Seq(Text) /\ Then(a, b) \in Seq(Text) /\ Then(d, e) \in Seq(Text)
  BY ThenIsText
<1>2. Then(Then(Then(Then(a, b), c), d), e) = Then(Then(Then(a, b), c), Then(d, e))
  BY <1>1, ThenAssociative
<1>3. Then(Then(Then(a, b), c), Then(d, e)) = Then(a, Then(b, Then(c, Then(d, e))))
  BY <1>1, FourParts
<1> QED
  BY <1>2, <1>3

LEMMA EncodeIs ==
  ASSUME NEW q, OfPage(q)
  PROVE  Encode(q) = <<q.method, q.path, "1.1", "CR", "LF">> \o FromKeep(q)
<1> DEFINE a == <<q.method, q.path, "1.1", "CR", "LF">>
           b == KeepLine(q)
           c == TypeLine(q)
           d == <<"CR", "LF">>
           e == q.body
<1>1. Encode(q) = (((a \o b) \o c) \o d) \o e
  BY DEF Encode, KeepLine, TypeLine
<1>2. a \in Seq(Text) /\ d \in Seq(Text)
  <2>1. "1.1" \in Text /\ "CR" \in Text /\ "LF" \in Text
    BY DEF Text
  <2> QED
    BY <2>1, PartsAreText
<1>3. b \in Seq(Text) /\ c \in Seq(Text) /\ e \in Seq(Text)
  BY PartsAreText
<1>4. FromKeep(q) = b \o (c \o (d \o e))
  BY DEF FromKeep, FromType, FromEnd
<1> HIDE DEF a, b, c, d, e
<1>5. Then(Then(Then(Then(a, b), c), d), e) = Then(a, Then(b, Then(c, Then(d, e))))
  BY <1>2, <1>3, FiveParts
<1>6. Encode(q) = a \o FromKeep(q)
  BY <1>1, <1>4, <1>5 DEF Then
<1> QED
  BY <1>6 DEF a

LEMMA LineInFront ==
  ASSUME NEW x \in Text, NEW y \in Text, NEW z \in Text, NEW u \in Seq(Text), NEW t \in Seq(Text)
  PROVE  StartsWith((<<x, y, z, "CR", "LF">> \o u) \o t, <<x, y, z>>, u \o t)
<1> DEFINE l == <<x, y, z>>
           e == <<"CR", "LF">>
           f == <<x, y, z, "CR", "LF">>
<1>1. l \in Seq(Text) /\ e \in Seq(Text) /\ "CR" \in Text /\ "LF" \in Text
  BY DEF Text
<1>2. f = l \o e
  OBVIOUS
<1> HIDE DEF l, e, f
<1>3. Then(Then(Then(l, e), u), t) = Then(l, Then(e, Then(u, t)))
  BY <1>1, FourParts
<1>4. (f \o u) \o t = l \o (e \o (u \o t))
  BY <1>2, <1>3 DEF Then
<1> QED
  BY <1>4 DEF StartsWith, l, e, f

LEMMA EmptyLineInFront ==
  ASSUME NEW u \in Seq(Text), NEW t \in Seq(Text)
  PROVE  StartsWith((<<"CR", "LF">> \o u) \o t, <<>>, u \o t)
<1> DEFINE e == <<"CR", "LF">>
           o == <<>>
<1>1. e \in Seq(Text) /\ o \in Seq(Text)
  BY DEF Text
<1>2. o \o e = e
  OBVIOUS
<1> HIDE DEF e, o
<1>3. Then(Then(Then(o, e), u), t) = Then(o, Then(e, Then(u, t)))
  BY <1>1, FourParts
<1>4. (e \o u) \o t = o \o (e \o (u \o t))
  BY <1>2, <1>3 DEF Then
<1> QED
  BY <1>4 DEF StartsWith, e, o
-----------------------------------------------------------------------------
(* How far the parser is with a request q that has t behind it, and what   *)
(* it knows by then, with r the request and c what is left in the buffer.  *)
Nothing == ""
Headers(connection, type) == [n \in Names |-> IF n = "Connection" THEN connection ELSE type]
KeepValue(q) == IF q.keep THEN "keep-alive" ELSE Nothing
TypeValue(q) == IF q.body # <<>> THEN "urlencoded" ELSE Nothing
Known(q, state, connection, type) ==
  Request(state, q.method, ParsePath_(q.path), "1.1", Headers(connection, type))

AtFirst(q, t, r, c) == r = NewRequest /\ c = Encode(q) \o t
AtKeep(q, t, r, c) == q.keep /\ r = Known(q, "HEADERS", Nothing, Nothing) /\ c = FromKeep(q) \o t
AtType(q, t, r, c) ==
  q.body # <<>> /\ r = Known(q, "HEADERS", KeepValue(q), Nothing) /\ c = FromType(q) \o t
AtEnd(q, t, r, c) ==
  r = Known(q, "HEADERS", KeepValue(q), TypeValue(q)) /\ c = FromEnd(q) \o t
AtBody(q, t, r, c) ==
  /\ q.body # <<>> /\ t = <<>> /\ c = q.body
  /\ r = Known(q, "BODY", KeepValue(q), TypeValue(q))

Underway(q, t, r, c) ==
  AtFirst(q, t, r, c) \/ AtKeep(q, t, r, c) \/ AtType(q, t, r, c) \/ AtEnd(q, t, r, c)
    \/ AtBody(q, t, r, c)

Finished(q, t, r, c) ==
  /\ r.state = "FINISH" /\ r.method = q.method
  /\ \/ r.path = ParsePath_(q.path)
     \/ q.body # <<>> /\ r.path \in {"/welcome.html", "/error.html"}
  /\ IsKeepAlive(r) = q.keep
  /\ c = t

LEMMA KnownFields ==
  ASSUME NEW q, NEW state, NEW c, NEW d
  PROVE  /\ Known(q, state, c, d).state = state /\ Known(q, state, c, d).method = q.method
         /\ Known(q, state, c, d).path = ParsePath_(q.path)
         /\ Known(q, state, c, d).version = "1.1"
         /\ Known(q, state, c, d).header = Headers(c, d)
         /\ Headers(c, d)["Connection"] = c /\ Headers(c, d)["Content-Type"] = d
BY DEF Known, Request, Headers, Names

LEMMA KnownLater ==
  ASSUME NEW q, NEW c, NEW d, NEW s
  PROVE  [Known(q, "HEADERS", c, d) EXCEPT !.state = s] = Known(q, s, c, d)
BY DEF Known, Request

LEMMA KeepKnown ==
  ASSUME NEW q
  PROVE  [Known(q, "HEADERS", Nothing, Nothing) EXCEPT !.header["Connection"] = "keep-alive"]
           = Known(q, "HEADERS", "keep-alive", Nothing)
<1> DEFINE h == Headers(Nothing, Nothing)
           g == Headers("keep-alive", Nothing)
           p == ParsePath_(q.path)
<1>1. [h EXCEPT !["Connection"] = "keep-alive"] = g
  BY DEF Headers, Names
<1>2. /\ Known(q, "HEADERS", Nothing, Nothing) = Request("HEADERS", q.method, p, "1.1", h)
      /\ Known(q, "HEADERS", "keep-alive", Nothing) = Request("HEADERS", q.method, p, "1.1", g)
  BY DEF Known
<1> HIDE DEF h, g, p
<1>3. [Request("HEADERS", q.method, p, "1.1", h) EXCEPT !.header["Connection"] = "keep-alive"]
        = Request("HEADERS", q.method, p, "1.1", g)
  BY <1>1 DEF Request
<1> QED
  BY <1>2, <1>3, Zenon

LEMMA TypeKnown ==
  ASSUME NEW q, NEW c
  PROVE  [Known(q, "HEADERS", c, Nothing) EXCEPT !.header["Content-Type"] = "urlencoded"]
           = Known(q, "HEADERS", c, "urlencoded")
<1> DEFINE h == Headers(c, Nothing)
           g == Headers(c, "urlencoded")
           p == ParsePath_(q.path)
<1>1. [h EXCEPT !["Content-Type"] = "urlencoded"] = g
  BY DEF Headers, Names
<1>2. /\ Known(q, "HEADERS", c, Nothing) = Request("HEADERS", q.method, p, "1.1", h)
      /\ Known(q, "HEADERS", c, "urlencoded") = Request("HEADERS", q.method, p, "1.1", g)
  BY DEF Known
<1> HIDE DEF h, g, p
<1>3. [Request("HEADERS", q.method, p, "1.1", h) EXCEPT !.header["Content-Type"] = "urlencoded"]
        = Request("HEADERS", q.method, p, "1.1", g)
  BY <1>1 DEF Request
<1> QED
  BY <1>2, <1>3, Zenon

LEMMA NothingInFront ==
  ASSUME NEW s \in Seq(Text)
  PROVE  <<>> \o s = s
OBVIOUS

LEMMA PastKeep ==
  ASSUME NEW q, OfPage(q), NEW t, NEW r, NEW c,
         r = Known(q, "HEADERS", KeepValue(q), Nothing), c = FromType(q) \o t
  PROVE  AtType(q, t, r, c) \/ AtEnd(q, t, r, c)
<1>1. CASE q.body # <<>>
  BY <1>1 DEF AtType
<1>2. CASE q.body = <<>>
  <2>1. TypeValue(q) = Nothing /\ TypeLine(q) = <<>>
    BY <1>2 DEF TypeValue, TypeLine
  <2>2. FromType(q) = FromEnd(q)
    BY <2>1, PartsAreText, NothingInFront, Zenon DEF FromType
  <2> QED
    BY <2>1, <2>2 DEF AtEnd
<1> QED
  BY <1>1, <1>2

LEMMA PastFirst ==
  ASSUME NEW q, OfPage(q), NEW t, NEW r, NEW c,
         r = Known(q, "HEADERS", Nothing, Nothing), c = FromKeep(q) \o t
  PROVE  AtKeep(q, t, r, c) \/ AtType(q, t, r, c) \/ AtEnd(q, t, r, c)
<1>1. CASE q.keep
  BY <1>1 DEF AtKeep
<1>2. CASE ~q.keep
  <2>1. KeepValue(q) = Nothing /\ KeepLine(q) = <<>>
    BY <1>2 DEF KeepValue, KeepLine
  <2>2. FromKeep(q) = FromType(q)
    BY <2>1, PartsAreText, NothingInFront, Zenon DEF FromKeep
  <2> QED
    BY <2>1, <2>2, PastKeep
<1> QED
  BY <1>1, <1>2
-----------------------------------------------------------------------------
(* A turn of parse's loop at each of these places.                         *)
Line(b) == Bytes(b, b.readPos, LineEnd(b))
Rest(b) == AfterLine(b, LineEnd(b))

LEMMA TakesLine ==
  ASSUME NEW b \in Buffers(Text), NEW l \in Seq(Text), NEW u \in Seq(Text), NoCR(l),
         StartsWith(Content(b), l, u)
  PROVE  Line(b) = l /\ Rest(b) \in Buffers(Text) /\ Content(Rest(b)) = u
<1>1. "CR" \in Text /\ "LF" \in Text
  BY DEF Text
<1> QED
  BY <1>1, LineTaken DEF Line, Rest

LEMMA ThreeWords ==
  ASSUME NEW x \in Text \ {"CR"}, NEW y \in Text \ {"CR"}, NEW z \in Text \ {"CR"}
  PROVE  <<x, y, z>> \in Seq(Text) /\ NoCR(<<x, y, z>>)
BY DEF NoCR

LEMMA NoWords == <<>> \in Seq(Text) /\ NoCR(<<>>)
BY DEF NoCR

LEMMA FirstTurn ==
  ASSUME NEW q, OfPage(q), NEW t \in Seq(Text), NEW b \in Buffers(Text), NEW v,
         NEW r, AtFirst(q, t, r, Content(b))
  PROVE  /\ Rest(b) \in Buffers(Text)
         /\ ParseLine(r, Line(b), v) = Known(q, "HEADERS", Nothing, Nothing)
         /\ Content(Rest(b)) = FromKeep(q) \o t
<1> DEFINE l == <<q.method, q.path, "1.1">>
           u == FromKeep(q) \o t
<1>1. q.method \in Text \ {"CR"} /\ q.path \in Text \ {"CR"} /\ "1.1" \in Text \ {"CR"}
  BY MethodsAndPaths DEF OfPage, Text
<1>2. l \in Seq(Text) /\ NoCR(l)
  BY <1>1, ThreeWords
<1>3. FromKeep(q) \in Seq(Text)
  BY PartsAreText
<1>4. u \in Seq(Text)
  BY <1>3, ConcatProperties
<1>5. Content(b) = (<<q.method, q.path, "1.1", "CR", "LF">> \o FromKeep(q)) \o t
  BY EncodeIs DEF AtFirst
<1>6. StartsWith(Content(b), l, u)
  BY <1>1, <1>3, <1>5, LineInFront
<1> HIDE DEF l, u
<1>7. Line(b) = l /\ Rest(b) \in Buffers(Text) /\ Content(Rest(b)) = u
  BY <1>2, <1>4, <1>6, TakesLine
<1>8. ParseLine(NewRequest, l, v) = ParseRequestLine_(NewRequest, l)
  BY DEF ParseLine, NewRequest, Request
<1>9. ParseRequestLine_(NewRequest, l)
        = Request("HEADERS", q.method, ParsePath_(q.path), "1.1", NewRequest.header)
  BY RequestLineParsed DEF OfPage, l
<1>10. NewRequest.header = Headers(Nothing, Nothing)
  BY DEF NewRequest, Request, Headers, Nothing
<1> QED
  BY <1>7, <1>8, <1>9, <1>10 DEF Known, AtFirst, u

LEMMA KeepTurn ==
  ASSUME NEW q, OfPage(q), NEW t \in Seq(Text), NEW b \in Buffers(Text), NEW v,
         NEW r, AtKeep(q, t, r, Content(b))
  PROVE  /\ Rest(b) \in Buffers(Text)
         /\ ParseLine(r, Line(b), v) = Known(q, "HEADERS", KeepValue(q), Nothing)
         /\ Content(Rest(b)) = FromType(q) \o t
<1> DEFINE l == <<"Connection", ":", "keep-alive">>
           u == FromType(q) \o t
<1>1. /\ "Connection" \in Text \ {"CR"} /\ ":" \in Text \ {"CR"}
      /\ "keep-alive" \in Text \ {"CR"}
  BY DEF Text
<1>2. l \in Seq(Text) /\ NoCR(l)
  BY <1>1, ThreeWords
<1>3. FromType(q) \in Seq(Text)
  BY PartsAreText
<1>4. u \in Seq(Text)
  BY <1>3, ConcatProperties
<1>5. Content(b) = (<<"Connection", ":", "keep-alive", "CR", "LF">> \o FromType(q)) \o t
  BY Zenon DEF AtKeep, FromKeep, KeepLine
<1>6. StartsWith(Content(b), l, u)
  BY <1>1, <1>3, <1>5, LineInFront
<1> HIDE DEF l, u
<1>7. Line(b) = l /\ Rest(b) \in Buffers(Text) /\ Content(Rest(b)) = u
  BY <1>2, <1>4, <1>6, TakesLine
<1>8. /\ r = Known(q, "HEADERS", Nothing, Nothing) /\ r.state = "HEADERS"
      /\ KeepValue(q) = "keep-alive"
  <2>1. r = Known(q, "HEADERS", Nothing, Nothing) /\ KeepValue(q) = "keep-alive"
    BY Zenon DEF AtKeep, KeepValue
  <2> QED
    BY <2>1 DEF Known, Request
<1>9. ParseLine(r, l, v) = ParseHeader_(r, l)
  BY <1>8 DEF ParseLine
<1>10. ParseHeader_(r, l) = [r EXCEPT !.header["Connection"] = "keep-alive"]
  BY HeaderParsed DEF Names, l
<1> QED
  BY <1>7, <1>8, <1>9, <1>10, KeepKnown, Zenon DEF u

LEMMA TypeTurn ==
  ASSUME NEW q, OfPage(q), NEW t \in Seq(Text), NEW b \in Buffers(Text), NEW v,
         NEW r, AtType(q, t, r, Content(b))
  PROVE  /\ Rest(b) \in Buffers(Text)
         /\ ParseLine(r, Line(b), v) = Known(q, "HEADERS", KeepValue(q), TypeValue(q))
         /\ Content(Rest(b)) = FromEnd(q) \o t
<1> DEFINE l == <<"Content-Type", ":", "urlencoded">>
           u == FromEnd(q) \o t
<1>1. /\ "Content-Type" \in Text \ {"CR"} /\ ":" \in Text \ {"CR"}
      /\ "urlencoded" \in Text \ {"CR"}
  BY DEF Text
<1>2. l \in Seq(Text) /\ NoCR(l)
  BY <1>1, ThreeWords
<1>3. FromEnd(q) \in Seq(Text)
  BY PartsAreText
<1>4. u \in Seq(Text)
  BY <1>3, ConcatProperties
<1>5. Content(b) = (<<"Content-Type", ":", "urlencoded", "CR", "LF">> \o FromEnd(q)) \o t
  BY Zenon DEF AtType, FromType, TypeLine
<1>6. StartsWith(Content(b), l, u)
  BY <1>1, <1>3, <1>5, LineInFront
<1> HIDE DEF l, u
<1>7. Line(b) = l /\ Rest(b) \in Buffers(Text) /\ Content(Rest(b)) = u
  BY <1>2, <1>4, <1>6, TakesLine
<1>8. /\ r = Known(q, "HEADERS", KeepValue(q), Nothing) /\ r.state = "HEADERS"
      /\ TypeValue(q) = "urlencoded"
  <2>1. r = Known(q, "HEADERS", KeepValue(q), Nothing) /\ TypeValue(q) = "urlencoded"
    BY Zenon DEF AtType, TypeValue
  <2> QED
    BY <2>1 DEF Known, Request
<1>9. ParseLine(r, l, v) = ParseHeader_(r, l)
  BY <1>8 DEF ParseLine
<1>10. ParseHeader_(r, l) = [r EXCEPT !.header["Content-Type"] = "urlencoded"]
  BY HeaderParsed DEF Names, l
<1> QED
  BY <1>7, <1>8, <1>9, <1>10, TypeKnown, Zenon DEF u

LEMMA EndTurn ==
  ASSUME NEW q, OfPage(q), NEW t \in Seq(Text), NEW b \in Buffers(Text), NEW v,
         NEW r, AtEnd(q, t, r, Content(b))
  PROVE  /\ Rest(b) \in Buffers(Text)
         /\ ParseLine(r, Line(b), v)
              = Known(q, IF q.body # <<>> THEN "BODY" ELSE "FINISH", KeepValue(q), TypeValue(q))
         /\ Content(Rest(b)) = q.body \o t
<1> DEFINE u == q.body \o t
<1>1. q.body \in Seq(Text)
  BY PartsAreText
<1>2. u \in Seq(Text)
  BY <1>1, ConcatProperties
<1>3. Content(b) = (<<"CR", "LF">> \o q.body) \o t
  BY DEF AtEnd, FromEnd
<1>4. StartsWith(Content(b), <<>>, u)
  BY <1>1, <1>3, EmptyLineInFront
<1> HIDE DEF u
<1>5. Line(b) = <<>> /\ Rest(b) \in Buffers(Text) /\ Content(Rest(b)) = u
  BY <1>2, <1>4, NoWords, TakesLine
<1>6. /\ r = Known(q, "HEADERS", KeepValue(q), TypeValue(q)) /\ r.state = "HEADERS"
      /\ r.method = q.method
  BY KnownFields DEF AtEnd
<1>7. ParseLine(r, <<>>, v) = ParseHeader_(r, <<>>)
  BY <1>6 DEF ParseLine
<1>8. ParseHeader_(r, <<>>)
        = [r EXCEPT !.state = IF q.body # <<>> THEN "BODY" ELSE "FINISH"]
  BY <1>6, HeadersEnd DEF OfPage
<1> QED
  BY <1>5, <1>6, <1>7, <1>8, KnownLater DEF u

LEMMA BodyTurn ==
  ASSUME NEW q, OfPage(q), NEW b \in Buffers(Text), NEW v, NEW r, AtBody(q, <<>>, r, Content(b))
  PROVE  /\ Rest(b) \in Buffers(Text)
         /\ Finished(q, <<>>, ParseLine(r, Line(b), v), Content(Rest(b)))
<1>1. NoCR(Content(b))
  <2>1. q.body \in Seq(Words \ {"CR"}) /\ Content(b) = q.body
    BY DEF AtBody, OfPage
  <2> QED
    BY <2>1 DEF NoCR
<1>2. Rest(b) \in Buffers(Text) /\ ReadableBytes(Rest(b)) = 0
  BY <1>1, RestTaken DEF Rest
<1>3. Content(Rest(b)) = <<>>
  BY <1>2, ContentIsSeq
<1>4. /\ r = Known(q, "BODY", KeepValue(q), TypeValue(q)) /\ r.state = "BODY"
      /\ r.method = "POST" /\ r.path = ParsePath_(q.path) /\ r.version = "1.1"
      /\ r.header["Connection"] = KeepValue(q) /\ q.body # <<>> /\ r.method = q.method
  BY KnownFields DEF AtBody, OfPage
<1> DEFINE p == PathAfterPost(r, Line(b), v)
           s == ParseLine(r, Line(b), v)
<1>5. p \in {r.path, "/welcome.html", "/error.html"}
  BY DEF PathAfterPost
<1>6. s = [r EXCEPT !.state = "FINISH", !.path = p]
  BY <1>4 DEF ParseLine, ParseBody_
<1> HIDE DEF p
<1>7. /\ s.state = "FINISH" /\ s.method = q.method /\ s.path = p /\ s.version = "1.1"
      /\ s.header["Connection"] = KeepValue(q)
  BY <1>4, <1>6 DEF Known, Request
<1> HIDE DEF s
<1>8. IsKeepAlive(s) = q.keep
  BY <1>7 DEF IsKeepAlive, KeepValue, OfPage, Nothing
<1> QED
  BY <1>2, <1>3, <1>4, <1>5, <1>7, <1>8 DEF Finished, s
-----------------------------------------------------------------------------
LEMMA NotEmpty ==
  ASSUME NEW s \in Seq(Text), NEW t \in Seq(Text), s # <<>> \/ t # <<>>
  PROVE  s \o t # <<>>
<1>1. Len(s \o t) = Len(s) + Len(t) /\ s \o t \in Seq(Text)
  BY ConcatProperties
<1>2. Len(s) \in Nat /\ Len(t) \in Nat /\ (Len(s) # 0 \/ Len(t) # 0)
  OBVIOUS
<1>3. Len(s \o t) # 0
  BY <1>1, <1>2
<1> QED
  BY <1>3

LEMMA PartsLeft ==
  ASSUME NEW q, OfPage(q), NEW t \in Seq(Text)
  PROVE  FromKeep(q) \o t # <<>> /\ FromType(q) \o t # <<>> /\ FromEnd(q) \o t # <<>>
<1>1. /\ q.body \in Seq(Text) /\ KeepLine(q) \in Seq(Text) /\ TypeLine(q) \in Seq(Text)
      /\ FromEnd(q) \in Seq(Text) /\ FromType(q) \in Seq(Text) /\ FromKeep(q) \in Seq(Text)
  BY PartsAreText
<1>2. <<"CR", "LF">> \in Seq(Text) /\ <<"CR", "LF">> # <<>>
  BY DEF Text
<1>3. FromEnd(q) # <<>>
  BY <1>1, <1>2, NotEmpty DEF FromEnd
<1>4. FromType(q) # <<>>
  BY <1>1, <1>3, NotEmpty DEF FromType
<1>5. FromKeep(q) # <<>>
  BY <1>1, <1>4, NotEmpty DEF FromKeep
<1> QED
  BY <1>1, <1>3, <1>4, <1>5, NotEmpty

(* A turn of the loop takes a whole request further, or to its end.        *)
LEMMA Turn ==
  ASSUME NEW q, OfPage(q), NEW t \in Seq(Text), q.body # <<>> => t = <<>>,
         NEW b \in Buffers(Text), NEW v, NEW r, Underway(q, t, r, Content(b)),
         NEW s, s = ParseLine(r, Line(b), v)
  PROVE  /\ Rest(b) \in Buffers(Text) /\ s.state # "REQUEST_LINE"
         /\ \/ /\ s.state # "FINISH" /\ Content(Rest(b)) # <<>>
               /\ Underway(q, t, s, Content(Rest(b)))
            \/ Finished(q, t, s, Content(Rest(b)))
<1> DEFINE c == Content(Rest(b))
<1> HIDE DEF c
<1>1. ASSUME AtKeep(q, t, s, c) \/ AtType(q, t, s, c) \/ AtEnd(q, t, s, c)
      PROVE  c # <<>> /\ Underway(q, t, s, c)
  <2>1. c # <<>>
    BY <1>1, PartsLeft DEF AtKeep, AtType, AtEnd
  <2> QED
    BY <1>1, <2>1 DEF Underway
<1>2. CASE AtFirst(q, t, r, Content(b))
  <2>1. /\ Rest(b) \in Buffers(Text) /\ s = Known(q, "HEADERS", Nothing, Nothing)
        /\ c = FromKeep(q) \o t
    BY <1>2, FirstTurn DEF c
  <2>2. AtKeep(q, t, s, c) \/ AtType(q, t, s, c) \/ AtEnd(q, t, s, c)
    BY <2>1, PastFirst
  <2>3. s.state = "HEADERS"
    BY <2>1 DEF Known, Request
  <2> QED
    BY <1>1, <2>1, <2>2, <2>3 DEF c
<1>3. CASE AtKeep(q, t, r, Content(b))
  <2>1. /\ Rest(b) \in Buffers(Text) /\ s = Known(q, "HEADERS", KeepValue(q), Nothing)
        /\ c = FromType(q) \o t
    BY <1>3, KeepTurn DEF c
  <2>2. AtType(q, t, s, c) \/ AtEnd(q, t, s, c)
    BY <2>1, PastKeep
  <2>3. s.state = "HEADERS"
    BY <2>1 DEF Known, Request
  <2> QED
    BY <1>1, <2>1, <2>2, <2>3 DEF c
<1>4. CASE AtType(q, t, r, Content(b))
  <2>1. /\ Rest(b) \in Buffers(Text) /\ s = Known(q, "HEADERS", KeepValue(q), TypeValue(q))
        /\ c = FromEnd(q) \o t
    BY <1>4, TypeTurn DEF c
  <2>2. AtEnd(q, t, s, c)
    BY <2>1 DEF AtEnd
  <2>3. s.state = "HEADERS"
    BY <2>1 DEF Known, Request
  <2> QED
    BY <1>1, <2>1, <2>2, <2>3 DEF c
<1>5. CASE AtEnd(q, t, r, Content(b))
  <2>1. /\ Rest(b) \in Buffers(Text) /\ c = q.body \o t
        /\ s = Known(q, IF q.body # <<>> THEN "BODY" ELSE "FINISH", KeepValue(q), TypeValue(q))
    BY <1>5, EndTurn DEF c
  <2>2. CASE q.body # <<>>
    <3>1. c = q.body
      <4>1. q.body \in Seq(Text) /\ t = <<>>
        BY <2>2, PartsAreText
      <4> QED
        BY <2>1, <4>1
    <3>2. s = Known(q, "BODY", KeepValue(q), TypeValue(q))
      BY <2>1, <2>2
    <3>3. s.state = "BODY"
      BY <3>2 DEF Known, Request
    <3> QED
      BY <2>1, <2>2, <3>1, <3>2, <3>3 DEF Underway, AtBody, c
  <2>3. CASE q.body = <<>>
    <3>1. c = t
      BY <2>1, <2>3, NothingInFront
    <3>2. s = Known(q, "FINISH", KeepValue(q), TypeValue(q))
      BY <2>1, <2>3
    <3>3. /\ s.state = "FINISH" /\ s.method = q.method /\ s.path = ParsePath_(q.path)
          /\ s.version = "1.1" /\ s.header["Connection"] = KeepValue(q)
      BY <3>2, KnownFields
    <3>4. IsKeepAlive(s) = q.keep
      BY <3>3 DEF IsKeepAlive, KeepValue, OfPage, Nothing
    <3> QED
      BY <2>1, <3>1, <3>3, <3>4 DEF Finished, c
  <2> QED
    BY <2>2, <2>3
<1>6. CASE AtBody(q, t, r, Content(b))
  <2>1. t = <<>>
    BY <1>6 DEF AtBody
  <2>2. AtBody(q, <<>>, r, Content(b))
    BY <1>6, <2>1
  <2>3. Rest(b) \in Buffers(Text) /\ Finished(q, <<>>, s, Content(Rest(b)))
    BY <2>2, BodyTurn
  <2>4. s.state # "REQUEST_LINE"
    BY <2>3 DEF Finished
  <2> QED
    BY <2>1, <2>3, <2>4
<1> QED
  BY <1>2, <1>3, <1>4, <1>5, <1>6 DEF Underway
-----------------------------------------------------------------------------
(* The requests WholeRequestUnderstood is about, when process finds w, and *)
(* what is behind one of them.                                             *)
InFront(q, w) ==
  /\ q.path \in Paths
  /\ ~(Len(w) < Len(Encode(q))) /\ SubSeq(w, 1, Len(Encode(q))) = Encode(q)
  /\ ~(q.body # <<>> /\ Len(w) > Len(Encode(q)))
Behind(q, w) == SubSeq(w, Len(Encode(q)) + 1, Len(w))

(* While parse's loop runs, it is underway in each of them.                *)
Parsing ==
  pc = "parse" =>
    /\ before \in Seq(Words)
    /\ \A q \in Requests :
         InFront(q, before) => Underway(q, Behind(q, before), request, Content(readBuff))

LEMMA RequestIsOfPage ==
  ASSUME NEW q \in Requests, q.path \in Paths
  PROVE  OfPage(q)
BY RequestsAreOfPages DEF OfPage

LEMMA EncodeIsText ==
  ASSUME NEW q, OfPage(q)
  PROVE  Encode(q) \in Seq(Text) /\ Len(Encode(q)) \in Nat
<1>1. FromKeep(q) \in Seq(Text) /\ q.method \in Text /\ q.path \in Text
  BY PartsAreText
<1>2. <<q.method, q.path, "1.1", "CR", "LF">> \in Seq(Text)
  BY <1>1 DEF Text
<1>3. Encode(q) \in Seq(Text)
  BY <1>1, <1>2, EncodeIs, ConcatProperties
<1> QED
  BY <1>3

LEMMA WordsAreText == Words \subseteq Text
BY DEF Text

LEMMA BehindIs ==
  ASSUME NEW q \in Requests, NEW w \in Seq(Words), InFront(q, w)
  PROVE  /\ OfPage(q) /\ Behind(q, w) \in Seq(Text)
         /\ q.body # <<>> => Behind(q, w) = <<>>
         /\ w = Encode(q) \o Behind(q, w)
<1> DEFINE n == Len(Encode(q))
           m == Len(w)
<1>1. OfPage(q)
  BY RequestIsOfPage DEF InFront
<1>2. n \in Nat /\ m \in Nat
  BY <1>1, EncodeIsText
<1>3. n <= m /\ SubSeq(w, 1, n) = Encode(q) /\ (q.body # <<>> => m <= n)
  BY <1>2 DEF InFront
<1>4. w \in Seq(Text)
  BY WordsAreText
<1>5. m <= Len(w)
  BY <1>2
<1> DEFINE t == SubSeq(w, n + 1, m)
<1>6. t = Behind(q, w)
  BY DEF Behind
<1>7. SubSeq(w, 1, m) = w
  OBVIOUS
<1> HIDE DEF n, m
<1>8. t \in Seq(Text) /\ Len(t) = m - (n + 1) + 1
  <2> DEFINE a == n + 1
  <2>1. a \in Nat /\ 1 <= a /\ a <= m + 1
    BY <1>2, <1>3
  <2> HIDE DEF a
  <2>2. SubSeq(w, a, m) \in Seq(Text) /\ Len(SubSeq(w, a, m)) = m - a + 1
    BY <2>1, <1>2, <1>4, <1>5, Piece
  <2> QED
    BY <2>2 DEF a
<1>9. SubSeq(w, 1, n) \o t = SubSeq(w, 1, m)
  <2>1. 1 \in Nat /\ 1 <= 1 /\ 1 <= n + 1
    BY <1>2
  <2> QED
    BY <2>1, <1>2, <1>3, <1>4, <1>5, PiecesJoin
<1> HIDE DEF t
<1>10. q.body # <<>> => t = <<>>
  <2> SUFFICES ASSUME q.body # <<>> PROVE t = <<>>
    OBVIOUS
  <2>1. m = n
    BY <1>2, <1>3
  <2>2. Len(t) = 0
    BY <1>2, <1>8, <2>1
  <2> QED
    BY <1>8, <2>2
<1>11. w = Encode(q) \o t
  BY <1>3, <1>7, <1>9
<1> QED
  BY <1>1, <1>6, <1>8, <1>10, <1>11

LEMMA ParsingInit == Init => Parsing /\ WholeRequestUnderstood
BY DEF Init, Parsing, WholeRequestUnderstood

LEMMA ParsingStep ==
  Reading /\ Parsing /\ WholeRequestUnderstood /\ [Next]_vars
    => Parsing' /\ WholeRequestUnderstood'
<1> SUFFICES ASSUME Reading, Parsing, WholeRequestUnderstood, [Next]_vars
             PROVE  Parsing' /\ WholeRequestUnderstood'
  OBVIOUS
<1>b. readBuff \in Buffers(Words) /\ readBuff \in Buffers(Text)
  BY WordsAreText, BuffersGrow DEF Reading
<1>1. CASE pc' \notin {"parse", "respond"}
  BY <1>1 DEF Parsing, WholeRequestUnderstood
<1>2. CASE UNCHANGED <<pc, request, readBuff, before>>
  BY <1>2 DEF Parsing, WholeRequestUnderstood, Understood, InFront, Behind
<1>3. CASE Process
  <2>1. /\ request' = NewRequest /\ before' = Content(readBuff) /\ readBuff' = readBuff
        /\ pc' # "respond"
    BY <1>3 DEF Process, buffers
  <2>2. Content(readBuff) \in Seq(Words)
    BY <1>b, ContentIsSeq
  <2>3. ASSUME NEW q \in Requests, InFront(q, before')
        PROVE  Underway(q, Behind(q, before'), request', Content(readBuff)')
    <3>1. before' = Encode(q) \o Behind(q, before')
      BY <2>1, <2>2, <2>3, BehindIs
    <3> QED
      BY <2>1, <3>1 DEF Underway, AtFirst
  <2>4. Parsing'
    BY <2>1, <2>2, <2>3 DEF Parsing
  <2> QED
    BY <2>1, <2>4 DEF WholeRequestUnderstood
<1>4. CASE Parse
  <2>1. PICK v \in BOOLEAN : request' = ParseLine(request, Line(readBuff), v)
    BY <1>4 DEF Parse, Line
  <2>2. /\ pc = "parse" /\ before' = before
        /\ request'.state # "REQUEST_LINE" =>
             /\ readBuff' = Rest(readBuff)
             /\ pc' = IF ReadableBytes(Rest(readBuff)) = 0 \/ request'.state = "FINISH"
                      THEN "respond" ELSE "parse"
    BY <1>4 DEF Parse, Rest, Line
  <2>3. ASSUME NEW q \in Requests, InFront(q, before)
        PROVE  /\ pc' = "parse" => Underway(q, Behind(q, before), request', Content(readBuff'))
               /\ pc' = "respond" => Finished(q, Behind(q, before), request', Content(readBuff'))
    <3>1. before \in Seq(Words) /\ Underway(q, Behind(q, before), request, Content(readBuff))
      BY <2>2, <2>3 DEF Parsing
    <3>2. /\ OfPage(q) /\ Behind(q, before) \in Seq(Text)
          /\ q.body # <<>> => Behind(q, before) = <<>>
      BY <2>3, <3>1, BehindIs
    <3>3. /\ Rest(readBuff) \in Buffers(Text) /\ request'.state # "REQUEST_LINE"
          /\ \/ /\ request'.state # "FINISH" /\ Content(Rest(readBuff)) # <<>>
                /\ Underway(q, Behind(q, before), request', Content(Rest(readBuff)))
             \/ Finished(q, Behind(q, before), request', Content(Rest(readBuff)))
      BY <1>b, <2>1, <3>1, <3>2, Turn
    <3>4. Content(Rest(readBuff)) # <<>> => ReadableBytes(Rest(readBuff)) # 0
      BY <3>3, ContentIsSeq
    <3>5. Finished(q, Behind(q, before), request', Content(Rest(readBuff)))
            => request'.state = "FINISH"
      BY DEF Finished
    <3> QED
      BY <2>2, <3>3, <3>4, <3>5
  <2>4. Parsing'
    BY <2>2, <2>3 DEF Parsing
  <2>5. WholeRequestUnderstood'
    BY <2>2, <2>3 DEF WholeRequestUnderstood, Understood, InFront, Finished, Behind
  <2> QED
    BY <2>4, <2>5
<1>5. CASE Respond
  BY <1>1, <1>5 DEF Respond, Dies
<1>6. CASE \/ Arrive \/ Leave \/ MainCloses \/ TimerCloses
           \/ DealRead \/ Read \/ ReadAgain \/ ReadEnds
  BY <1>1, <1>2, <1>6
  DEF Arrive, Leave, MainCloses, TimerCloses, DealRead, Read, ReadAgain, ReadEnds, Close, buffers
<1>7. CASE init
  BY <1>1, <1>7 DEF init
<1>8. CASE DealWrite \/ Write \/ WriteEnds \/ WriteAgain \/ WriteOn \/ WriteCloses
  BY <1>1, <1>8 DEF DealWrite, Write, WriteEnds, WriteAgain, WriteOn, WriteCloses, Close
<1>9. CASE WriteFails
  BY <1>1, <1>9 DEF WriteFails, Dies
<1>10. CASE UNCHANGED vars
  BY <1>2, <1>10 DEF vars, buffers
<1> QED
  BY <1>3, <1>4, <1>5, <1>6, <1>7, <1>8, <1>9, <1>10 DEF Next

(* A request that is in the buffer as a whole when process is called is    *)
(* parsed as it was sent, for any method, page and form, with keep-alive   *)
(* or without and whatever is behind it, and nothing that is behind it is  *)
(* taken (parse, search).                                                  *)
THEOREM RequestUnderstood == Spec => []WholeRequestUnderstood
BY ReadingInit, ReadingStep, ParsingInit, ParsingStep, PTL DEF Spec
=============================================================================
