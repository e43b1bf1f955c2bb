-------------------------------- MODULE Buffer --------------------------------
(***************************************************************************)
(* webserver_tac, buffer/buffer.cpp: the byte buffer the connections and   *)
(* the log read and write through.                                         *)
(*                                                                         *)
(* A buffer is a value; its operations are operators from a buffer to a    *)
(* buffer.  What a cell holds is left to the user of the module.           *)
(***************************************************************************)
EXTENDS Naturals, Sequences

CONSTANTS
  Nul,           \* what bzero leaves in a cell
  StackSize      \* sizeof(buff) in ReadFd, 65535

ASSUME StackSizeIsNat == StackSize \in Nat

New(initBuffSize) ==
  [size |-> initBuffSize, cells |-> [i \in 0..(initBuffSize - 1) |-> Nul],
   readPos |-> 0, writePos |-> 0]

ReadableBytes(b) == b.writePos - b.readPos
WritableBytes(b) == b.size - b.writePos
PrependableBytes(b) == b.readPos

(* The bytes from index i to j - 1, and those between Peek and BeginWrite. *)
Bytes(b, i, j) == [k \in 1..(j - i) |-> b.cells[i + k - 1]]
Content(b) == Bytes(b, b.readPos, b.writePos)

(* std::copy of s to index i. *)
Copied(b, i, s) ==
  [b EXCEPT !.cells = [k \in DOMAIN b.cells |->
                         IF k \in i..(i + Len(s) - 1) THEN s[k - i + 1] ELSE b.cells[k]]]

Retrieve(b, len) == [b EXCEPT !.readPos = @ + len]

(* end is the index of a byte. *)
RetrieveUntil(b, end) == Retrieve(b, end - b.readPos)

RetrieveAll(b) == New(b.size)

HasWritten(b, len) == [b EXCEPT !.writePos = @ + len]
-----------------------------------------------------------------------------
(* A mutation of the definition below, a bug this code could have: it does *)
(* not set the read position when it moves the bytes to the front.         *)

CompactsInPlace(b, len) ==
  IF WritableBytes(b) + PrependableBytes(b) < len
  THEN [b EXCEPT !.size = b.writePos + len,
                 !.cells = [i \in 0..(b.writePos + len - 1) |->
                              IF i \in DOMAIN b.cells THEN b.cells[i] ELSE Nul]]
  ELSE [Copied(b, 0, Content(b)) EXCEPT !.writePos = ReadableBytes(b)]
-----------------------------------------------------------------------------
MakeSpace_(b, len) ==
  IF WritableBytes(b) + PrependableBytes(b) < len
  THEN [b EXCEPT !.size = b.writePos + len,
                 !.cells = [i \in 0..(b.writePos + len - 1) |->
                              IF i \in DOMAIN b.cells THEN b.cells[i] ELSE Nul]]
  ELSE [Copied(b, 0, Content(b)) EXCEPT !.readPos = 0, !.writePos = ReadableBytes(b)]

EnsureWriteable(b, len) == IF len > WritableBytes(b) THEN MakeSpace_(b, len) ELSE b

Append_(b, s) ==
  LET room == EnsureWriteable(b, Len(s))
  IN  HasWritten(Copied(room, room.writePos, s), Len(s))

(* readv of the bytes s, which fit in what may be written and the stack:   *)
(* those beyond the end of the buffer are appended from the stack.         *)
ReadFd(b, s) ==
  LET writeable == WritableBytes(b)
  IN  IF Len(s) <= writeable
      THEN HasWritten(Copied(b, b.writePos, s), Len(s))
      ELSE Append_([Copied(b, b.writePos, SubSeq(s, 1, writeable))
                      EXCEPT !.writePos = b.size],
                   SubSeq(s, writeable + 1, Len(s)))

(* How many of n bytes in the kernel one ReadFd takes. *)
ReadAtMost(b, n) ==
  IF n < WritableBytes(b) + StackSize THEN n ELSE WritableBytes(b) + StackSize
=============================================================================
