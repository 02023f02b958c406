------------------------------- MODULE Buffer -------------------------------
(***************************************************************************)
(* Buffer (buffer.cpp): a ring of bytes with one cell kept free to tell    *)
(* full from empty, which grows when a write does not fit.  The copies of  *)
(* bytes one by one are single steps: a Buffer belongs to one thread.      *)
(*                                                                         *)
(* The indices are 64 bits wide and differ by less than the size, so the   *)
(* sum in GetReadableSize is that of integers.  Not here: GetSize,         *)
(* MoveWriteIndex and Write(const Buffer &), which nothing calls.          *)
(***************************************************************************)
EXTENDS Integers, Sequences

CONSTANTS Bytes, Newline,
          Zero,       \* what a new vector holds
          Capacity,   \* the constructor's argument
          MaxSize     \* bound: a buffer does not grow past it

ASSUME BufferAssumption == /\ Newline \in Bytes /\ Zero \in Bytes
                           /\ Capacity \in Nat \ {0}
                           /\ MaxSize \in Nat

VARIABLES cells,      \* _buffer
          readIndex,  \* _readIndex
          writeIndex, \* _writeIndex
          size,       \* _size
          call,       \* history: the last call and its argument,
          answer,     \* the bytes it returned and
          ok          \* whether it was served

bufferVars == <<cells, readIndex, writeIndex, size, call, answer, ok>>

BufferInit ==
  /\ size = Capacity + 1
  /\ cells = [i \in 0..Capacity |-> Zero]
  /\ readIndex = 0 /\ writeIndex = 0
  /\ call = <<"clear", 0>> /\ answer = <<>> /\ ok = TRUE

ReadableSize  == (writeIndex - readIndex + size) % size
WriteableSize == size - ReadableSize - 1

(* The unread byte i, from 0. *)
Unread(i) == cells[(readIndex + i) % size]
Content   == [i \in 1..ReadableSize |-> Unread(i - 1)]

NewSize(n) == IF WriteableSize + size < n THEN size * 2 + n ELSE size * 2

(* The ring c of s cells after the bytes d were written from cell w on.     *)
Put(c, w, s, d) ==
  [i \in 0..(s - 1) |-> LET k == (i - w + s) % s
                        IN  IF k < Len(d) THEN d[k + 1] ELSE c[i]]

WriteInPlace(d) ==
  /\ Len(d) <= WriteableSize
  /\ cells' = Put(cells, writeIndex, size, d)
  /\ writeIndex' = (writeIndex + Len(d)) % size
  /\ answer' = <<>> /\ ok' = TRUE
  /\ UNCHANGED <<readIndex, size>>

(* Mutation: the cells are copied as they lie. *)
WriteGrownUnrolled(d) ==
  /\ Len(d) > WriteableSize
  /\ LET s == NewSize(Len(d))
         n == ReadableSize
     IN  /\ s <= MaxSize
         /\ cells' = Put([i \in 0..(s - 1) |-> IF i < n THEN cells[i] ELSE Zero], n, s, d)
         /\ size' = s
         /\ writeIndex' = (n + Len(d)) % s
  /\ readIndex' = 0
  /\ answer' = <<>> /\ ok' = TRUE

(* The unread bytes move to the front of a larger vector. *)
WriteGrown(d) ==
  /\ Len(d) > WriteableSize
  /\ LET s == NewSize(Len(d))
         n == ReadableSize
     IN  /\ s <= MaxSize
         /\ cells' = Put([i \in 0..(s - 1) |-> IF i < n THEN Unread(i) ELSE Zero], n, s, d)
         /\ size' = s
         /\ writeIndex' = (n + Len(d)) % s
  /\ readIndex' = 0
  /\ answer' = <<>> /\ ok' = TRUE

Fails == answer' = <<>> /\ ok' = FALSE /\ UNCHANGED <<cells, readIndex, writeIndex, size>>

Write(d) == call' = <<"write", d>> /\ (WriteInPlace(d) \/ WriteGrown(d))

(* The allocation of a larger vector throws. *)
WriteFails(d) == call' = <<"write", d>> /\ Len(d) > WriteableSize /\ Fails

(* The read index moves over n bytes, of which the first k are returned. *)
Advance(n, k) ==
  /\ answer' = [i \in 1..k |-> Unread(i - 1)] /\ ok' = TRUE
  /\ readIndex' = (readIndex + n) % size
  /\ UNCHANGED <<cells, writeIndex, size>>

MoveReadIndex(n) ==
  /\ call' = <<"skip", n>>
  /\ (n <= ReadableSize /\ Advance(n, 0)) \/ (n > ReadableSize /\ Fails)

Read(n) ==
  /\ call' = <<"read", n>>
  /\ (n <= ReadableSize /\ Advance(n, n)) \/ (n > ReadableSize /\ Fails)

(* The n bytes before the first newline are read, and the newline skipped;  *)
(* without one, all bytes or none.                                          *)
ReadLine(include_newline) ==
  /\ call' = <<"line", include_newline>>
  /\ \/ \E n \in 0..(ReadableSize - 1) :
          /\ Unread(n) = Newline /\ \A i \in 0..(n - 1) : Unread(i) # Newline
          /\ Advance(n + 1, n)
     \/ /\ \A i \in 0..(ReadableSize - 1) : Unread(i) # Newline
        /\ LET n == IF include_newline THEN ReadableSize ELSE 0 IN Advance(n, n)

Clear ==
  /\ call' = <<"clear", 0>>
  /\ readIndex' = 0 /\ writeIndex' = 0
  /\ answer' = <<>> /\ ok' = TRUE
  /\ UNCHANGED <<cells, size>>

BufferNext ==
  \/ \E d \in Seq(Bytes) : Write(d) \/ WriteFails(d)
  \/ \E n \in Nat : Read(n) \/ MoveReadIndex(n)
  \/ \E all \in BOOLEAN : ReadLine(all)
  \/ Clear

BufferSpec == BufferInit /\ [][BufferNext]_bufferVars

-----------------------------------------------------------------------------
(* Type invariant. *)
BufferTypeOK ==
  /\ size \in Nat \ {0, 1}
  /\ cells \in [0..(size - 1) -> Bytes]
  /\ readIndex \in 0..(size - 1) /\ writeIndex \in 0..(size - 1)
  /\ answer \in Seq(Bytes) /\ ok \in BOOLEAN

(* Whatever the order of writes and reads, wrapped round the end or not,    *)
(* with and without growth, the buffer is a queue: no byte is lost,         *)
(* repeated or moved, and what cannot be served changes nothing.            *)
Queue == INSTANCE ByteQueue WITH bytes <- Content
ImplementsByteQueue == Queue!Spec
=============================================================================
