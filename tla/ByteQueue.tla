------------------------------ MODULE ByteQueue ------------------------------
(***************************************************************************)
(* What Buffer promises (buffer.h): a queue of bytes.  A call is a pair of *)
(* its name and its argument: the bytes to write, how many to read or to   *)
(* skip, whether a last line without an end is one.  A call that cannot be *)
(* served changes nothing; only a write may fail for another reason.       *)
(***************************************************************************)
EXTENDS Naturals, Sequences

CONSTANT Newline

VARIABLES bytes,   \* what was written and not read
          call,    \* the last call
          answer,  \* the bytes it returned
          ok       \* whether it was served

queueVars == <<bytes, call, answer, ok>>

Init == bytes = <<>> /\ call = <<"clear", 0>> /\ answer = <<>> /\ ok = TRUE

Fail == answer' = <<>> /\ ok' = FALSE /\ UNCHANGED bytes

(* The first n bytes leave the queue and the first k are returned. *)
Take(n, k) == /\ answer' = SubSeq(bytes, 1, k)
              /\ bytes' = SubSeq(bytes, n + 1, Len(bytes))
              /\ ok' = TRUE

Write(d) == \/ bytes' = bytes \o d /\ answer' = <<>> /\ ok' = TRUE
            \/ Fail

Read(n) == (n <= Len(bytes) /\ Take(n, n)) \/ (n > Len(bytes) /\ Fail)

Skip(n) == (n <= Len(bytes) /\ Take(n, 0)) \/ (n > Len(bytes) /\ Fail)

ReadLine(all) ==
  \/ \E n \in 1..Len(bytes) : /\ bytes[n] = Newline
                              /\ \A i \in 1..(n - 1) : bytes[i] # Newline
                              /\ Take(n, n - 1)
  \/ /\ \A i \in 1..Len(bytes) : bytes[i] # Newline
     /\ IF all THEN Take(Len(bytes), Len(bytes)) ELSE Take(0, 0)

Clear == bytes' = <<>> /\ answer' = <<>> /\ ok' = TRUE

Next == \/ call'[1] = "write" /\ Write(call'[2])
        \/ call'[1] = "read" /\ Read(call'[2])
        \/ call'[1] = "skip" /\ Skip(call'[2])
        \/ call'[1] = "line" /\ ReadLine(call'[2])
        \/ call'[1] = "clear" /\ Clear

Spec == Init /\ [][Next]_queueVars
=============================================================================
