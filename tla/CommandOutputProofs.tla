--------------------------- MODULE CommandOutputProofs ---------------------------
(* What the three methods hand on, for pipes and buffers of any size and for  *)
(* any output.                                                                *)
EXTENDS CommandOutput, TLAPS

\* No byte is lost or repeated on its way through pipe and buffer.
Conserved ==
    /\ out.size = out.left + out.pipe + out.got
    /\ err.size = err.left + err.pipe + err.got
    /\ child = "ended" => out.left = 0 /\ err.left = 0

\* "copy" has handed on what is not in its buffer any more; the others hand on nothing
\* before they end.
Handing ==
    /\ method = "copy" => out.got = handed.out + position /\ handed.err = 0
    /\ method # "copy" /\ ~Ended => handed = [out |-> 0, err |-> 0]

\* What a method has drained by the time it is at each of its steps.
Stages ==
    /\ pc = "readErr" => method # "copy" /\ child = "ended" /\ out.pipe = 0
    /\ pc = "readErr" /\ method = "executeTo" => failing
    /\ pc = "waitFor" /\ method # "executeTo" =>
          method = "execute" /\ child = "ended" /\ out.pipe = 0 /\ err.pipe = 0

\* What a method leaves in a pipe until the child has ended has room there.
Undrained ==
    /\ method = "copy" => err.got = 0
    /\ method = "execute" /\ pc = "readOut" => err.got = 0
    /\ method = "executeTo" /\ pc = "waitFor" => out.got = 0 /\ err.got = 0
    /\ method = "execute" /\ pc \in {"readErr", "waitFor"} => Fits
    /\ method = "executeTo" /\ pc \in {"readOut", "readErr"} => Fits
    /\ EndsOnlyIfFits

\* The buffer: full to its limit or emptied, and used by "copy" only.
Buffer ==
    /\ pc \notin {"write", "broken"} => position = 0
    /\ pc = "write" => method = "copy" /\ position >= 1
    /\ limit >= 1 /\ position <= limit

Inv == TypeOK /\ Conserved /\ Handing /\ Stages /\ Undrained /\ Buffer /\ Complete

\* Nothing has been written, and the buffer has its full capacity.
LEMMA InvInit == Init => Inv
BY OutputAssumption
DEF Init, Inv, TypeOK, Streams, Fresh, FirstStep, Conserved, Handing, Stages, Undrained, Buffer,
    Complete, EndsOnlyIfFits,
   Fits, Ended, Over, Promised

\* The child moves bytes into its pipes, and ends when it has written them all.
LEMMA ChildStep == Inv /\ Child => Inv'
<1> SUFFICES ASSUME Inv, Child PROVE Inv'
  OBVIOUS
<1> USE OutputAssumption DEF Inv, TypeOK, Streams, Conserved, Handing, Stages, Undrained, Buffer,
        Complete, EndsOnlyIfFits, Fits, Ended, Over, Promised
<1>1. CASE WriteOut
  <2>1. out' = [size |-> out.size, left |-> out.left - 1, pipe |-> out.pipe + 1, got |-> out.got]
    BY <1>1 DEF WriteOut, Written
  <2>2. out.left - 1 \in 0..MaxOut /\ out.pipe + 1 \in 0..PipeCapacity
    BY <1>1 DEF WriteOut
  <2>3. child = "running"
    BY <1>1 DEF WriteOut
  <2> QED
    BY <1>1, <2>1, <2>2, <2>3 DEF WriteOut
<1>2. CASE WriteErr
  <2>1. err' = [size |-> err.size, left |-> err.left - 1, pipe |-> err.pipe + 1, got |-> err.got]
    BY <1>2 DEF WriteErr, Written
  <2>2. err.left - 1 \in 0..MaxErr /\ err.pipe + 1 \in 0..PipeCapacity
    BY <1>2 DEF WriteErr
  <2>3. child = "running"
    BY <1>2 DEF WriteErr
  <2> QED
    BY <1>2, <2>1, <2>2, <2>3 DEF WriteErr
<1>3. CASE Exit
  BY <1>3 DEF Exit
<1> QED
  BY <1>1, <1>2, <1>3 DEF Child

\* The collecting methods leave a stream only at its end, and what they then give to the
\* caller is all that was in it.
LEMMA CollectStep == Inv /\ (ReadOut \/ ReadErr \/ WaitFor \/ Answer) => Inv'
<1> SUFFICES ASSUME Inv, ReadOut \/ ReadErr \/ WaitFor \/ Answer PROVE Inv'
  OBVIOUS
<1> USE OutputAssumption DEF Inv, TypeOK, Streams, Conserved, Handing, Stages, Undrained, Buffer,
        Complete, EndsOnlyIfFits, Fits, Ended, Over, Promised
<1>1. CASE ReadOut
  <2>1. CASE \E n \in 1..out.pipe : out' = Drained(out, n) /\ UNCHANGED <<pc, handed>>
    <3>1. PICK n \in 1..out.pipe : out' = Drained(out, n)
      BY <2>1
    <3>2. out' = [size |-> out.size, left |-> out.left, pipe |-> out.pipe - n, got |-> out.got + n]
      BY <3>1 DEF Drained
    <3>3. out.pipe - n \in 0..PipeCapacity /\ out.got + n \in 0..MaxOut
      OBVIOUS
    <3> QED
      BY <1>1, <2>1, <3>2, <3>3 DEF ReadOut
  <2>2. CASE AtEnd(out) /\ (method = "execute" \/ failing) /\ pc' = "readErr" /\ UNCHANGED <<out, handed>>
    BY <1>1, <2>2 DEF ReadOut, AtEnd
  <2>3. CASE /\ AtEnd(out) /\ method = "executeTo" /\ ~failing /\ pc' = "done" /\ UNCHANGED out
             /\ handed' = [handed EXCEPT !.out = out.got]
    <3>1. handed' = [out |-> out.got, err |-> 0]
      BY <1>1, <2>3 DEF ReadOut
    <3> QED
      BY <1>1, <2>3, <3>1 DEF ReadOut, AtEnd
  <2> QED
    BY <1>1, <2>1, <2>2, <2>3 DEF ReadOut
<1>2. CASE ReadErr
  <2>1. CASE \E n \in 1..err.pipe : err' = Drained(err, n) /\ UNCHANGED <<pc, handed>>
    <3>1. PICK n \in 1..err.pipe : err' = Drained(err, n)
      BY <2>1
    <3>2. err' = [size |-> err.size, left |-> err.left, pipe |-> err.pipe - n, got |-> err.got + n]
      BY <3>1 DEF Drained
    <3>3. err.pipe - n \in 0..PipeCapacity /\ err.got + n \in 0..MaxErr
      OBVIOUS
    <3>4. pc = "readErr" /\ UNCHANGED <<method, failing, out, handed, child, pc, position, limit>>
      BY <1>2, <2>1 DEF ReadErr
    <3>5. TypeOK' /\ Conserved'
      BY <3>2, <3>3, <3>4
    <3>6. Handing' /\ Stages' /\ Undrained' /\ Buffer' /\ Complete'
      BY <3>2, <3>3, <3>4
    <3> QED
      BY <3>5, <3>6
  <2>2. CASE AtEnd(err) /\ method = "execute" /\ pc' = "waitFor" /\ UNCHANGED <<err, handed>>
    BY <1>2, <2>2 DEF ReadErr, AtEnd
  <2>3. CASE /\ AtEnd(err) /\ method = "executeTo" /\ pc' = "done" /\ UNCHANGED err
             /\ handed' = [out |-> out.got, err |-> err.got]
    BY <1>2, <2>3 DEF ReadErr, AtEnd
  <2> QED
    BY <1>2, <2>1, <2>2, <2>3 DEF ReadErr
<1>3. CASE WaitFor
  BY <1>3 DEF WaitFor
<1>4. CASE Answer
  <2>1. out.got = out.size /\ err.got = err.size /\ handed = [out |-> 0, err |-> 0]
    BY <1>4 DEF Answer
  <2>2. CASE ~failing /\ handed' = [handed EXCEPT !.out = out.got] /\ pc' = "done"
    <3>1. handed' = [out |-> out.size, err |-> 0]
      BY <2>1, <2>2
    <3> QED
      BY <1>4, <2>2, <3>1 DEF Answer
  <2>3. CASE failing /\ handed' = [handed EXCEPT !.err = err.got] /\ pc' \in {"done", "threw"}
    <3>1. handed' = [out |-> 0, err |-> err.size]
      BY <2>1, <2>3
    <3> QED
      BY <1>4, <2>3, <3>1 DEF Answer
  <2> QED
    BY <1>4, <2>2, <2>3 DEF Answer
<1> QED
  BY <1>1, <1>2, <1>3, <1>4

\* Every read of the copy loop leaves at least one byte to write, so that every write
\* leaves a limit of at least one byte.
LEMMA CopyStep == Inv /\ (ReadBuffer \/ WriteBuffer \/ EndOfStream) => Inv'
<1> SUFFICES ASSUME Inv, ReadBuffer \/ WriteBuffer \/ EndOfStream PROVE Inv'
  OBVIOUS
<1> USE OutputAssumption DEF Inv, TypeOK, Streams, Conserved, Handing, Stages, Undrained, Buffer,
        Complete, EndsOnlyIfFits, Fits, Ended, Over, Promised
<1>1. CASE ReadBuffer
  <2>1. PICK n \in 0..Room :
           /\ n <= out.pipe
           /\ n = 0 <=> Room = 0
           /\ out' = Drained(out, n)
           /\ position' = position + n
    BY <1>1 DEF ReadBuffer
  <2>2. position = 0 /\ n \in Nat /\ n >= 1 /\ n <= limit
    BY <1>1, <2>1 DEF ReadBuffer, Room
  <2>3. out' = [size |-> out.size, left |-> out.left, pipe |-> out.pipe - n, got |-> out.got + n]
    BY <2>1 DEF Drained
  <2>4. out.pipe - n \in 0..PipeCapacity /\ out.got + n \in 0..MaxOut
    BY <2>1, <2>2
  <2> QED
    BY <1>1, <2>1, <2>2, <2>3, <2>4 DEF ReadBuffer
<1>2. CASE WriteBuffer
  <2>1. handed' = [out |-> handed.out + position, err |-> handed.err]
    BY <1>2 DEF WriteBuffer
  <2> QED
    BY <1>2, <2>1 DEF WriteBuffer
<1>3. CASE EndOfStream
  BY <1>3 DEF EndOfStream, AtEnd
<1> QED
  BY <1>1, <1>2, <1>3

\* A method that is broken off has given nothing more.
LEMMA BreakStep == Inv /\ BreakOff => Inv'
BY DEF Inv, TypeOK, Conserved, Handing, Stages, Undrained, Buffer, Complete, EndsOnlyIfFits, Fits,
   Ended, Over, Promised, BreakOff

\* Every step keeps the invariant.
LEMMA InvStep == Inv /\ [Next]_vars => Inv'
<1>1. Inv /\ UNCHANGED vars => Inv'
  BY DEF Inv, TypeOK, Conserved, Handing, Stages, Undrained, Buffer, Complete, EndsOnlyIfFits,
   Fits, Ended, Over, Promised, vars
<1> QED
  BY <1>1, ChildStep, CollectStep, CopyStep, BreakStep DEF Next, Parent

\* The invariant holds in every state.
LEMMA Invariance == Spec => []Inv
BY InvInit, InvStep, PTL DEF Spec

\* For every size of pipe and buffer and every output, a method that comes to its end
\* has given its caller what it promises: each byte once, and nothing else.
THEOREM CompleteAlways == Spec => []Complete
<1>1. Inv => Complete
  BY DEF Inv
<1> QED
  BY <1>1, Invariance, PTL

\* For every size of pipe and buffer, no method comes to its end on an output of which
\* the undrained part does not fit its pipe.
THEOREM EndsOnlyIfFitsAlways == Spec => []EndsOnlyIfFits
<1>1. Inv => EndsOnlyIfFits
  BY DEF Inv, Undrained
<1> QED
  BY <1>1, Invariance, PTL

\* For every size of buffer and every split into reads, the copy loop can read on.
THEOREM RoomToReadAlways == Spec => []RoomToRead
<1>1. Inv => RoomToRead
  BY OutputAssumption DEF Inv, TypeOK, Buffer, RoomToRead, Room
<1> QED
  BY <1>1, Invariance, PTL

\* The variables have the values that the module says.
THEOREM TypeCorrect == Spec => []TypeOK
<1>1. Inv => TypeOK
  BY DEF Inv
<1> QED
  BY <1>1, Invariance, PTL

-----------------------------------------------------------------------------
(* Nobody waits for ever.                                                  *)

\* A pipe has room for what the child has still to write to it, when all that the
\* child writes fits.
LEMMA PipeHasRoom ==
    ASSUME Inv
    PROVE  /\ out.size <= PipeCapacity /\ out.left > 0 => out.pipe < PipeCapacity
           /\ err.size <= PipeCapacity /\ err.left > 0 => err.pipe < PipeCapacity
BY OutputAssumption DEF Inv, TypeOK, Streams, Conserved, Buffer

\* Whatever the method waits for, it or the child can go on.
LEMMA SomebodyGoesOn == Inv => NeverBothWait
<1> SUFFICES ASSUME Inv, Fits, pc \notin {"done", "threw", "broken"}
             PROVE  ChildCanGoOn \/ ParentCanGoOn
  BY DEF NeverBothWait, Over, Ended
<1> USE OutputAssumption DEF Inv, TypeOK, Streams
<1>1. CASE child = "running"
  <2>1. err.left > 0 => ChildCanGoOn
    BY PipeHasRoom DEF Fits, ChildCanGoOn
  <2>2. out.left = 0 /\ err.left = 0 => ChildCanGoOn
    BY <1>1 DEF ChildCanGoOn
  <2>3. CASE out.left > 0
    <3>1. CASE method = "executeTo"
      BY <2>3, <3>1, PipeHasRoom DEF Fits, ChildCanGoOn
    <3>2. CASE method # "executeTo"
      <4>1. pc \in {"readOut", "write"}
        BY <1>1, <3>2 DEF Stages
      <4>2. out.pipe > 0 \/ out.pipe < PipeCapacity
        OBVIOUS
      <4> QED
        BY <2>3, <4>1, <4>2 DEF ChildCanGoOn, ParentCanGoOn
    <3> QED
      BY <3>1, <3>2
  <2> QED
    BY <2>1, <2>2, <2>3
<1>2. CASE child = "ended"
  BY <1>2 DEF ParentCanGoOn, AtEnd
<1> QED
  BY <1>1, <1>2

\* For pipes and buffers of any size, and any output that fits the pipe that is drained
\* last, skaha and the command never wait for each other.
THEOREM NeverBothWaitAlways == Spec => []NeverBothWait
BY Invariance, SomebodyGoesOn, PTL

\* The work left is a number.
LEMMA WorkNat == Inv => Work \in Nat /\ StepsLeft \in Nat
<1> SUFFICES ASSUME Inv PROVE Work \in Nat /\ StepsLeft \in Nat
  OBVIOUS
<1>1. StepsLeft \in Nat
  BY DEF Inv, TypeOK, StepsLeft, Over, Ended
<1>2. /\ out.left \in Nat /\ err.left \in Nat /\ out.pipe \in Nat /\ err.pipe \in Nat
      /\ position \in Nat
  BY OutputAssumption DEF Inv, TypeOK, Streams
<1> QED
  BY <1>1, <1>2 DEF Work

\* Writing moves a byte from where it weighs four to where it weighs three.
LEMMA ChildDoesSome == Inv /\ Child => Work' < Work
<1> SUFFICES ASSUME Inv, Child PROVE Work' < Work
  OBVIOUS
<1>0. /\ out.left \in Nat /\ err.left \in Nat /\ out.pipe \in Nat /\ err.pipe \in Nat
      /\ position \in Nat /\ StepsLeft \in Nat
  BY OutputAssumption, WorkNat DEF Inv, TypeOK, Streams
<1>1. CASE WriteOut
  <2>1. out'.left = out.left - 1 /\ out'.pipe = out.pipe + 1
    BY <1>1 DEF WriteOut, Written, Inv, TypeOK, Streams
  <2>2. UNCHANGED <<err, child, position, StepsLeft>>
    BY <1>1 DEF WriteOut, StepsLeft, Over, Ended
  <2> QED
    BY <1>0, <2>1, <2>2 DEF Work
<1>2. CASE WriteErr
  <2>1. err'.left = err.left - 1 /\ err'.pipe = err.pipe + 1
    BY <1>2 DEF WriteErr, Written, Inv, TypeOK, Streams
  <2>2. UNCHANGED <<out, child, position, StepsLeft>>
    BY <1>2 DEF WriteErr, StepsLeft, Over, Ended
  <2> QED
    BY <1>0, <2>1, <2>2 DEF Work
<1>3. CASE Exit
  <2>1. child = "running" /\ child' = "ended" /\ UNCHANGED <<out, err, position, StepsLeft>>
    BY <1>3 DEF Exit, StepsLeft, Over, Ended
  <2> QED
    BY <1>0, <2>1 DEF Work
<1> QED
  BY <1>1, <1>2, <1>3 DEF Child

\* A read takes bytes out of a pipe, and the end of a stream ends a step of the method.
LEMMA CollectDoesSome == Inv /\ (ReadOut \/ ReadErr \/ WaitFor \/ Answer) => Work' < Work
<1> SUFFICES ASSUME Inv, ReadOut \/ ReadErr \/ WaitFor \/ Answer PROVE Work' < Work
  OBVIOUS
<1>0. /\ out.left \in Nat /\ err.left \in Nat /\ out.pipe \in Nat /\ err.pipe \in Nat
      /\ position \in Nat /\ StepsLeft \in Nat
  BY OutputAssumption, WorkNat DEF Inv, TypeOK, Streams
<1>1. ASSUME NEW n \in 1..out.pipe, out' = Drained(out, n),
             UNCHANGED <<method, pc, err, child, position>>
      PROVE  Work' < Work
  <2>1. out'.left = out.left /\ out'.pipe = out.pipe - n
    BY <1>1 DEF Drained, Inv, TypeOK, Streams
  <2>2. StepsLeft' = StepsLeft
    BY <1>1 DEF StepsLeft, Over, Ended
  <2> QED
    BY <1>0, <1>1, <2>1, <2>2 DEF Work
<1>2. ASSUME NEW n \in 1..err.pipe, err' = Drained(err, n),
             UNCHANGED <<method, pc, out, child, position>>
      PROVE  Work' < Work
  <2>1. err'.left = err.left /\ err'.pipe = err.pipe - n
    BY <1>2 DEF Drained, Inv, TypeOK, Streams
  <2>2. StepsLeft' = StepsLeft
    BY <1>2 DEF StepsLeft, Over, Ended
  <2> QED
    BY <1>0, <1>2, <2>1, <2>2 DEF Work
<1>3. ASSUME StepsLeft' \in Nat, StepsLeft' < StepsLeft, UNCHANGED <<out, err, child, position>>
      PROVE  Work' < Work
  BY <1>0, <1>3 DEF Work
<1>4. CASE ReadOut
  <2>1. CASE AtEnd(out) /\ UNCHANGED out
             /\ pc' = IF method = "execute" \/ failing THEN "readErr" ELSE "done"
    <3>1. StepsLeft' \in Nat /\ StepsLeft' < StepsLeft
      BY <1>4, <2>1 DEF ReadOut, StepsLeft, Over, Ended, Inv, TypeOK
    <3> QED
      BY <1>4, <2>1, <3>1, <1>3 DEF ReadOut
  <2> QED
    BY <1>4, <2>1, <1>1 DEF ReadOut
<1>5. CASE ReadErr
  <2>1. CASE AtEnd(err) /\ UNCHANGED err
             /\ pc' = IF method = "execute" THEN "waitFor" ELSE "done"
    <3>1. StepsLeft' \in Nat /\ StepsLeft' < StepsLeft
      BY <1>5, <2>1 DEF ReadErr, StepsLeft, Over, Ended, Inv, TypeOK
    <3> QED
      BY <1>5, <2>1, <3>1, <1>3 DEF ReadErr
  <2> QED
    BY <1>5, <2>1, <1>2 DEF ReadErr
<1>6. CASE WaitFor \/ Answer
  <2>1. StepsLeft' \in Nat /\ StepsLeft' < StepsLeft
    BY <1>6 DEF WaitFor, Answer, StepsLeft, Over, Ended, Inv, TypeOK, Stages
  <2> QED
    BY <1>6, <2>1, <1>3 DEF WaitFor, Answer
<1> QED
  BY <1>4, <1>5, <1>6

\* A method that is broken off has no steps left.
LEMMA BreakDoesSome == Inv /\ BreakOff => Work' < Work
<1> SUFFICES ASSUME Inv, BreakOff PROVE Work' < Work
  OBVIOUS
<1>1. /\ out.left \in Nat /\ err.left \in Nat /\ out.pipe \in Nat /\ err.pipe \in Nat
      /\ position \in Nat
  BY OutputAssumption DEF Inv, TypeOK, Streams
<1>2. StepsLeft \in Nat /\ StepsLeft >= 1 /\ StepsLeft' = 0
  BY DEF BreakOff, StepsLeft, Over, Ended, Inv, TypeOK
<1>3. UNCHANGED <<out, err, child, position>>
  BY DEF BreakOff
<1> QED
  BY <1>1, <1>2, <1>3 DEF Work

\* The copy loop reads at least one byte each time, which weighs more in the pipe than
\* in the buffer, even with the write that has to follow.
LEMMA CopyDoesSome == Inv /\ (ReadBuffer \/ WriteBuffer \/ EndOfStream) => Work' < Work
<1> SUFFICES ASSUME Inv, ReadBuffer \/ WriteBuffer \/ EndOfStream PROVE Work' < Work
  OBVIOUS
<1>0. /\ out.left \in Nat /\ err.left \in Nat /\ out.pipe \in Nat /\ err.pipe \in Nat
      /\ position \in Nat
  BY OutputAssumption DEF Inv, TypeOK, Streams
<1>1. CASE ReadBuffer
  <2>1. PICK n \in 0..Room :
           /\ n <= out.pipe
           /\ n = 0 <=> Room = 0
           /\ out' = Drained(out, n)
           /\ position' = position + n
    BY <1>1 DEF ReadBuffer
  <2>2. n \in Nat /\ n >= 1
    BY <1>1, <2>1, OutputAssumption DEF ReadBuffer, Room, Inv, TypeOK, Buffer
  <2>3. out'.left = out.left /\ out'.pipe = out.pipe - n /\ err' = err /\ child' = child
    BY <1>1, <2>1 DEF ReadBuffer, Drained, Inv, TypeOK, Streams
  <2>4. StepsLeft = 1 /\ StepsLeft' = 2
    BY <1>1 DEF ReadBuffer, StepsLeft, Over, Ended
  <2> QED
    BY <1>0, <2>1, <2>2, <2>3, <2>4 DEF Work
<1>2. CASE WriteBuffer
  <2>1. out'.left = out.left /\ out'.pipe = out.pipe /\ err' = err /\ child' = child
    BY <1>2 DEF WriteBuffer, Inv, TypeOK, Streams
  <2>2. position' = 0 /\ StepsLeft = 2 /\ StepsLeft' = 1
    BY <1>2 DEF WriteBuffer, StepsLeft, Over, Ended, Inv, Buffer
  <2> QED
    BY <1>0, <2>1, <2>2 DEF Work
<1>3. CASE EndOfStream
  <2>1. StepsLeft = 1 /\ StepsLeft' = 0 /\ UNCHANGED <<out, err, child, position>>
    BY <1>3 DEF EndOfStream, StepsLeft, Over, Ended
  <2> QED
    BY <1>0, <2>1 DEF Work
<1> QED
  BY <1>1, <1>2, <1>3

\* For every size of pipe, buffer and output, every step leaves less to do than there
\* was, and what is left is a number: no method runs for ever.
THEOREM WorkEnds == Spec => LessToDo /\ [](Work \in Nat)
<1>1. Inv /\ [Next]_vars => [Work' < Work]_vars
  BY ChildDoesSome, CollectDoesSome, CopyDoesSome, BreakDoesSome DEF Next, Parent
<1>2. Inv => Work \in Nat
  BY WorkNat
<1> QED
  BY <1>1, <1>2, Invariance, PTL DEF Spec, LessToDo
=============================================================================
