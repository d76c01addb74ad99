------------------------------ MODULE CommandOutput ------------------------------
(***************************************************************************)
(* How CommandExecutioner collects the output of a command.  The child     *)
(* writes to two pipes of limited capacity and stops where one is full.    *)
(* "execute" drains stdout, then stderr, then waits for the child, and     *)
(* gives its caller one of the two: stdout of a command that succeeded,    *)
(* stderr of one that failed.  "executeTo" waits for the child before it   *)
(* drains anything, and gives both.  "copy" hands stdout on to an HTTP     *)
(* response as it comes, and looks at nothing else.  Its buffer is flipped *)
(* a second time where one would clear it, which leaves the limit at the   *)
(* size of the last read.                                                  *)
(***************************************************************************)
EXTENDS Naturals

CONSTANTS
    PipeCapacity,  \* bytes a pipe holds
    BufferSize,    \* of the buffer of "copy": 512 in the code
    MaxOut,        \* bound on the bytes a command writes to stdout
    MaxErr         \* bound on the bytes it writes to stderr

ASSUME OutputAssumption ==
    /\ PipeCapacity \in Nat \ {0}
    /\ BufferSize \in Nat \ {0}
    /\ MaxOut \in Nat
    /\ MaxErr \in Nat

VARIABLES
    method,    \* which of the three runs
    failing,   \* does the command end with a status other than 0
    out, err,  \* [size, left, pipe, got]: what the child writes in all, what it has
               \*     still to write, what is in the pipe, what skaha has read
    handed,    \* [out, err]: the bytes of each that the caller has got
    child,     \* "running" or "ended"
    pc,        \* what skaha waits for or does next
    position,  \* of the buffer of "copy"
    limit      \* of that buffer

vars == <<method, failing, out, err, handed, child, pc, position, limit>>

Streams(max) == [size : 0..max, left : 0..max, pipe : 0..PipeCapacity, got : 0..max]

TypeOK ==
    /\ method \in {"execute", "executeTo", "copy"}
    /\ failing \in BOOLEAN
    /\ out \in Streams(MaxOut)
    /\ err \in Streams(MaxErr)
    /\ handed \in [out : 0..MaxOut, err : 0..MaxErr]
    /\ child \in {"running", "ended"}
    /\ pc \in {"readOut", "readErr", "waitFor", "write", "done", "threw", "broken"}
    /\ position \in 0..BufferSize
    /\ limit \in 0..BufferSize

\* The method has come to its end: it has returned, or "execute" has thrown the
\* exception that tells of the failure.
Ended == pc \in {"done", "threw"}

\* It runs no more: it has ended, or an exception came in between.
Over == Ended \/ pc = "broken"

\* Mutant of FirstStep: every method waits for the child first.
WaitFirst == "waitFor"

FirstStep == IF method = "executeTo" THEN "waitFor" ELSE "readOut"

Fresh(n) == [size |-> n, left |-> n, pipe |-> 0, got |-> 0]

Init ==
    /\ method \in {"execute", "executeTo", "copy"}
    /\ failing \in BOOLEAN
    /\ \E n \in 0..MaxOut : out = Fresh(n)
    /\ \E n \in 0..MaxErr : err = Fresh(n)
    /\ handed = [out |-> 0, err |-> 0]
    /\ child = "running"
    /\ pc = FirstStep
    /\ position = 0
    /\ limit = BufferSize

-----------------------------------------------------------------------------
(* The child.                                                              *)

Written(s) == [s EXCEPT !.left = @ - 1, !.pipe = @ + 1]

WriteOut ==
    /\ out.left > 0 /\ out.pipe < PipeCapacity
    /\ out' = Written(out)
    /\ UNCHANGED <<method, failing, err, handed, child, pc, position, limit>>

WriteErr ==
    /\ err.left > 0 /\ err.pipe < PipeCapacity
    /\ err' = Written(err)
    /\ UNCHANGED <<method, failing, out, handed, child, pc, position, limit>>

\* The child ends and closes its pipes.
Exit ==
    /\ child = "running" /\ out.left = 0 /\ err.left = 0
    /\ child' = "ended"
    /\ UNCHANGED <<method, failing, out, err, handed, pc, position, limit>>

Child == WriteOut \/ WriteErr \/ Exit

AtEnd(s) == s.pipe = 0 /\ child = "ended"

-----------------------------------------------------------------------------
(* skaha.                                                                  *)

\* Mutant of Drained: the bytes stay in the pipe.
Peeked(s, n) == [s EXCEPT !.got = @ + n]

Drained(s, n) == [s EXCEPT !.pipe = @ - n, !.got = @ + n]

\* readStream(stdout), for the methods that collect.  executeTo hands stdout on here
\* when the command succeeded.
ReadOut ==
    /\ pc = "readOut" /\ method # "copy"
    /\ \/ /\ \E n \in 1..out.pipe : out' = Drained(out, n)
          /\ UNCHANGED <<pc, handed>>
       \/ /\ AtEnd(out)
          /\ method = "execute" \/ failing
          /\ pc' = "readErr"
          /\ UNCHANGED <<out, handed>>
       \/ /\ AtEnd(out)
          /\ method = "executeTo" /\ ~failing
          /\ pc' = "done"
          /\ handed' = [handed EXCEPT !.out = out.got]
          /\ UNCHANGED out
    /\ UNCHANGED <<method, failing, err, child, position, limit>>

\* readStream(stderr).  executeTo hands both on.
ReadErr ==
    /\ pc = "readErr"
    /\ \/ /\ \E n \in 1..err.pipe : err' = Drained(err, n)
          /\ UNCHANGED <<pc, handed>>
       \/ /\ AtEnd(err)
          /\ method = "execute"
          /\ pc' = "waitFor"
          /\ UNCHANGED <<err, handed>>
       \/ /\ AtEnd(err)
          /\ method = "executeTo"
          /\ pc' = "done"
          /\ handed' = [out |-> out.got, err |-> err.got]
          /\ UNCHANGED err
    /\ UNCHANGED <<method, failing, out, child, position, limit>>

\* Mutant of WaitFor: a wait with a time limit, and nobody looks whether it ran out.
WaitBriefly ==
    /\ pc = "waitFor" /\ method = "executeTo"
    /\ pc' = "readOut"
    /\ UNCHANGED <<method, failing, out, err, handed, child, position, limit>>

\* Process.waitFor, the first step of executeTo.
WaitFor ==
    /\ pc = "waitFor" /\ method = "executeTo"
    /\ child = "ended"
    /\ pc' = "readOut"
    /\ UNCHANGED <<method, failing, out, err, handed, child, position, limit>>

\* Mutant of Answer: the exit status is not looked at.
AnswerAnyStatus ==
    /\ pc = "waitFor" /\ method = "execute"
    /\ child = "ended"
    /\ handed' = [handed EXCEPT !.out = out.got]
    /\ pc' = "done"
    /\ UNCHANGED <<method, failing, out, err, child, position, limit>>

\* Process.waitFor and what follows in execute: stdout of a command that succeeded; of
\* one that failed only stderr, which is returned where errors are allowed and is in
\* the message of an exception where they are not.
Answer ==
    /\ pc = "waitFor" /\ method = "execute"
    /\ child = "ended"
    /\ \/ /\ ~failing
          /\ handed' = [handed EXCEPT !.out = out.got]
          /\ pc' = "done"
       \/ /\ failing
          /\ handed' = [handed EXCEPT !.err = err.got]
          /\ pc' \in {"done", "threw"}
    /\ UNCHANGED <<method, failing, out, err, child, position, limit>>

Room == limit - position

\* rbc.read(buffer): waits for a byte, unless there is no room for any, and takes no
\* more than there is room for.
ReadBuffer ==
    /\ pc = "readOut" /\ method = "copy"
    /\ \E n \in 0..Room :
          /\ n <= out.pipe
          /\ n = 0 <=> Room = 0
          /\ out' = Drained(out, n)
          /\ position' = position + n
    /\ pc' = "write"
    /\ UNCHANGED <<method, failing, err, handed, child, limit>>

\* Mutant of WriteBuffer: the limit is left below what was read.
WriteShort ==
    /\ pc = "write"
    /\ handed' = [handed EXCEPT !.out = @ + position]
    /\ limit' = position - 1
    /\ position' = 0
    /\ pc' = "readOut"
    /\ UNCHANGED <<method, failing, out, err, child>>

\* flip (limit = position, position = 0), write up to the limit, flip again.
WriteBuffer ==
    /\ pc = "write"
    /\ handed' = [handed EXCEPT !.out = @ + position]
    /\ limit' = position
    /\ position' = 0
    /\ pc' = "readOut"
    /\ UNCHANGED <<method, failing, out, err, child>>

\* The read returns -1; without room it would return 0 for ever.
EndOfStream ==
    /\ pc = "readOut" /\ method = "copy"
    /\ AtEnd(out) /\ Room > 0
    /\ pc' = "done"
    /\ UNCHANGED <<method, failing, out, err, handed, child, position, limit>>

\* An exception ends the method on its way: the thread is interrupted, a stream cannot
\* be read, the client of "copy" has gone.  The child is left alone.
BreakOff ==
    /\ ~Over
    /\ pc' = "broken"
    /\ UNCHANGED <<method, failing, out, err, handed, child, position, limit>>

Parent == ReadOut \/ ReadErr \/ WaitFor \/ Answer \/ ReadBuffer \/ WriteBuffer \/ EndOfStream

Next == Child \/ Parent \/ BreakOff

Spec == Init /\ [][Next]_vars

\* The operating system lets the child and skaha run on.
FairSpec == Spec /\ WF_vars(Child) /\ WF_vars(Parent)

-----------------------------------------------------------------------------

\* What a method gives to its caller: stdout, except that execute drops that of a
\* command that failed; and stderr when the command failed, except that "copy" never
\* looks at it.
Promised ==
    [out |-> IF method = "execute" /\ failing THEN 0 ELSE out.size,
     err |-> IF method # "copy" /\ failing THEN err.size ELSE 0]

\* A method that comes to its end has given its caller that, each byte once and nothing
\* else, whatever the order in which the pipes were filled and drained: the output that
\* skaha parses is never cut short, and never mixed with that of the other stream.
Complete == Ended => handed = Promised

\* The buffer of "copy" shrinks to the smallest read there was, and keeps room for a
\* byte all the same: a read without room would return 0 for ever.
RoomToRead == method = "copy" /\ pc = "readOut" => Room >= 1

\* The output that a method can take: it drains stdout first and stderr after the child
\* has ended, or never, and executeTo drains neither before.
Fits == err.size <= PipeCapacity /\ (method = "executeTo" => out.size <= PipeCapacity)

\* What the child, and skaha, need to take a step.
ChildCanGoOn ==
    \/ out.left > 0 /\ out.pipe < PipeCapacity
    \/ err.left > 0 /\ err.pipe < PipeCapacity
    \/ child = "running" /\ out.left = 0 /\ err.left = 0
ParentCanGoOn ==
    \/ pc = "readOut" /\ (out.pipe > 0 \/ AtEnd(out))
    \/ pc = "readErr" /\ (err.pipe > 0 \/ AtEnd(err))
    \/ pc = "waitFor" /\ child = "ended"
    \/ pc = "write"

\* skaha and the command never wait for each other when the output fits: skaha drains
\* one pipe at a time, or none, while the child may be stopped by the other one.
NeverBothWait == Fits /\ ~Over => ChildCanGoOn \/ ParentCanGoOn

\* And with one byte more they always do: no method comes to its end on an output that
\* does not fit, however the reads and writes interleave, whether the command succeeds
\* or not.  Nothing ends the wait, as no caller sets a time limit.
EndsOnlyIfFits == Ended => Fits

\* What is still to be done: a byte is written, read and, by "copy", handed on; the
\* child ends; and skaha goes through the steps of its method.
StepsLeft ==
    CASE Over -> 0
      [] pc = "write" -> 2
      [] pc = "readOut" -> IF method = "copy" THEN 1 ELSE IF method = "execute" THEN 3 ELSE 2
      [] pc = "readErr" -> IF method = "execute" THEN 2 ELSE 1
      [] pc = "waitFor" -> IF method = "execute" THEN 1 ELSE 3
Work == 4 * (out.left + err.left) + 3 * (out.pipe + err.pipe) + position
        + (IF child = "running" THEN 1 ELSE 0) + StepsLeft

\* Neither of them goes round in circles: every step leaves less to do.  This hangs on
\* the room in the buffer of "copy", as a read without room does nothing.
LessToDo == [][Work' < Work]_vars

\* A method whose output fits comes to an end: this is what the last ones come to when
\* child and skaha are scheduled.
Returns == Fits ~> Over
=============================================================================
