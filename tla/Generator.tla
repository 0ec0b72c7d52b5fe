------------------------------ MODULE Generator ------------------------------
(***************************************************************************)
(* The two generators of library/include/p5/lambda/utils/generator+inl.hxx *)
(* over equal sources: a function that is called again and again until it  *)
(* returns a null pointer, and a coroutine that yields until it returns.   *)
(* Either source may end by an exception instead.                          *)
(*                                                                         *)
(* A client takes iterators with begin and advances them while they are    *)
(* not at the end.  It may leave a loop half-way and begin another one,    *)
(* and copies of an iterator share what they point to.  Use of an iterator *)
(* that is at the end, or whose generator was moved, is left out.          *)
(*                                                                         *)
(* A definition marked as a slip is a plausible mistake in the definition  *)
(* after it.  No action uses it: it replaces that definition when the      *)
(* properties are tested for being able to fail.                           *)
(***************************************************************************)
EXTENDS Naturals

CONSTANT MaxLength      \* bound on the length of the sequence

ASSUME LengthAssumption == MaxLength \in Nat

VARIABLES
    length,     \* how many values each source gives
    fails,      \* the sources end by an exception
    calls,      \* how often the function was called
    state,      \* function::machine: state_
    passed,     \* history: how often its iterators were advanced
    resumed,    \* how often the coroutine was resumed
    payload,    \* coroutine::promise: payload_
    done,       \* the coroutine is at its final suspension
    stepped     \* history: how often its iterators were advanced

source == <<length, fails>>
machine == <<calls, state, passed>>
coroutine == <<resumed, payload, done, stepped>>
vars == <<source, machine, coroutine>>

(* The alternatives of the two variants: a pointer to the k-th value is k,  *)
(* and the other numbers are the null pointer, an exception and no state.   *)
Values == 1..MaxLength
Null == 0
Exception == MaxLength + 1
Unread == MaxLength + 2

\* What a source comes up with when it is asked for the n-th time.
Produced(n) ==
    IF n <= length THEN n ELSE IF fails THEN Exception ELSE Null

Init ==
    /\ length \in 0..MaxLength
    /\ fails \in BOOLEAN
    /\ calls = 0
    /\ state = Unread
    /\ passed = 0
    /\ resumed = 0
    /\ payload = Unread
    /\ done = FALSE
    /\ stepped = 0

----------------------------------------------------------------------------
(* The function and its machine.                                            *)

CallFunction ==
    /\ calls' = calls + 1
    /\ state' = Produced(calls + 1)

\* operator bool: the first test asks the function, the others do not.
MachineTests ==
    IF state = Unread THEN CallFunction ELSE UNCHANGED <<calls, state>>

\* begin, and operator == of an iterator; both ask the machine.
MachineBegins ==
    /\ MachineTests
    /\ UNCHANGED <<passed, source, coroutine>>

\* operator ++, by way of operator () of the machine: the client has seen the
\* value that is there.
MachineAdvances ==
    /\ state \in Values
    /\ CallFunction
    /\ passed' = passed + 1
    /\ UNCHANGED <<source, coroutine>>

\* operator == of an iterator that begin has returned.
MachineAtEnd == state \notin Values

----------------------------------------------------------------------------
(* The coroutine.                                                           *)

\* It runs to its next yield, or to its end.  What it yielded last stays in the
\* promise when it returns.
Resume ==
    /\ resumed' = resumed + 1
    /\ done' = (Produced(resumed + 1) \notin Values)
    /\ payload' =
         IF Produced(resumed + 1) # Null THEN Produced(resumed + 1)
         ELSE IF payload = Unread THEN Null ELSE payload

\* Slip: an iterator always starts with the next value.
IteratorStartsAnew ==
    /\ ~done
    /\ Resume
    /\ UNCHANGED <<stepped, source, machine>>

\* The constructor of an iterator: only the first one resumes the coroutine.
IteratorStarts ==
    /\ ~done
    /\ payload = Unread
    /\ Resume
    /\ UNCHANGED <<stepped, source, machine>>

\* operator ==: a coroutine that is done is at the end, also one that failed.
CoroutineAtEnd == done \/ payload \notin Values \cup {Exception}

\* operator ++.
IteratorAdvances ==
    /\ ~CoroutineAtEnd
    /\ payload \in Values
    /\ Resume
    /\ stepped' = stepped + 1
    /\ UNCHANGED <<source, machine>>

Next ==
    \/ MachineBegins \/ MachineAdvances
    \/ IteratorStarts \/ IteratorAdvances

Spec == Init /\ [][Next]_vars

----------------------------------------------------------------------------
(* Properties.                                                              *)

\* What operator * finds: the value, or the exception at the end.
MachineShows == IF MachineAtEnd /\ state # Exception THEN Null ELSE state
CoroutineShows == IF CoroutineAtEnd /\ payload # Exception THEN Null ELSE payload

\* However often a client begins and stops, it sees each value of the sequence
\* once per step, none skipped and none twice; the iterators are at the end when
\* the source is, which is not asked again; and an exception of the source ends
\* the sequence and is kept for whoever looks.  That goes for both generators.
SameSequence ==
    /\ state # Unread =>
         /\ MachineShows = Produced(passed + 1)
         /\ MachineAtEnd <=> passed = length
         /\ calls = passed + 1
    /\ payload # Unread =>
         /\ CoroutineShows = Produced(stepped + 1)
         /\ CoroutineAtEnd <=> stepped = length
         /\ resumed = stepped + 1
=============================================================================
