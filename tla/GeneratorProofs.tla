--------------------------- MODULE GeneratorProofs ---------------------------
(***************************************************************************)
(* Proof that both generators show the sequence of their source, for       *)
(* sequences of every length.  The coroutine's promise keeps the last      *)
(* value when the coroutine returns: the invariant says which one that is, *)
(* and that the coroutine is done exactly then.                            *)
(***************************************************************************)
EXTENDS Generator, TLAPS

SourceTypes == length \in 0..MaxLength /\ fails \in BOOLEAN

\* The function is one call ahead of the steps of its iterators.
MachineInv ==
    /\ passed \in 0..length
    /\ IF state = Unread
       THEN calls = 0 /\ passed = 0
       ELSE calls = passed + 1 /\ state = Produced(calls)

\* The coroutine is one resumption ahead, and what it yielded last is in the
\* promise; after the first resumption that is at least a null pointer.
CoroutineInv ==
    /\ stepped \in 0..length
    /\ IF payload = Unread
       THEN resumed = 0 /\ stepped = 0 /\ ~done
       ELSE /\ resumed = stepped + 1
            /\ done <=> stepped = length
            /\ payload = IF Produced(resumed) # Null THEN Produced(resumed) ELSE stepped

GInv == SourceTypes /\ MachineInv /\ CoroutineInv

LEMMA Alternatives ==
    ASSUME SourceTypes, NEW n \in Nat
    PROVE  /\ n + 1 <= length => Produced(n + 1) = n + 1 /\ n + 1 \in Values
           /\ n + 1 > length => Produced(n + 1) \in {Null, Exception}
           /\ Produced(n + 1) = Exception <=> (n + 1 > length /\ fails)
           /\ Null \notin Values /\ Exception \notin Values /\ Unread \notin Values
           /\ Produced(n + 1) # Unread /\ Null # Exception /\ Null # Unread
  BY LengthAssumption DEF SourceTypes, Produced, Null, Exception, Unread, Values

LEMMA GInitInv == Init => GInv
  BY LengthAssumption
  DEF Init, GInv, SourceTypes, MachineInv, CoroutineInv, Unread

LEMMA MachineKeepsInv == GInv /\ (MachineBegins \/ MachineAdvances) => MachineInv'
<1> SUFFICES ASSUME GInv, MachineBegins \/ MachineAdvances PROVE MachineInv'
  OBVIOUS
<1> USE LengthAssumption DEF GInv, SourceTypes, MachineInv
<1>1. UNCHANGED source
  BY DEF MachineBegins, MachineAdvances
<1>2. CASE MachineBegins
  BY <1>1, <1>2
  DEF MachineBegins, MachineTests, CallFunction, source, Produced, Null, Exception, Unread
<1>3. CASE MachineAdvances
  BY <1>1, <1>3
  DEF MachineAdvances, CallFunction, source, Produced, Null, Exception, Unread, Values
<1> QED
  BY <1>2, <1>3

\* A resumption keeps the invariant if the coroutine had yielded as often as its
\* iterators say.
LEMMA ResumeKeepsInv ==
    ASSUME GInv, Resume, UNCHANGED source, stepped' = resumed, resumed \in Nat,
           resumed <= length, payload = Unread => resumed = 0,
           payload # Unread => payload = resumed
    PROVE  CoroutineInv'
<1> DEFINE P == Produced(resumed + 1)
<1>1. length \in Nat
  BY LengthAssumption DEF GInv, SourceTypes
<1>2. P # Unread /\ (P \notin Values <=> resumed = length)
      /\ Null # Unread /\ (resumed # Unread)
  BY <1>1, LengthAssumption
  DEF GInv, SourceTypes, Produced, Null, Exception, Unread, Values
<1>3. stepped' \in 0..length' /\ resumed' = stepped' + 1 /\ length' = length
  BY <1>1 DEF Resume, source
<1>4. Produced(resumed)' = P
  BY DEF Resume, source, Produced, Null, Exception
<1>5. done' = (P \notin Values)
  BY DEF Resume
<1>6. payload' = IF P # Null THEN P ELSE resumed
  BY DEF Resume, Null
<1>7. Unread' = Unread /\ Null' = Null /\ payload' # Unread
  BY <1>2, <1>6 DEF Unread, Null
<1>8. done' <=> stepped' = length'
  BY <1>2, <1>3, <1>5
<1>9. payload' = IF Produced(resumed)' # Null' THEN Produced(resumed)' ELSE stepped'
  BY <1>4, <1>6, <1>7
<1> HIDE DEF P
<1> QED
  BY <1>3, <1>7, <1>8, <1>9 DEF CoroutineInv

LEMMA CoroutineKeepsInv == GInv /\ (IteratorStarts \/ IteratorAdvances) => CoroutineInv'
<1> SUFFICES ASSUME GInv, IteratorStarts \/ IteratorAdvances PROVE CoroutineInv'
  OBVIOUS
<1>1. Resume /\ UNCHANGED source
  BY DEF IteratorStarts, IteratorAdvances
<1>2. CASE IteratorStarts
  <2>1. payload = Unread /\ resumed = 0 /\ stepped = 0 /\ stepped' = stepped /\ 0 <= length
    BY <1>2, LengthAssumption DEF IteratorStarts, GInv, CoroutineInv, SourceTypes
  <2> QED
    BY <1>1, <2>1, ResumeKeepsInv
<1>3. CASE IteratorAdvances
  <2>1. ~done /\ payload \in Values /\ payload # Unread /\ stepped' = stepped + 1
    BY <1>3, LengthAssumption DEF IteratorAdvances, CoroutineAtEnd, Unread, Values
  <2>2. stepped \in 0..length /\ resumed = stepped + 1 /\ (done <=> stepped = length)
        /\ payload = IF Produced(resumed) # Null THEN Produced(resumed) ELSE stepped
    BY <2>1 DEF GInv, CoroutineInv
  <2>3. length \in Nat /\ resumed \in Nat /\ resumed <= length
    BY <2>1, <2>2, LengthAssumption DEF GInv, SourceTypes
  <2>4. payload = resumed
    BY <2>2, <2>3 DEF Produced, Null
  <2> QED
    BY <1>1, <2>1, <2>2, <2>3, <2>4, ResumeKeepsInv
<1> QED
  BY <1>2, <1>3

LEMMA GNextInv == GInv /\ [Next]_vars => GInv'
<1> SUFFICES ASSUME GInv, [Next]_vars PROVE GInv'
  OBVIOUS
<1>1. SourceTypes'
  BY DEF GInv, SourceTypes, Next, MachineBegins, MachineAdvances, IteratorStarts,
         IteratorAdvances, vars, source
<1>2. CASE MachineBegins \/ MachineAdvances
  <2>1. CoroutineInv'
    BY <1>2 DEF MachineBegins, MachineAdvances, source, coroutine, GInv, CoroutineInv,
                Produced, Unread, Null, Exception
  <2> QED
    BY <1>1, <1>2, <2>1, MachineKeepsInv DEF GInv
<1>3. CASE IteratorStarts \/ IteratorAdvances
  <2>1. MachineInv'
    BY <1>3 DEF IteratorStarts, IteratorAdvances, source, machine, GInv, MachineInv,
                Produced, Unread, Null, Exception
  <2> QED
    BY <1>1, <1>3, <2>1, CoroutineKeepsInv DEF GInv
<1>4. CASE UNCHANGED vars
  BY <1>4 DEF vars, source, machine, coroutine, GInv, SourceTypes, MachineInv,
              CoroutineInv, Produced, Unread, Null, Exception
<1> QED
  BY <1>2, <1>3, <1>4 DEF Next

LEMMA GInvShows == GInv => SameSequence
<1> SUFFICES ASSUME GInv PROVE SameSequence
  OBVIOUS
<1>1. passed \in Nat /\ stepped \in Nat /\ length \in Nat
      /\ passed <= length /\ stepped <= length
  BY LengthAssumption DEF GInv, SourceTypes, MachineInv, CoroutineInv
<1>2. state # Unread =>
        /\ MachineShows = Produced(passed + 1)
        /\ MachineAtEnd <=> passed = length
        /\ calls = passed + 1
  BY <1>1, Alternatives DEF GInv, MachineInv, MachineShows, MachineAtEnd
<1>3. payload # Unread =>
        /\ CoroutineShows = Produced(stepped + 1)
        /\ CoroutineAtEnd <=> stepped = length
        /\ resumed = stepped + 1
  <2> SUFFICES ASSUME payload # Unread
               PROVE  /\ CoroutineShows = Produced(stepped + 1)
                      /\ CoroutineAtEnd <=> stepped = length
                      /\ resumed = stepped + 1
    OBVIOUS
  <2>1. /\ resumed = stepped + 1
        /\ done <=> stepped = length
        /\ payload = IF Produced(stepped + 1) # Null THEN Produced(stepped + 1)
                                                     ELSE stepped
    BY DEF GInv, CoroutineInv
  <2>2. stepped # Exception
    BY <1>1, LengthAssumption DEF Exception, GInv, SourceTypes
  <2> QED
    BY <1>1, <2>1, <2>2, Alternatives DEF GInv, CoroutineShows, CoroutineAtEnd
<1> QED
  BY <1>2, <1>3 DEF SameSequence

\* Both generators show each value of their source once, and its end.
THEOREM BothShowTheSequence == Spec => []SameSequence
  BY GInitInv, GNextInv, GInvShows, PTL DEF Spec
=============================================================================
