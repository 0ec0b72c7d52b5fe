----------------------------- MODULE PluginProofs -----------------------------
(***************************************************************************)
(* Proofs about the core and about the entry points over it, for every     *)
(* number of modules.                                                      *)
(*                                                                         *)
(* The core, while no callback calls load or unload (at most one call of   *)
(* them is on the stack) and no loader that is being stopped makes another *)
(* one finish: it is up with every module or down with none, it touches no *)
(* module that was let go, and it lowers in the reverse order.             *)
(*                                                                         *)
(* The entry points: the core never runs without its tables, and what an   *)
(* entry point has answered holds until the next one.  As Meta_Attach and  *)
(* Meta_Detach come one at a time, one call of the core is on the stack at *)
(* most, and its invariant holds whatever MaxDepth is.                     *)
(***************************************************************************)
EXTENDS Plugin, FiniteSetTheorems, SequenceTheorems, TLAPS

Listed(s) == {s[i] : i \in 1..Len(s)}
Distinct(s) == \A i, j \in 1..Len(s) : s[i] = s[j] => i = j

TaskStates == {"queued", "loaded", "pending", "throws", "failed", "cancelled"}

CallType ==
    [ op : {"load", "unload"},
      at : Callbacks \cup {"loop", "stopping", "walk"},
      next : 1..(MaxModules + 1),
      last : 0..MaxModules,
      tasks : [Modules -> TaskStates],
      loaded : Seq(Modules),
      walked : BOOLEAN,
      failed : BOOLEAN ]

\* The list of a call that raises the core holds the modules whose loaders have
\* finished, and those it has not come to are still queued.
Raising(c) ==
    /\ c.op = "load"
    /\ c.next <= c.last + 1
    /\ c.at = "loader" => c.next <= c.last
    /\ \A m \in Modules : c.tasks[m] = "queued" <=> m >= c.next
    /\ \A m \in Modules : c.tasks[m] = "loaded" <=> m \in Listed(c.loaded)

\* One that lowers it has nothing left to wait for.
Lowering(c) ==
    /\ \A m \in Modules : c.tasks[m] # "pending"
    /\ c.at = "unloader" => c.loaded # <<>>
    /\ c.at = "teardown" => c.loaded = <<>>

CallInv(c) ==
    /\ Distinct(c.loaded)
    /\ \A m \in Listed(c.loaded) : m <= injected
    /\ c.at # "teardown" /\ c.op = "load" => c.last = injected
    /\ container <=> c.at # "teardown"
    /\ c.at \in {"loop", "loader"} => Raising(c)
    /\ c.at \in {"stopping", "unwinding"} => c.op = "load"
    /\ c.at \in {"walk", "unloader", "teardown"} => Lowering(c)

RestInv ==
    IF container
    THEN Distinct(loaded) /\ Listed(loaded) = 1..injected
    ELSE loaded = <<>> /\ (bad => injected = 0)

Types ==
    /\ bad \in BOOLEAN
    /\ lock = FALSE
    /\ container \in BOOLEAN
    /\ injected \in 0..MaxModules
    /\ loaded \in Seq(Modules)
    /\ calls \in Seq(CallType)

CInv ==
    /\ Types
    /\ Len(calls) <= 1
    /\ IF Within THEN loaded = <<>> /\ CallInv(Here) ELSE RestInv

----------------------------------------------------------------------------
(* Lists of modules, and the stack of calls.                                *)

LEMMA EmptyList == Listed(<<>>) = {} /\ Distinct(<<>>)
  BY DEF Listed, Distinct

LEMMA ListedAreModules == \A s \in Seq(Modules) : Listed(s) \subseteq 1..MaxModules
  BY ElementOfSeq DEF Listed, Modules

LEMMA Prepended ==
    ASSUME NEW s \in Seq(Modules), NEW m \in Modules
    PROVE  /\ <<m>> \o s \in Seq(Modules)
           /\ <<m>> \o s # <<>>
           /\ Listed(<<m>> \o s) = Listed(s) \cup {m}
           /\ Distinct(s) /\ m \notin Listed(s) => Distinct(<<m>> \o s)
<1> DEFINE t == <<m>> \o s
<1>1. t \in Seq(Modules) /\ Len(t) = Len(s) + 1 /\ t[1] = m
      /\ \A i \in 2..Len(t) : t[i] = s[i - 1]
  OBVIOUS
<1>2. Len(s) \in Nat /\ \A i \in 1..Len(s) : t[i + 1] = s[i]
  BY <1>1
<1>3. t # <<>>
  BY <1>1, <1>2
<1> HIDE DEF t
<1>4. Listed(t) = Listed(s) \cup {m}
  <2>1. ASSUME NEW i \in 1..Len(t) PROVE t[i] \in Listed(s) \cup {m}
    <3>1. CASE i = 1
      BY <1>1, <3>1
    <3>2. CASE i # 1
      <4>1. i - 1 \in 1..Len(s) /\ t[i] = s[i - 1]
        BY <1>1, <1>2, <3>2
      <4> QED
        BY <4>1 DEF Listed
    <3> QED
      BY <3>1, <3>2
  <2>2. ASSUME NEW i \in 1..Len(s) PROVE s[i] \in Listed(t)
    <3>1. i + 1 \in 1..Len(t) /\ t[i + 1] = s[i]
      BY <1>1, <1>2
    <3> QED
      BY <3>1 DEF Listed
  <2>3. m \in Listed(t)
    <3>1. 1 \in 1..Len(t)
      BY <1>1, <1>2
    <3> QED
      BY <1>1, <3>1 DEF Listed
  <2> QED
    BY <2>1, <2>2, <2>3 DEF Listed
<1>5. ASSUME Distinct(s), m \notin Listed(s) PROVE Distinct(t)
  <2> SUFFICES ASSUME NEW i \in 1..Len(t), NEW j \in 1..Len(t), t[i] = t[j]
               PROVE  i = j
    BY DEF Distinct
  <2>1. \A k \in 1..Len(t) : k # 1 => k - 1 \in 1..Len(s) /\ t[k] = s[k - 1] /\ t[k] # m
    <3> SUFFICES ASSUME NEW k \in 1..Len(t), k # 1
                 PROVE  k - 1 \in 1..Len(s) /\ t[k] = s[k - 1] /\ t[k] # m
      OBVIOUS
    <3>1. k - 1 \in 1..Len(s) /\ t[k] = s[k - 1]
      BY <1>1, <1>2
    <3> QED
      BY <1>5, <3>1 DEF Listed
  <2>2. CASE i = 1 \/ j = 1
    BY <1>1, <2>1, <2>2
  <2>3. CASE i # 1 /\ j # 1
    BY <1>5, <2>1, <2>3 DEF Distinct
  <2> QED
    BY <2>2, <2>3
<1> QED
  BY <1>1, <1>3, <1>4, <1>5 DEF t

LEMMA Shortened ==
    ASSUME NEW s \in Seq(Modules), s # <<>>
    PROVE  /\ Tail(s) \in Seq(Modules)
           /\ Listed(Tail(s)) \subseteq Listed(s)
           /\ Distinct(s) => Distinct(Tail(s))
<1>1. Tail(s) \in Seq(Modules) /\ Len(s) \in Nat /\ Len(Tail(s)) = Len(s) - 1
      /\ \A i \in 1..(Len(s) - 1) : Tail(s)[i] = s[i + 1]
  OBVIOUS
<1>2. \A i \in 1..Len(Tail(s)) : i + 1 \in 1..Len(s) /\ Tail(s)[i] = s[i + 1]
  BY <1>1
<1>3. Listed(Tail(s)) \subseteq Listed(s)
  BY <1>2 DEF Listed
<1>4. Distinct(s) => Distinct(Tail(s))
  BY <1>1, <1>2 DEF Distinct
<1> QED
  BY <1>1, <1>3, <1>4

LEMMA OneCall ==
    ASSUME Types, Len(calls) <= 1, Within
    PROVE  Here \in CallType /\ Len(calls) = 1 /\ calls[1] = Here /\ Tail(calls) = <<>>
<1>1. calls \in Seq(CallType) /\ Len(calls) = 1
  <2>1. calls \in Seq(CallType)
    BY DEF Types
  <2>2. Len(calls) \in Nat
    BY <2>1, LenProperties
  <2>3. \A n \in Nat : n <= 1 /\ n > 0 => n = 1
    OBVIOUS
  <2> QED
    BY <2>1, <2>2, <2>3 DEF Within
<1>2. calls # <<>>
  BY <1>1
<1>3. Head(calls) \in CallType /\ Tail(calls) \in Seq(CallType) /\ Len(Tail(calls)) = 0
  BY <1>1, <1>2, HeadTailProperties
<1>4. Tail(calls) = <<>>
  BY <1>3, EmptySeq
<1>5. Head(calls) = calls[1]
  BY <1>1
<1> QED
  BY <1>1, <1>3, <1>4, <1>5 DEF Here

LEMMA Continued ==
    ASSUME Types, Len(calls) <= 1, Within, NEW c \in CallType, Continue(c)
    PROVE  calls' \in Seq(CallType) /\ Len(calls') = 1 /\ Within' /\ Here' = c
<1>1. calls' = <<c>>
  <2>1. calls' = <<c>> \o <<>>
    BY OneCall DEF Continue
  <2> QED
    BY <2>1, ConcatEmptySeq
<1>2. <<c>> \in Seq(CallType) /\ Len(<<c>>) = 1 /\ Head(<<c>>) = c
  OBVIOUS
<1> QED
  BY <1>1, <1>2 DEF Within, Here

LEMMA Returned ==
    ASSUME Types, Len(calls) <= 1, Within, Return
    PROVE  calls' \in Seq(CallType) /\ Len(calls') = 0 /\ ~Within'
<1>1. calls' = <<>>
  BY OneCall DEF Return
<1>2. <<>> \in Seq(CallType) /\ Len(<<>>) = 0
  OBVIOUS
<1> QED
  BY <1>1, <1>2 DEF Within

\* A step of the innermost call that keeps what is said of calls.
LEMMA CallGoesOn ==
    ASSUME CInv, Within, NEW c \in CallType, Continue(c), CallInv(c), bad' \in BOOLEAN,
           UNCHANGED <<lock, container, injected, loaded>>
    PROVE  CInv'
<1>1. calls' \in Seq(CallType) /\ Len(calls') = 1 /\ Within' /\ Here' = c
  BY Continued DEF CInv
<1>2. Types'
  BY <1>1 DEF CInv, Types
<1>3. CallInv(Here)'
  BY <1>1 DEF CallInv, Raising, Lowering
<1> QED
  BY <1>1, <1>2, <1>3 DEF CInv

----------------------------------------------------------------------------
(* The steps of a call, one by one.                                         *)

LEMMA InCall ==
    ASSUME CInv, Within
    PROVE  Here \in CallType /\ CallInv(Here) /\ bad \in BOOLEAN /\ Types /\ Len(calls) <= 1
  BY OneCall DEF CInv, Types

LEMMA CallLoaderInv == CInv /\ CallLoader => CInv'
<1> SUFFICES ASSUME CInv, CallLoader PROVE CInv'
  OBVIOUS
<1>1. Within /\ Here.at = "loop" /\ Here.next <= Here.last /\ bad' = bad
  BY DEF CallLoader, At
<1>2. Here \in CallType /\ CallInv(Here) /\ bad \in BOOLEAN
  BY <1>1, InCall
<1>3. PICK c : c = [Here EXCEPT !.at = "loader"]
  OBVIOUS
<1>4. c \in CallType
  BY <1>2, <1>3 DEF CallType, Callbacks
<1>5. CallInv(c)
  BY <1>1, <1>2, <1>3 DEF CallInv, Raising, Lowering, CallType
<1> QED
  BY <1>1, <1>2, <1>3, <1>4, <1>5, CallGoesOn DEF CallLoader

LEMMA LoadFailsInv == CInv /\ LoadFails => CInv'
<1> SUFFICES ASSUME CInv, LoadFails PROVE CInv'
  OBVIOUS
<1>1. Within /\ Here.at = "loop" /\ bad' = bad
  BY DEF LoadFails, At
<1>2. Here \in CallType /\ CallInv(Here) /\ bad \in BOOLEAN
  BY <1>1, InCall
<1>3. PICK c : c = [Here EXCEPT !.at = "stopping"]
  OBVIOUS
<1>4. c \in CallType
  BY <1>2, <1>3 DEF CallType
<1>5. CallInv(c)
  BY <1>1, <1>2, <1>3 DEF CallInv, Raising, CallType
<1> QED
  BY <1>1, <1>2, <1>3, <1>4, <1>5, CallGoesOn DEF LoadFails

LEMMA StopTaskInv == CInv /\ StopTask => CInv'
<1> SUFFICES ASSUME CInv, StopTask PROVE CInv'
  OBVIOUS
<1>1. Within /\ Here.at = "stopping" /\ bad' = bad
  BY DEF StopTask, At
<1>2. Here \in CallType /\ CallInv(Here) /\ bad \in BOOLEAN
  BY <1>1, InCall
<1>3. PICK m \in Modules :
        Continue([Here EXCEPT !.at = "unwinding", !.tasks[m] = "cancelled"])
  BY DEF StopTask
<1>4. PICK c : c = [Here EXCEPT !.at = "unwinding", !.tasks[m] = "cancelled"]
  OBVIOUS
<1>5. c \in CallType
  BY <1>2, <1>4 DEF CallType, Callbacks, TaskStates
<1>6. CallInv(c)
  BY <1>1, <1>2, <1>4 DEF CallInv, CallType
<1> QED
  BY <1>1, <1>2, <1>3, <1>4, <1>5, <1>6, CallGoesOn DEF StopTask

LEMMA UnwindingEndsInv == CInv /\ UnwindingEnds => CInv'
<1> SUFFICES ASSUME CInv, UnwindingEnds PROVE CInv'
  OBVIOUS
<1>1. Within /\ Here.at = "unwinding" /\ bad' = bad
  BY DEF UnwindingEnds, At
<1>2. Here \in CallType /\ CallInv(Here) /\ bad \in BOOLEAN
  BY <1>1, InCall
<1>3. PICK c : c = [Here EXCEPT !.at = "stopping"]
  OBVIOUS
<1>4. c \in CallType
  BY <1>2, <1>3 DEF CallType
<1>5. CallInv(c)
  BY <1>1, <1>2, <1>3 DEF CallInv, CallType
<1> QED
  BY <1>1, <1>2, <1>3, <1>4, <1>5, CallGoesOn DEF UnwindingEnds

LEMMA AllStoppedInv == CInv /\ AllStopped => CInv'
<1> SUFFICES ASSUME CInv, AllStopped PROVE CInv'
  OBVIOUS
<1>1. Within /\ Here.at = "stopping" /\ bad' = bad
      /\ \A m \in Modules : Here.tasks[m] # "pending"
  BY DEF AllStopped, At, IsPending
<1>2. Here \in CallType /\ CallInv(Here) /\ bad \in BOOLEAN
  BY <1>1, InCall
<1>3. PICK c : c = [Here EXCEPT !.at = "walk"]
  OBVIOUS
<1>4. c \in CallType
  BY <1>2, <1>3 DEF CallType
<1>5. CallInv(c)
  BY <1>1, <1>2, <1>3 DEF CallInv, Lowering, CallType
<1> QED
  BY <1>1, <1>2, <1>3, <1>4, <1>5, CallGoesOn DEF AllStopped

LEMMA CallUnloaderInv == CInv /\ CallUnloader => CInv'
<1> SUFFICES ASSUME CInv, CallUnloader PROVE CInv'
  OBVIOUS
<1>1. Within /\ Here.at = "walk" /\ Here.loaded # <<>> /\ bad' = bad
  BY DEF CallUnloader, At
<1>2. Here \in CallType /\ CallInv(Here) /\ bad \in BOOLEAN
  BY <1>1, InCall
<1>3. PICK c : c = [Here EXCEPT !.at = "unloader"]
  OBVIOUS
<1>4. c \in CallType
  BY <1>2, <1>3 DEF CallType, Callbacks
<1>5. CallInv(c)
  BY <1>1, <1>2, <1>3 DEF CallInv, Lowering, CallType
<1> QED
  BY <1>1, <1>2, <1>3, <1>4, <1>5, CallGoesOn DEF CallUnloader

\* The module whose loader returns is queued, and nobody has listed it.
LEMMA NextIsNew ==
    ASSUME CInv, At("loader")
    PROVE  /\ Raising(Here) /\ Distinct(Here.loaded) /\ Here.last = injected
           /\ Here.next \in Modules /\ Here.next <= injected /\ container
           /\ Here.next \notin Listed(Here.loaded)
<1>1. Here.at = "loader" /\ Here \in CallType /\ CallInv(Here)
  BY InCall DEF At
<1>2. Raising(Here) /\ Distinct(Here.loaded) /\ Here.last = injected /\ container
  BY <1>1 DEF CallInv, Raising
<1>3. Here.next <= Here.last /\ Here.last <= MaxModules /\ Here.next \in Modules
  BY <1>1, <1>2, ModulesAssumption DEF Raising, CallType, Modules
<1>4. Here.tasks[Here.next] = "queued"
  BY <1>2, <1>3, ModulesAssumption DEF Raising, Modules
<1> QED
  BY <1>2, <1>3, <1>4 DEF Raising

LEMMA LoaderReturnsInv ==
    ASSUME CInv, NEW o \in Outcomes, LoaderReturns(o)
    PROVE  CInv'
<1>1. Within /\ Here.at = "loader" /\ bad' = bad
  BY DEF LoaderReturns, At
<1>2. Here \in CallType /\ CallInv(Here) /\ bad \in BOOLEAN
  BY <1>1, InCall
<1>3. Raising(Here) /\ Distinct(Here.loaded) /\ Here.last = injected
      /\ Here.next \in Modules /\ Here.next <= injected /\ container
      /\ Here.next \notin Listed(Here.loaded)
  BY <1>1, NextIsNew DEF At
<1>4. PICK c : c = [Here EXCEPT
         !.at = IF o = "throws" THEN "stopping" ELSE "loop",
         !.next = @ + 1,
         !.tasks[Here.next] = o,
         !.loaded = IF o = "loaded" THEN <<Here.next>> \o @ ELSE @]
  OBVIOUS
<1>5. /\ c.op = "load" /\ c.last = Here.last /\ c.next = Here.next + 1
      /\ c.at = IF o = "throws" THEN "stopping" ELSE "loop"
      /\ c.tasks = [Here.tasks EXCEPT ![Here.next] = o]
      /\ c.loaded = IF o = "loaded" THEN <<Here.next>> \o Here.loaded ELSE Here.loaded
      /\ c.walked = Here.walked /\ c.failed = Here.failed
  BY <1>2, <1>3, <1>4 DEF CallType, Raising
<1>6. Here.loaded \in Seq(Modules) /\ Here.tasks \in [Modules -> TaskStates]
      /\ Here.last \in 0..MaxModules
  BY <1>2 DEF CallType
<1>7. /\ c.loaded \in Seq(Modules) /\ Distinct(c.loaded)
      /\ Listed(c.loaded) = IF o = "loaded" THEN Listed(Here.loaded) \cup {Here.next}
                                            ELSE Listed(Here.loaded)
  <2>1. CASE o = "loaded"
    <3>1. c.loaded = <<Here.next>> \o Here.loaded
      BY <1>5, <2>1
    <3> QED
      BY <1>3, <1>6, <2>1, <3>1, Prepended
  <2>2. CASE o # "loaded"
    BY <1>3, <1>5, <1>6, <2>2
  <2> QED
    BY <2>1, <2>2
<1>8. c \in CallType
  <2>1. c.tasks \in [Modules -> TaskStates]
    BY <1>5, <1>6 DEF Outcomes, TaskStates
  <2>2. c.next \in 1..(MaxModules + 1)
    BY <1>3, <1>5, ModulesAssumption DEF Modules
  <2>3. c.at \in Callbacks \cup {"loop", "stopping", "walk"}
    BY <1>5
  <2> QED
    BY <1>2, <1>4, <1>5, <1>6, <1>7, <2>1, <2>2, <2>3 DEF CallType
<1>9. CallInv(c)
  <2>1. \A m \in Listed(c.loaded) : m <= injected
    BY <1>2, <1>3, <1>7 DEF CallInv
  <2>2. o # "throws" => Raising(c)
    <3> SUFFICES ASSUME o # "throws" PROVE Raising(c)
      OBVIOUS
    <3>1. c.next <= c.last + 1
      BY <1>3, <1>5, <1>6, ModulesAssumption DEF Modules
    <3>2. \A m \in Modules : c.tasks[m] = "queued" <=> m >= c.next
      <4> TAKE m \in Modules
      <4>1. CASE m = Here.next
        BY <1>3, <1>5, <1>6, <4>1, ModulesAssumption DEF Outcomes, Modules
      <4>2. CASE m # Here.next
        BY <1>3, <1>5, <1>6, <4>2, ModulesAssumption DEF Raising, Modules
      <4> QED
        BY <4>1, <4>2
    <3>3. \A m \in Modules : c.tasks[m] = "loaded" <=> m \in Listed(c.loaded)
      <4> TAKE m \in Modules
      <4>1. CASE m = Here.next
        BY <1>3, <1>5, <1>6, <1>7, <4>1
      <4>2. CASE m # Here.next
        BY <1>3, <1>5, <1>6, <1>7, <4>2 DEF Raising
      <4> QED
        BY <4>1, <4>2
    <3> QED
      BY <1>5, <3>1, <3>2, <3>3 DEF Raising
  <2> QED
    BY <1>3, <1>5, <1>7, <2>1, <2>2 DEF CallInv
<1> QED
  BY <1>1, <1>2, <1>4, <1>8, <1>9, CallGoesOn DEF LoaderReturns

\* A loader that waits ends while another one runs or is being stopped, and it
\* does not finish then.
LEMMA PendingEnds ==
    ASSUME CInv, Cascade = FALSE, NEW k \in 1..Len(calls), NEW m \in Modules,
           NEW o \in {"loaded", "failed", "cancelled"}, TaskEnds(k, m, o)
    PROVE  /\ Within /\ Here.at \in {"loader", "unwinding"} /\ Here.tasks[m] = "pending"
           /\ o = "loaded" => /\ Here.at = "loader" /\ Raising(Here) /\ m <= injected
                              /\ m \notin Listed(Here.loaded)
           /\ Continue([Here EXCEPT
                !.tasks[m] = o,
                !.loaded = IF o = "loaded" THEN <<m>> \o @ ELSE @])
           /\ UNCHANGED <<bad, lock, container, injected, loaded>>
<1>1. Within /\ k = 1 /\ calls[1] = Here /\ Tail(calls) = <<>> /\ calls \in Seq(CallType)
  <2>1. Len(calls) \in Nat /\ Len(calls) <= 1 /\ Types
    BY LenProperties DEF CInv, Types
  <2>2. Within /\ k = 1
    BY <2>1 DEF Within
  <2> QED
    BY <2>1, <2>2, OneCall DEF Types
<1>2. Here \in CallType /\ CallInv(Here) /\ bad \in BOOLEAN
  BY <1>1, InCall
<1>3. Here.at \in Callbacks /\ Here.tasks[m] = "pending"
  BY <1>1 DEF TaskEnds, UserRuns
<1>4. Here.at \in {"loader", "unwinding"} /\ Here.op = "load" /\ container
      /\ Distinct(Here.loaded) /\ Here.last = injected
  BY <1>2, <1>3 DEF CallInv, Lowering, Raising, Callbacks
<1>5. o = "loaded" => Here.at = "loader"
  BY <1>1, <1>4 DEF TaskEnds
<1>6. PICK c : c = [Here EXCEPT
         !.tasks[m] = o,
         !.loaded = IF o = "loaded" THEN <<m>> \o @ ELSE @]
  OBVIOUS
<1>7. Continue(c) /\ UNCHANGED <<bad, lock, container, injected, loaded>>
  <2>1. calls' = [calls EXCEPT ![1] = c]
    BY <1>1, <1>5, <1>6 DEF TaskEnds
  <2>2. calls = <<Here>>
    BY <1>1, OneCall DEF CInv
  <2>3. calls' = <<c>>
    BY <2>1, <2>2
  <2> QED
    BY <1>1, <2>3 DEF Continue, TaskEnds
<1>8. o = "loaded" => Raising(Here) /\ m \notin Listed(Here.loaded) /\ m <= injected
  <2> SUFFICES ASSUME o = "loaded"
               PROVE  Raising(Here) /\ m \notin Listed(Here.loaded) /\ m <= injected
    OBVIOUS
  <2>1. Raising(Here) /\ Here.at = "loader"
    BY <1>2, <1>5 DEF CallInv
  <2>2. m \notin Listed(Here.loaded) /\ ~(m >= Here.next) /\ Here.next <= Here.last
    BY <1>3, <2>1 DEF Raising
  <2>3. m \in Nat /\ Here.next \in Nat /\ Here.last \in Nat
    BY <1>2, ModulesAssumption DEF CallType, Modules
  <2> QED
    BY <1>4, <2>1, <2>2, <2>3
<1> QED
  BY <1>1, <1>3, <1>4, <1>5, <1>6, <1>7, <1>8

LEMMA TaskEndsInv ==
    ASSUME CInv, Cascade = FALSE, NEW k \in 1..Len(calls), NEW m \in Modules,
           NEW o \in {"loaded", "failed", "cancelled"}, TaskEnds(k, m, o)
    PROVE  CInv'
<1>1. Within /\ Here.at \in {"loader", "unwinding"} /\ Here.tasks[m] = "pending"
  BY PendingEnds
<1>2. Here \in CallType /\ CallInv(Here) /\ bad \in BOOLEAN
  BY <1>1, InCall
<1>3. Here.op = "load" /\ container /\ Distinct(Here.loaded) /\ Here.last = injected
  BY <1>1, <1>2 DEF CallInv, Raising
<1>4. PICK c : c = [Here EXCEPT
         !.tasks[m] = o,
         !.loaded = IF o = "loaded" THEN <<m>> \o @ ELSE @]
  OBVIOUS
<1>5. Continue(c) /\ UNCHANGED <<bad, lock, container, injected, loaded>>
  BY <1>4, PendingEnds
<1>6. o = "loaded" => /\ Here.at = "loader" /\ Raising(Here) /\ m <= injected
                     /\ m \notin Listed(Here.loaded)
  BY PendingEnds
<1>7. /\ c.op = "load" /\ c.last = Here.last /\ c.next = Here.next /\ c.at = Here.at
      /\ c.tasks = [Here.tasks EXCEPT ![m] = o]
      /\ c.loaded = IF o = "loaded" THEN <<m>> \o Here.loaded ELSE Here.loaded
  BY <1>2, <1>3, <1>4 DEF CallType
<1>8. Here.loaded \in Seq(Modules) /\ Here.tasks \in [Modules -> TaskStates]
  BY <1>2 DEF CallType
<1>9. /\ c.loaded \in Seq(Modules) /\ Distinct(c.loaded)
      /\ Listed(c.loaded) = IF o = "loaded" THEN Listed(Here.loaded) \cup {m}
                                            ELSE Listed(Here.loaded)
  BY <1>3, <1>6, <1>7, <1>8, Prepended
<1>10. c.tasks \in [Modules -> TaskStates]
  BY <1>7, <1>8 DEF TaskStates
<1>11. c \in CallType
  BY <1>2, <1>4, <1>9, <1>10 DEF CallType
<1>12. CallInv(c)
  <2>1. \A t \in Listed(c.loaded) : t <= injected
    BY <1>2, <1>6, <1>9 DEF CallInv
  <2>2. Here.at = "loader" => Raising(c)
    <3> SUFFICES ASSUME Here.at = "loader" PROVE Raising(c)
      OBVIOUS
    <3>1. Raising(Here)
      BY <1>2 DEF CallInv
    <3>2. \A t \in Modules : c.tasks[t] = IF t = m THEN o ELSE Here.tasks[t]
      BY <1>7, <1>8
    <3>3. \A t \in Modules : c.tasks[t] = "queued" <=> t >= c.next
      BY <1>1, <1>7, <3>1, <3>2 DEF Raising
    <3>4. \A t \in Modules : c.tasks[t] = "loaded" <=> t \in Listed(c.loaded)
      BY <1>1, <1>9, <3>1, <3>2 DEF Raising
    <3> QED
      BY <1>7, <3>1, <3>3, <3>4 DEF Raising
  <2> QED
    BY <1>1, <1>3, <1>7, <1>9, <2>1, <2>2 DEF CallInv
<1> QED
  BY <1>1, <1>2, <1>5, <1>11, <1>12, CallGoesOn

LEMMA UnloaderReturnsInv ==
    ASSUME CInv, NEW throws \in BOOLEAN, UnloaderReturns(throws)
    PROVE  CInv'
<1>1. Within /\ Here.at = "unloader"
  BY DEF UnloaderReturns, At
<1>2. Here \in CallType /\ CallInv(Here) /\ bad \in BOOLEAN
  BY <1>1, InCall
<1>3. Here.loaded # <<>> /\ Here.loaded \in Seq(Modules) /\ Distinct(Here.loaded)
  BY <1>1, <1>2 DEF CallInv, Lowering, CallType
<1>4. PICK c : c = [Here EXCEPT !.at = "walk", !.loaded = Tail(@), !.failed = @ \/ throws]
  OBVIOUS
<1>5. /\ c.op = Here.op /\ c.at = "walk" /\ c.loaded = Tail(Here.loaded)
      /\ c.last = Here.last /\ c.tasks = Here.tasks /\ c.failed \in BOOLEAN
  BY <1>2, <1>4 DEF CallType
<1>6. /\ c.loaded \in Seq(Modules) /\ Distinct(c.loaded)
      /\ Listed(c.loaded) \subseteq Listed(Here.loaded)
  BY <1>3, <1>5, Shortened
<1>7. c \in CallType
  BY <1>2, <1>4, <1>5, <1>6 DEF CallType
<1>8. CallInv(c)
  BY <1>1, <1>2, <1>5, <1>6 DEF CallInv, Lowering
<1>9. bad' \in BOOLEAN
  BY DEF UnloaderReturns
<1> QED
  BY <1>1, <1>2, <1>4, <1>7, <1>8, <1>9, CallGoesOn DEF UnloaderReturns

LEMMA TearDownInv == CInv /\ TearDown => CInv'
<1> SUFFICES ASSUME CInv, TearDown PROVE CInv'
  OBVIOUS
<1>1. Within /\ Here.at = "walk" /\ Here.loaded = <<>> /\ container' = FALSE
      /\ UNCHANGED <<lock, injected, loaded>>
  BY DEF TearDown, At
<1>2. Here \in CallType /\ CallInv(Here) /\ bad \in BOOLEAN /\ Types /\ Len(calls) <= 1
  BY <1>1, InCall
<1>3. PICK c : c = [Here EXCEPT !.at = "teardown"]
  OBVIOUS
<1>4. c \in CallType
  BY <1>2, <1>3 DEF CallType, Callbacks
<1>5. calls' \in Seq(CallType) /\ Len(calls') = 1 /\ Within' /\ Here' = c
  BY <1>1, <1>2, <1>3, <1>4, Continued DEF TearDown
<1>6. bad' \in BOOLEAN
  BY <1>2 DEF TearDown, CallType
<1>7. Types'
  BY <1>1, <1>2, <1>5, <1>6 DEF Types
<1>8. /\ c.op = Here.op /\ c.at = "teardown" /\ c.loaded = <<>> /\ c.tasks = Here.tasks
  BY <1>1, <1>2, <1>3 DEF CallType
<1>9. CallInv(Here)'
  <2>1. Lowering(Here)
    BY <1>1, <1>2 DEF CallInv
  <2>2. Lowering(c)
    BY <1>8, <2>1 DEF Lowering
  <2> QED
    BY <1>1, <1>5, <1>8, <2>2, EmptyList DEF CallInv, Raising, Lowering
<1>10. loaded' = <<>>
  BY <1>1 DEF CInv
<1> QED
  BY <1>5, <1>7, <1>9, <1>10 DEF CInv

LEMMA LoadSucceedsInv == CInv /\ LoadSucceeds => CInv'
<1> SUFFICES ASSUME CInv, LoadSucceeds PROVE CInv'
  OBVIOUS
<1>1. Within /\ Here.at = "loop" /\ Here.next > Here.last /\ AllFinished(Here)
      /\ loaded' = Here.loaded /\ lock' = FALSE /\ UNCHANGED <<bad, container, injected>>
  BY DEF LoadSucceeds, At, Release
<1>2. Here \in CallType /\ CallInv(Here) /\ bad \in BOOLEAN /\ Types /\ Len(calls) <= 1
  BY <1>1, InCall
<1>3. calls' \in Seq(CallType) /\ Len(calls') = 0 /\ ~Within'
  BY <1>1, <1>2, Returned DEF LoadSucceeds
<1>4. Raising(Here) /\ Distinct(Here.loaded) /\ Here.last = injected /\ container
      /\ Here.loaded \in Seq(Modules)
  BY <1>1, <1>2 DEF CallInv, Raising, CallType
<1>5. Types'
  BY <1>1, <1>2, <1>3, <1>4 DEF Types
<1>6. Listed(Here.loaded) = 1..injected
  <2>1. injected \in 0..MaxModules /\ 1..injected \subseteq Modules
    BY <1>2, ModulesAssumption DEF Types, Modules
  <2>2. ASSUME NEW m \in 1..injected PROVE m \in Listed(Here.loaded)
    BY <1>1, <1>4, <2>1, <2>2 DEF AllFinished, Raising
  <2>3. ASSUME NEW m \in Listed(Here.loaded) PROVE m \in 1..injected
    <3>1. m \in Modules
      BY <1>4, <2>3, LenProperties DEF Listed
    <3>2. m <= injected
      BY <1>2, <2>3 DEF CallInv
    <3> QED
      BY <2>1, <3>1, <3>2, ModulesAssumption DEF Modules
  <2> QED
    BY <2>2, <2>3
<1>7. Distinct(loaded)' /\ Listed(loaded)' = 1..injected
  BY <1>1, <1>4, <1>6 DEF Distinct, Listed
<1>8. RestInv'
  BY <1>1, <1>4, <1>7 DEF RestInv
<1> QED
  BY <1>3, <1>5, <1>8 DEF CInv

LEMMA TeardownEndsInv == CInv /\ TeardownEnds => CInv'
<1> SUFFICES ASSUME CInv, TeardownEnds PROVE CInv'
  OBVIOUS
<1>1. Within /\ Here.at = "teardown" /\ lock' = FALSE /\ UNCHANGED <<bad, container, loaded>>
      /\ injected' = IF bad THEN 0 ELSE injected
  BY DEF TeardownEnds, At, Release
<1>2. Here \in CallType /\ CallInv(Here) /\ Types /\ Len(calls) <= 1
  BY <1>1, InCall
<1>3. calls' \in Seq(CallType) /\ Len(calls') = 0 /\ ~Within'
  BY <1>1, <1>2, Returned DEF TeardownEnds
<1>4. ~container /\ loaded = <<>>
  BY <1>1, <1>2 DEF CallInv, CInv
<1>5. Types'
  BY <1>1, <1>2, <1>3, ModulesAssumption DEF Types
<1>6. RestInv'
  BY <1>1, <1>4 DEF RestInv
<1> QED
  BY <1>3, <1>5, <1>6 DEF CInv

----------------------------------------------------------------------------
(* What modules and Metamod may call.                                       *)

\* A call that is on the stack while the container is gone only waits for the
\* handlers of the container.
LEMMA InjectedMayChange ==
    ASSUME CInv, ~container, injected' \in 0..MaxModules, bad' \in BOOLEAN,
           ~Within => (bad' => injected' = 0),
           UNCHANGED <<lock, container, loaded, calls>>
    PROVE  CInv'
<1>1. Types'
  BY DEF CInv, Types
<1>2. Within' = Within /\ Here' = Here /\ Len(calls') <= 1 /\ loaded' = loaded
  BY DEF CInv, Within, Here
<1>3. CASE Within
  <2>1. Here.at = "teardown" /\ Here.loaded = <<>> /\ Lowering(Here)
    BY <1>3 DEF CInv, CallInv, Lowering
  <2>2. CallInv(Here)'
    BY <1>2, <2>1, EmptyList DEF CallInv, Lowering
  <2> QED
    BY <1>1, <1>2, <1>3, <2>2 DEF CInv
<1>4. CASE ~Within
  BY <1>1, <1>2, <1>4 DEF CInv, RestInv
<1> QED
  BY <1>3, <1>4

LEMMA InjectInv == CInv /\ Inject => CInv'
<1> SUFFICES ASSUME CInv, Inject PROVE CInv'
  OBVIOUS
<1>1. ~container /\ ~bad /\ bad' = bad /\ bad \in BOOLEAN
      /\ UNCHANGED <<lock, container, loaded, calls>>
  BY DEF Inject, Release, CInv, Types
<1>2. injected' \in 0..MaxModules
  BY ModulesAssumption DEF Inject, CInv, Types
<1> QED
  BY <1>1, <1>2, InjectedMayChange

LEMMA InvalidateInv == CInv /\ Invalidate => CInv'
<1> SUFFICES ASSUME CInv, Invalidate PROVE CInv'
  OBVIOUS
<1>1. bad' = TRUE /\ lock = FALSE /\ container \in BOOLEAN
      /\ UNCHANGED <<lock, container, loaded, calls>>
      /\ injected' = IF lock \/ container THEN injected ELSE 0
  BY DEF Invalidate, CInv, Types
<1>2. CASE container
  <2>1. injected' = injected /\ Types'
    BY <1>1, <1>2 DEF CInv, Types
  <2> QED
    BY <1>1, <1>2, <2>1
    DEF CInv, Within, Here, RestInv, Distinct, Listed, CallInv, Raising, Lowering
<1>3. CASE ~container
  <2>1. injected' = 0 /\ injected' \in 0..MaxModules
    BY <1>1, <1>3, ModulesAssumption
  <2> QED
    BY <1>1, <1>3, <2>1, InjectedMayChange
<1> QED
  BY <1>2, <1>3

\* A call that begins.
LEMMA CallBegins ==
    ASSUME CInv, ~Within, NEW c \in CallType, calls' = <<c>> \o calls
    PROVE  calls' \in Seq(CallType) /\ Len(calls') = 1 /\ Within' /\ Here' = c
<1>1. calls \in Seq(CallType) /\ Len(calls) \in Nat /\ ~(Len(calls) > 0)
  BY LenProperties DEF CInv, Types, Within
<1>2. calls = <<>>
  <2>1. \A n \in Nat : ~(n > 0) => n = 0
    OBVIOUS
  <2> QED
    BY <1>1, <2>1, EmptySeq
<1>3. calls' = <<c>>
  BY <1>2, ConcatEmptySeq
<1>4. <<c>> \in Seq(CallType) /\ Len(<<c>>) = 1 /\ Head(<<c>>) = c
  OBVIOUS
<1>5. Within'
  <2>1. \A n \in Nat : n = 1 => n > 0
    OBVIOUS
  <2> QED
    BY <1>3, <1>4, <2>1 DEF Within
<1> QED
  BY <1>3, <1>4, <1>5 DEF Here

LEMMA LoadBegins ==
    ASSUME CInv, Load
    PROVE  \E c \in CallType :
             /\ calls' = <<c>> \o calls
             /\ c.op = "load" /\ c.at = "loop" /\ c.next = 1 /\ c.last = injected
             /\ c.tasks = [m \in Modules |-> "queued"] /\ c.loaded = <<>>
<1>1. PICK c : c = Call("load", <<>>)
  OBVIOUS
<1>2. /\ c.op = "load" /\ c.at = "loop" /\ c.next = 1 /\ c.last = injected
      /\ c.tasks = [m \in Modules |-> "queued"] /\ c.loaded = <<>>
  BY <1>1 DEF Call
<1>3. c \in CallType
  <2>1. <<>> \in Seq(Modules) /\ (<<>> # <<>>) \in BOOLEAN
    OBVIOUS
  <2> QED
    BY <1>1, <2>1, ModulesAssumption DEF Call, CallType, CInv, Types, TaskStates
<1> QED
  BY <1>1, <1>2, <1>3 DEF Load

LEMMA UnloadBegins ==
    ASSUME CInv, Unload
    PROVE  \E c \in CallType :
             /\ calls' = <<c>> \o calls
             /\ c.op = "unload" /\ c.at = "walk" /\ c.loaded = loaded
             /\ c.tasks = [m \in Modules |-> "queued"]
<1>1. PICK c : c = Call("unload", loaded)
  OBVIOUS
<1>2. /\ c.op = "unload" /\ c.at = "walk"
      /\ c.tasks = [m \in Modules |-> "queued"] /\ c.loaded = loaded
  BY <1>1 DEF Call
<1>3. c \in CallType
  <2>1. loaded \in Seq(Modules) /\ (loaded # <<>>) \in BOOLEAN
    BY DEF CInv, Types
  <2> QED
    BY <1>1, <2>1, ModulesAssumption DEF Call, CallType, TaskStates
<1> QED
  BY <1>1, <1>2, <1>3 DEF Unload

LEMMA LoadInv == CInv /\ ~Within /\ Load => CInv'
<1> SUFFICES ASSUME CInv, ~Within, Load PROVE CInv'
  OBVIOUS
<1>1. ~container /\ container' = TRUE /\ UNCHANGED <<bad, lock, injected, loaded>>
      /\ Types /\ loaded = <<>>
  BY DEF Load, Acquire, CInv, RestInv
<1>2. PICK c \in CallType :
        /\ calls' = <<c>> \o calls
        /\ c.op = "load" /\ c.at = "loop" /\ c.next = 1 /\ c.last = injected
        /\ c.tasks = [m \in Modules |-> "queued"] /\ c.loaded = <<>>
  BY LoadBegins
<1>3. calls' \in Seq(CallType) /\ Len(calls') = 1 /\ Within' /\ Here' = c
  BY <1>2, CallBegins
<1>4. Types'
  BY <1>1, <1>3 DEF Types
<1>5. Raising(c)
  <2>1. injected \in Nat
    BY <1>1, ModulesAssumption DEF Types
  <2> QED
    BY <1>2, <2>1, EmptyList, ModulesAssumption DEF Raising, Modules
<1>6. CallInv(Here)'
  BY <1>1, <1>2, <1>3, <1>5, EmptyList DEF CallInv, Raising
<1> QED
  BY <1>1, <1>3, <1>4, <1>6 DEF CInv

LEMMA UnloadInv == CInv /\ ~Within /\ Unload => CInv'
<1> SUFFICES ASSUME CInv, ~Within, Unload PROVE CInv'
  OBVIOUS
<1>1. container /\ loaded' = <<>> /\ UNCHANGED <<bad, lock, container, injected>>
      /\ Types /\ Distinct(loaded) /\ Listed(loaded) = 1..injected /\ container'
  BY DEF Unload, Acquire, CInv, RestInv
<1>2. PICK c \in CallType :
        /\ calls' = <<c>> \o calls
        /\ c.op = "unload" /\ c.at = "walk" /\ c.loaded = loaded
        /\ c.tasks = [m \in Modules |-> "queued"]
  BY UnloadBegins
<1>3. calls' \in Seq(CallType) /\ Len(calls') = 1 /\ Within' /\ Here' = c
  BY <1>2, CallBegins
<1>4. Types'
  <2>1. <<>> \in Seq(Modules)
    OBVIOUS
  <2> QED
    BY <1>1, <1>3, <2>1 DEF Types
<1>5. \A m \in Listed(loaded) : m <= injected
  BY <1>1 DEF Types
<1>6. Lowering(c)
  BY <1>2 DEF Lowering
<1>7. CallInv(Here)'
  BY <1>1, <1>2, <1>3, <1>5, <1>6 DEF CallInv
<1> QED
  BY <1>1, <1>3, <1>4, <1>7 DEF CInv

----------------------------------------------------------------------------
(* The invariant, and what follows from it.                                 *)

LEMMA CInitInv == Init => CInv
<1> SUFFICES ASSUME Init PROVE CInv
  OBVIOUS
<1>1. calls = <<>> /\ loaded = <<>> /\ <<>> \in Seq(CallType) /\ <<>> \in Seq(Modules)
      /\ Len(calls) = 0
  BY DEF Init
<1>2. ~Within
  <2>1. \A n \in Nat : n = 0 => ~(n > 0)
    OBVIOUS
  <2> QED
    BY <1>1, <2>1 DEF Within
<1>3. bad = FALSE /\ bad \in BOOLEAN /\ lock = FALSE /\ container = FALSE /\ injected \in 0..MaxModules
  <2>1. bad = FALSE /\ lock = FALSE /\ container = FALSE /\ injected = 0
    BY DEF Init
  <2>2. 0 \in 0..MaxModules
    BY ModulesAssumption
  <2> QED
    BY <2>1, <2>2
<1>4. loaded \in Seq(Modules) /\ calls \in Seq(CallType)
  BY <1>1
<1>5. Types
  <2>1. container \in BOOLEAN
    BY <1>3
  <2> QED
    BY <1>3, <1>4, <2>1 DEF Types
<1>6. Len(calls) <= 1 /\ RestInv
  BY <1>1, <1>3 DEF RestInv
<1> QED
  BY <1>2, <1>5, <1>6 DEF CInv

LEMMA CStutterInv == CInv /\ UNCHANGED vars => CInv'
  BY DEF vars, CInv, Types, Within, Here, RestInv, Distinct, Listed, CallInv, Raising,
         Lowering

\* No step but the beginning of a call needs to know how deep calls may go.
LEMMA CNextInv ==
    ASSUME CInv, Cascade = FALSE, [Next]_vars, Load \/ Unload => ~Within
    PROVE  CInv'
<1>1. CASE Client
  BY <1>1, InjectInv, InvalidateInv, LoadInv, UnloadInv DEF Client
<1>2. CASE Library
  BY <1>2, CallLoaderInv, LoadSucceedsInv, LoadFailsInv, StopTaskInv, AllStoppedInv,
     CallUnloaderInv, TearDownInv
  DEF Library
<1>3. CASE Callback
  BY <1>3, LoaderReturnsInv, UnwindingEndsInv, UnloaderReturnsInv, TeardownEndsInv
  DEF Callback
<1>4. CASE Completion
  BY <1>4, TaskEndsInv DEF Completion
<1>5. CASE Refusing \/ UNCHANGED vars
  <2>1. UNCHANGED vars
    BY <1>5 DEF Refusing
  <2> QED
    BY <2>1, CStutterInv
<1> QED
  BY <1>1, <1>2, <1>3, <1>4, <1>5 DEF Next

\* One list cannot hold more modules than there are.
LEMMA DistinctLength ==
    ASSUME NEW n \in Nat, NEW s, s \in Seq(Modules), Distinct(s), Listed(s) \subseteq 1..n
    PROVE  Len(s) <= n /\ (Listed(s) = 1..n => Len(s) = n)
<1>1. PICK k \in Nat : k = Len(s) /\ s \in [1..k -> Modules]
  <2>1. Len(s) \in Nat /\ s \in [1..Len(s) -> Modules]
    BY LenProperties
  <2> QED
    BY <2>1
<1>2. s \in Injection(1..k, 1..n)
  <2>1. s \in [1..k -> 1..n]
    BY <1>1 DEF Listed
  <2>2. IsInjective(s)
    BY <1>1 DEF Distinct, IsInjective
  <2> QED
    BY <2>1, <2>2 DEF Injection
<1>3. IsFiniteSet(1..n) /\ Cardinality(1..n) = n /\ Cardinality(1..k) = k
  BY FS_Interval
<1>4. k <= n /\ (k = n <=> s \in Surjection(1..k, 1..n))
  BY <1>2, <1>3, FS_Injection
<1>5. Listed(s) = 1..n => s \in Surjection(1..k, 1..n)
  BY <1>1, <1>2 DEF Listed, Surjection, Injection
<1> QED
  BY <1>1, <1>4, <1>5

LEMMA CInvTypeOK == CInv /\ MaxDepth = 1 => TypeOK
<1> SUFFICES ASSUME CInv, MaxDepth = 1 PROVE TypeOK
  OBVIOUS
<1>1. Len(loaded) <= MaxModules
  <2>1. Distinct(loaded) /\ loaded \in Seq(Modules)
    BY EmptyList DEF CInv, Types, RestInv
  <2>2. Listed(loaded) \subseteq 1..MaxModules
    BY <2>1, ListedAreModules
  <2> QED
    BY <2>1, <2>2, DistinctLength, ModulesAssumption
<1>2. ASSUME NEW k \in 1..Len(calls)
      PROVE  calls[k] \in CallType /\ Len(calls[k].loaded) <= MaxModules
  <2>1. calls \in Seq(CallType) /\ Len(calls) <= 1 /\ Len(calls) \in Nat
    BY LenProperties DEF CInv, Types
  <2>2. Within
    BY <2>1, <1>2 DEF Within
  <2>3. calls[k] = Here /\ Here \in CallType /\ Distinct(Here.loaded)
    BY <1>2, <2>1, <2>2, OneCall, InCall DEF CInv, CallInv
  <2>4. Here.loaded \in Seq(Modules)
    BY <2>3 DEF CallType
  <2>5. Listed(Here.loaded) \subseteq 1..MaxModules
    BY <2>4, ListedAreModules
  <2> QED
    BY <2>3, <2>4, <2>5, DistinctLength, ModulesAssumption
<1>3. \A k \in 1..Len(calls) :
         /\ calls[k].op \in {"load", "unload"}
         /\ calls[k].at \in Callbacks \cup {"loop", "stopping", "walk"}
         /\ calls[k].next \in 1..(MaxModules + 1)
         /\ calls[k].last \in 0..MaxModules
         /\ calls[k].loaded \in Seq(Modules)
         /\ Len(calls[k].loaded) <= MaxModules
  BY <1>2 DEF CallType
<1> QED
  BY <1>1, <1>3 DEF CInv, Types, TypeOK

LEMMA CInvModulesExist == CInv => ModulesExist
<1> SUFFICES ASSUME CInv PROVE ModulesExist
  OBVIOUS
<1>1. ASSUME NEW i \in DOMAIN loaded PROVE loaded[i] <= injected
  <2>1. loaded \in Seq(Modules) /\ DOMAIN loaded = 1..Len(loaded) /\ loaded # <<>>
    BY <1>1, LenProperties DEF CInv, Types
  <2>2. loaded[i] \in Listed(loaded) /\ Listed(loaded) = 1..injected
    BY <1>1, <2>1 DEF Listed, CInv, RestInv
  <2> QED
    BY <2>2 DEF CInv, Types
<1>2. ASSUME NEW k \in 1..Len(calls)
      PROVE  /\ \A i \in DOMAIN calls[k].loaded : calls[k].loaded[i] <= injected
             /\ calls[k].at \in {"loop", "loader"} => calls[k].last <= injected
  <2>1. calls \in Seq(CallType) /\ Len(calls) <= 1 /\ Len(calls) \in Nat
    BY LenProperties DEF CInv, Types
  <2>2. Within
    BY <2>1, <1>2 DEF Within
  <2>3. calls[k] = Here /\ Here \in CallType /\ CallInv(Here)
    BY <1>2, <2>1, <2>2, OneCall, InCall DEF CInv
  <2>4. Here.loaded \in Seq(Modules)
    BY <2>3 DEF CallType
  <2>5. \A i \in DOMAIN Here.loaded : Here.loaded[i] \in Listed(Here.loaded)
    BY <2>4, LenProperties DEF Listed
  <2>6. Here.at \in {"loop", "loader"} => Here.last = injected
    BY <2>3 DEF CallInv, Raising
  <2>7. injected <= injected
    BY ModulesAssumption DEF CInv, Types
  <2> QED
    BY <2>3, <2>5, <2>6, <2>7 DEF CallInv
<1> QED
  BY <1>1, <1>2 DEF ModulesExist

LEMMA CInvAllOrNothing == CInv => AllOrNothing
<1> SUFFICES ASSUME CInv, ~Within PROVE AllOrNothing
  BY DEF AllOrNothing
<1>1. RestInv /\ loaded \in Seq(Modules) /\ injected \in Nat /\ container \in BOOLEAN
  BY ModulesAssumption DEF CInv, Types
<1>2. CASE container
  <2>1. Distinct(loaded) /\ Listed(loaded) = 1..injected
    BY <1>1, <1>2 DEF RestInv
  <2>2. Len(loaded) = injected
    BY <1>1, <2>1, DistinctLength
  <2>3. DOMAIN loaded = 1..Len(loaded)
    BY <1>1, LenProperties
  <2>4. \A m \in 1..injected : \E i \in DOMAIN loaded : loaded[i] = m
    BY <2>1, <2>3 DEF Listed
  <2> QED
    BY <1>2, <2>2, <2>4 DEF AllOrNothing
<1>3. CASE ~container
  BY <1>1, <1>3 DEF RestInv, AllOrNothing
<1> QED
  BY <1>2, <1>3

----------------------------------------------------------------------------
(* The promise to the modules.                                              *)

Up == IF Within THEN Here.loaded ELSE loaded

IsRaising(c) == c.at \in {"loop", "loader"}

LEMMA NowHere ==
    ASSUME CInv, Within, NEW c, Continue(c)
    PROVE  Within' /\ Here' = c
<1>1. calls' = <<c>>
  <2>1. calls' = <<c>> \o <<>>
    BY OneCall DEF Continue, CInv
  <2>2. <<c>> \in Seq({c})
    OBVIOUS
  <2> QED
    BY <2>1, <2>2, ConcatEmptySeq
<1>2. Within'
  <2>1. Len(<<c>>) = 1 /\ \A n \in Nat : n = 1 => n > 0
    OBVIOUS
  <2> QED
    BY <1>1, <2>1 DEF Within
<1> QED
  BY <1>1, <1>2 DEF Here

\* How the innermost call shows in the promise after a step of it.
LEMMA ModeOfCall ==
    ASSUME CInv, Within, NEW c, Continue(c)
    PROVE  /\ Mode = IF IsRaising(Here) THEN "raising" ELSE "lowering"
           /\ Mode' = IF IsRaising(c) THEN "raising" ELSE "lowering"
           /\ Up = Here.loaded
           /\ Up' = c.loaded
  BY NowHere DEF Mode, Up, IsRaising

PromiseStep == [Promise!Next]_<<Mode, Up>>

LEMMA QuietStep ==
    ASSUME CInv, Within, NEW c, Continue(c), c.loaded = Here.loaded,
           IsRaising(c) <=> IsRaising(Here)
    PROVE  PromiseStep
  BY ModeOfCall DEF PromiseStep

LEMMA LowerStep ==
    ASSUME CInv, Within, NEW c, Continue(c), c.loaded = Here.loaded,
           IsRaising(Here), ~IsRaising(c)
    PROVE  PromiseStep
  BY ModeOfCall DEF PromiseStep, Up, Promise!Next, Promise!Lower

LEMMA LoadStep ==
    ASSUME CInv, Within, NEW c, Continue(c), NEW m \in Modules,
           c.loaded = <<m>> \o Here.loaded, m \notin Listed(Here.loaded),
           IsRaising(Here), IsRaising(c)
    PROVE  PromiseStep
<1>1. Here.loaded \in Seq(Modules)
  BY InCall DEF CallType
<1>2. \A i \in DOMAIN Here.loaded : Here.loaded[i] # m
  BY <1>1, LenProperties DEF Listed
<1>3. Promise!Load(m)
  BY <1>2, ModeOfCall DEF Up, Promise!Load
<1> QED
  BY <1>3 DEF PromiseStep, Promise!Next, Promise!Modules, Modules

LEMMA CallKeepsPromise ==
    ASSUME CInv, CallLoader \/ LoadFails \/ StopTask \/ UnwindingEnds \/ AllStopped
                 \/ CallUnloader \/ TearDown
    PROVE  PromiseStep
<1>1. Within
  BY DEF CallLoader, LoadFails, StopTask, UnwindingEnds, AllStopped, CallUnloader,
         TearDown, At
<1>2. Here \in CallType
  BY <1>1, InCall
<1>3. CASE CallLoader
  <2>1. PICK c : c = [Here EXCEPT !.at = "loader"]
    OBVIOUS
  <2>2. c.loaded = Here.loaded /\ c.at = "loader" /\ Here.at = "loop" /\ Continue(c)
    BY <1>2, <1>3, <2>1 DEF CallLoader, At, CallType
  <2> QED
    BY <1>1, <2>2, QuietStep DEF IsRaising
<1>4. CASE LoadFails
  <2>1. PICK c : c = [Here EXCEPT !.at = "stopping"]
    OBVIOUS
  <2>2. c.loaded = Here.loaded /\ c.at = "stopping" /\ Here.at = "loop" /\ Continue(c)
    BY <1>2, <1>4, <2>1 DEF LoadFails, At, CallType
  <2> QED
    BY <1>1, <2>2, LowerStep DEF IsRaising
<1>5. CASE StopTask
  <2>1. PICK m \in Modules :
          Continue([Here EXCEPT !.at = "unwinding", !.tasks[m] = "cancelled"])
    BY <1>5 DEF StopTask
  <2>2. PICK c : c = [Here EXCEPT !.at = "unwinding", !.tasks[m] = "cancelled"]
    OBVIOUS
  <2>3. c.loaded = Here.loaded /\ c.at = "unwinding" /\ Here.at = "stopping" /\ Continue(c)
    BY <1>2, <1>5, <2>1, <2>2 DEF StopTask, At, CallType
  <2> QED
    BY <1>1, <2>3, QuietStep DEF IsRaising
<1>6. CASE UnwindingEnds
  <2>1. PICK c : c = [Here EXCEPT !.at = "stopping"]
    OBVIOUS
  <2>2. c.loaded = Here.loaded /\ c.at = "stopping" /\ Here.at = "unwinding" /\ Continue(c)
    BY <1>2, <1>6, <2>1 DEF UnwindingEnds, At, CallType
  <2> QED
    BY <1>1, <2>2, QuietStep DEF IsRaising
<1>7. CASE AllStopped
  <2>1. PICK c : c = [Here EXCEPT !.at = "walk"]
    OBVIOUS
  <2>2. c.loaded = Here.loaded /\ c.at = "walk" /\ Here.at = "stopping" /\ Continue(c)
    BY <1>2, <1>7, <2>1 DEF AllStopped, At, CallType
  <2> QED
    BY <1>1, <2>2, QuietStep DEF IsRaising
<1>8. CASE CallUnloader
  <2>1. PICK c : c = [Here EXCEPT !.at = "unloader"]
    OBVIOUS
  <2>2. c.loaded = Here.loaded /\ c.at = "unloader" /\ Here.at = "walk" /\ Continue(c)
    BY <1>2, <1>8, <2>1 DEF CallUnloader, At, CallType
  <2> QED
    BY <1>1, <2>2, QuietStep DEF IsRaising
<1>9. CASE TearDown
  <2>1. PICK c : c = [Here EXCEPT !.at = "teardown"]
    OBVIOUS
  <2>2. c.loaded = Here.loaded /\ c.at = "teardown" /\ Here.at = "walk" /\ Continue(c)
    BY <1>2, <1>9, <2>1 DEF TearDown, At, CallType
  <2> QED
    BY <1>1, <2>2, QuietStep DEF IsRaising
<1> QED
  BY <1>3, <1>4, <1>5, <1>6, <1>7, <1>8, <1>9

\* A module is loaded, or its loader waits, or it failed and the core comes down.
LEMMA LoaderKeepsPromise ==
    ASSUME CInv, NEW o \in Outcomes, LoaderReturns(o)
    PROVE  PromiseStep
<1>1. Within /\ Here.at = "loader" /\ Here \in CallType
  BY InCall DEF LoaderReturns, At
<1>2. PICK c : c = [Here EXCEPT
         !.at = IF o = "throws" THEN "stopping" ELSE "loop",
         !.next = @ + 1,
         !.tasks[Here.next] = o,
         !.loaded = IF o = "loaded" THEN <<Here.next>> \o @ ELSE @]
  OBVIOUS
<1>3. Continue(c)
  BY <1>2 DEF LoaderReturns
<1>4. /\ c.at = IF o = "throws" THEN "stopping" ELSE "loop"
      /\ c.loaded = IF o = "loaded" THEN <<Here.next>> \o Here.loaded ELSE Here.loaded
  BY <1>1, <1>2 DEF CallType
<1>5. CASE o = "loaded"
  <2>1. Here.next \in Modules /\ Here.next \notin Listed(Here.loaded)
    BY <1>1, NextIsNew DEF At
  <2> QED
    BY <1>1, <1>3, <1>4, <1>5, <2>1, LoadStep DEF IsRaising
<1>6. CASE o = "throws"
  BY <1>1, <1>3, <1>4, <1>6, LowerStep DEF IsRaising
<1>7. CASE o = "pending"
  BY <1>1, <1>3, <1>4, <1>7, QuietStep DEF IsRaising
<1> QED
  BY <1>5, <1>6, <1>7 DEF Outcomes

LEMMA TaskKeepsPromise ==
    ASSUME CInv, Cascade = FALSE, NEW k \in 1..Len(calls), NEW m \in Modules,
           NEW o \in {"loaded", "failed", "cancelled"}, TaskEnds(k, m, o)
    PROVE  PromiseStep
<1>1. Within /\ Here.at \in {"loader", "unwinding"}
      /\ (o = "loaded" => Here.at = "loader" /\ m \notin Listed(Here.loaded))
  BY PendingEnds
<1>2. Here \in CallType
  BY <1>1, InCall
<1>3. PICK c : c = [Here EXCEPT
         !.tasks[m] = o,
         !.loaded = IF o = "loaded" THEN <<m>> \o @ ELSE @]
  OBVIOUS
<1>4. Continue(c)
  BY <1>3, PendingEnds
<1>5. /\ c.at = Here.at
      /\ c.loaded = IF o = "loaded" THEN <<m>> \o Here.loaded ELSE Here.loaded
  BY <1>2, <1>3 DEF CallType
<1>6. CASE o = "loaded"
  BY <1>1, <1>4, <1>5, <1>6, LoadStep DEF IsRaising
<1>7. CASE o # "loaded"
  BY <1>1, <1>4, <1>5, <1>7, QuietStep DEF IsRaising
<1> QED
  BY <1>6, <1>7

LEMMA UnloaderKeepsPromise ==
    ASSUME CInv, NEW throws \in BOOLEAN, UnloaderReturns(throws)
    PROVE  PromiseStep
<1>1. Within /\ Here.at = "unloader" /\ Here \in CallType /\ Here.loaded # <<>>
  BY InCall DEF UnloaderReturns, At, CallInv, Lowering
<1>2. PICK c : c = [Here EXCEPT !.at = "walk", !.loaded = Tail(@), !.failed = @ \/ throws]
  OBVIOUS
<1>3. Continue(c) /\ c.at = "walk" /\ c.loaded = Tail(Here.loaded)
  BY <1>1, <1>2 DEF UnloaderReturns, CallType
<1>4. Promise!Unload
  BY <1>1, <1>3, ModeOfCall DEF IsRaising, Up, Promise!Unload
<1> QED
  BY <1>4 DEF PromiseStep, Promise!Next

\* The last step of a call.
LEMMA ReturnKeepsPromise ==
    ASSUME CInv, LoadSucceeds \/ TeardownEnds
    PROVE  PromiseStep
<1>1. Within /\ Here \in CallType /\ CallInv(Here) /\ ~Within' /\ container' = container
  BY InCall, Returned DEF LoadSucceeds, TeardownEnds, At
<1>2. Mode = (IF IsRaising(Here) THEN "raising" ELSE "lowering") /\ Up = Here.loaded
      /\ Mode' = (IF container THEN "up" ELSE "down") /\ Up' = loaded'
  BY <1>1 DEF Mode, Up, IsRaising
<1>3. CASE LoadSucceeds
  <2>1. IsRaising(Here) /\ container /\ loaded' = Here.loaded
    BY <1>1, <1>3 DEF LoadSucceeds, At, IsRaising, CallInv
  <2>2. Promise!Arrive
    BY <1>2, <2>1 DEF Up, Promise!Arrive
  <2> QED
    BY <2>2 DEF PromiseStep, Promise!Next
<1>4. CASE TeardownEnds
  <2>1. ~IsRaising(Here) /\ ~container /\ Here.loaded = <<>> /\ loaded' = <<>>
    BY <1>1, <1>4 DEF TeardownEnds, At, IsRaising, CallInv, Lowering, CInv
  <2>2. Promise!Rest
    BY <1>2, <2>1 DEF Up, Promise!Rest
  <2> QED
    BY <2>2 DEF PromiseStep, Promise!Next
<1> QED
  BY <1>3, <1>4

\* The first step of a call.
LEMMA BeginningKeepsPromise ==
    ASSUME CInv, ~Within, Load \/ Unload
    PROVE  PromiseStep
<1>1. Mode = (IF container THEN "up" ELSE "down") /\ Up = loaded
  BY DEF Mode, Up
<1>2. ASSUME NEW c \in CallType, calls' = <<c>> \o calls
      PROVE  /\ Mode' = IF IsRaising(c) THEN "raising" ELSE "lowering"
             /\ Up' = c.loaded
  <2>1. Within' /\ Here' = c
    BY <1>2, CallBegins
  <2> QED
    BY <2>1 DEF Mode, Up, IsRaising
<1>3. CASE Load
  <2>1. PICK c \in CallType : calls' = <<c>> \o calls /\ c.at = "loop" /\ c.loaded = <<>>
    BY <1>3, LoadBegins
  <2>2. ~container /\ loaded = <<>>
    BY <1>3 DEF Load, CInv, RestInv
  <2>3. Mode' = "raising" /\ Up' = <<>>
    BY <1>2, <2>1 DEF IsRaising
  <2>4. Promise!Raise
    BY <1>1, <2>2, <2>3 DEF Up, Promise!Raise
  <2> QED
    BY <2>4 DEF PromiseStep, Promise!Next
<1>4. CASE Unload
  <2>1. PICK c \in CallType : calls' = <<c>> \o calls /\ c.at = "walk" /\ c.loaded = loaded
    BY <1>4, UnloadBegins
  <2>2. container
    BY <1>4 DEF Unload
  <2>3. Mode' = "lowering" /\ Up' = loaded
    BY <1>2, <2>1 DEF IsRaising
  <2>4. Promise!Lower
    BY <1>1, <2>2, <2>3 DEF Up, Promise!Lower
  <2> QED
    BY <2>4 DEF PromiseStep, Promise!Next
<1> QED
  BY <1>3, <1>4

LEMMA StepKeepsPromise ==
    ASSUME CInv, Cascade = FALSE, [Next]_vars, Load \/ Unload => ~Within
    PROVE  PromiseStep
<1>1. CASE Inject \/ Invalidate \/ Refusing \/ UNCHANGED vars
  <2>1. UNCHANGED <<calls, container, loaded>>
    BY <1>1 DEF Inject, Invalidate, Refusing, vars
  <2> QED
    BY <2>1 DEF PromiseStep, Mode, Up, Within, Here
<1>2. CASE Load \/ Unload
  BY <1>2, BeginningKeepsPromise
<1>3. CASE Library
  BY <1>3, CallKeepsPromise, ReturnKeepsPromise DEF Library
<1>4. CASE Callback
  BY <1>4, CallKeepsPromise, LoaderKeepsPromise, UnloaderKeepsPromise, ReturnKeepsPromise
  DEF Callback
<1>5. CASE Completion
  BY <1>5, TaskKeepsPromise DEF Completion
<1> QED
  BY <1>1, <1>2, <1>3, <1>4, <1>5 DEF Next, Client

----------------------------------------------------------------------------
(* The theorems.                                                            *)

LEMMA CallsAlone ==
    ASSUME CInv, MaxDepth = 1, Load \/ Unload
    PROVE  ~Within
<1>1. Len(calls) < 1 /\ Len(calls) \in Nat
  BY LenProperties DEF Load, Unload, CInv, Types
<1> QED
  BY <1>1 DEF Within

LEMMA CInvariance ==
    ASSUME MaxDepth = 1, Cascade = FALSE
    PROVE  Spec => []CInv
<1>1. CInv => (Load \/ Unload => ~Within)
  BY CallsAlone
<1>2. CInv /\ [Next]_vars => CInv'
  BY <1>1, CNextInv
<1> QED
  BY <1>2, CInitInv, PTL DEF Spec

\* Types, of the calls on the stack and what they hold too.
THEOREM CoreTyping ==
    ASSUME MaxDepth = 1, Cascade = FALSE
    PROVE  Spec => []TypeOK
  BY CInvariance, CInvTypeOK, PTL

\* The core calls no loader and no unloader of a module it has let go.
THEOREM NoModuleDangles ==
    ASSUME MaxDepth = 1, Cascade = FALSE
    PROVE  Spec => []ModulesExist
  BY CInvariance, CInvModulesExist, PTL

\* Between two calls the core is up with every module, each of them once, or
\* down with none, for any number of modules and however they load and fail.
THEOREM AllModulesOrNone ==
    ASSUME MaxDepth = 1, Cascade = FALSE
    PROVE  Spec => []AllOrNothing
  BY CInvariance, CInvAllOrNothing, PTL

\* All of them or none, the last one loaded unloaded first, each once.
THEOREM CoreKeepsPromise ==
    ASSUME MaxDepth = 1, Cascade = FALSE
    PROVE  Spec => ImplementsPromise
<1>1. Init => Promise!Init
  <2> SUFFICES ASSUME Init PROVE Promise!Init
    OBVIOUS
  <2>1. ~Within /\ ~container /\ loaded = <<>>
    BY CInitInv DEF Init, Within
  <2> QED
    BY <2>1 DEF Promise!Init, Mode
<1>2. CInv /\ [Next]_vars => [Promise!Next]_<<Mode, Up>>
  BY CallsAlone, StepKeepsPromise DEF PromiseStep
<1> QED
  BY <1>1, <1>2, CInvariance, PTL DEF Spec, ImplementsPromise, Promise!Spec, Up

----------------------------------------------------------------------------
(* The entry points.                                                        *)

EntryTypes ==
    /\ engine \in BOOLEAN
    /\ utilities \in BOOLEAN
    /\ globals \in BOOLEAN
    /\ game \in BOOLEAN
    /\ entry \in {"none", "attach", "detach"}
    /\ threw \in BOOLEAN
    /\ answer \in {"none", "attached", "not attached", "detached", "not detached"}

\* Which call of the core an entry point has made, and what it has left behind.
EntryInv ==
    /\ entry = "none" => ~Within
    /\ Within => Here.op = IF entry = "attach" THEN "load" ELSE "unload"
    /\ ~Within /\ entry = "attach" /\ ~threw => container
    /\ ~Within /\ entry = "detach" => ~container

AnswerInv ==
    entry = "none" =>
        /\ answer = "attached" => container
        /\ answer \in {"detached", "not detached"} => ~container /\ ~globals /\ ~game

PInv == CInv /\ EntryTypes /\ EntryInv /\ TablesServeCore /\ AnswerInv

LEMMA NoCallAtFirst == Init => ~Within
<1>1. Init => Len(calls) = 0
  BY DEF Init
<1>2. \A n \in Nat : n = 0 => ~(n > 0)
  OBVIOUS
<1> QED
  BY <1>1, <1>2 DEF Within

LEMMA PInitInv == PInit => PInv
<1> SUFFICES ASSUME PInit PROVE PInv
  OBVIOUS
<1>1. CInv /\ ~Within /\ ~container
  BY CInitInv, NoCallAtFirst DEF PInit, Init
<1>2. EntryTypes
  BY DEF PInit, EntryTypes
<1>3. EntryInv /\ TablesServeCore /\ AnswerInv
  BY <1>1 DEF PInit, EntryInv, TablesServeCore, AnswerInv
<1> QED
  BY <1>1, <1>2, <1>3 DEF PInv

\* Only an idle plugin loads or unloads the core.
LEMMA PluginKeepsCore ==
    ASSUME PInv, Cascade = FALSE, [PNext]_allVars
    PROVE  CInv'
<1>1. [Next]_vars
  BY DEF PNext, GiveFnptrsToDll, Query, Attach, AttachReturns, Detach, DetachReturns,
         CallEnds, CoreRuns, allVars, Next, Client, Library, Callback
<1>2. CASE Idle
  BY <1>1, <1>2, CNextInv DEF PInv, Idle
<1>3. CASE AttachReturns \/ DetachReturns \/ UNCHANGED allVars
  <2>1. UNCHANGED vars
    BY <1>3 DEF AttachReturns, DetachReturns, allVars
  <2> QED
    BY <2>1, CStutterInv DEF PInv
<1>4. CASE CallEnds
  BY <1>4, LoadSucceedsInv, TeardownEndsInv DEF CallEnds, PInv
<1>5. CASE CoreRuns
  BY <1>5, InjectInv, InvalidateInv, CallLoaderInv, LoadFailsInv, StopTaskInv,
     AllStoppedInv, CallUnloaderInv, TearDownInv, LoaderReturnsInv, UnwindingEndsInv,
     UnloaderReturnsInv, TaskEndsInv
  DEF CoreRuns, Completion, PInv
<1> QED
  BY <1>2, <1>3, <1>4, <1>5
  DEF PNext, GiveFnptrsToDll, Query, Attach, Detach

LEMMA TypesStay ==
    ASSUME EntryTypes, [PNext]_allVars
    PROVE  EntryTypes'
<1>1. CASE GiveFnptrsToDll \/ Query
  BY <1>1 DEF GiveFnptrsToDll, Query, EntryTypes
<1>2. CASE Attach \/ AttachReturns
  BY <1>2 DEF Attach, AttachReturns, api, EntryTypes
<1>3. CASE Detach \/ DetachReturns
  BY <1>3 DEF Detach, DetachReturns, api, EntryTypes
<1>4. CASE CallEnds
  BY <1>4 DEF CallEnds, api, EntryTypes
<1>5. CASE CoreRuns \/ UNCHANGED allVars
  BY <1>5 DEF CoreRuns, allVars, pvars, api, EntryTypes
<1> QED
  BY <1>1, <1>2, <1>3, <1>4, <1>5 DEF PNext

----------------------------------------------------------------------------
(* The entry points.                                                        *)

EntriesAgree == EntryInv /\ TablesServeCore /\ AnswerInv

LEMMA TablesArriveAgree ==
    ASSUME PInv, GiveFnptrsToDll \/ Query
    PROVE  EntriesAgree'
<1>1. Within' = Within /\ Here' = Here /\ container' = container
      /\ (engine => engine') /\ UNCHANGED <<globals, game, entry, threw, answer>>
  BY DEF GiveFnptrsToDll, Query, vars, Within, Here
<1> QED
  BY <1>1 DEF PInv, EntriesAgree, EntryInv, TablesServeCore, AnswerInv

LEMMA AttachAgrees ==
    ASSUME PInv, Attach
    PROVE  EntriesAgree'
<1>1. ~Within /\ engine' /\ globals' /\ game' /\ entry' = "attach" /\ CInv
  BY DEF Attach, Idle, PInv
<1>2. CASE bad \/ container
  <2>1. threw' /\ ~Within'
    BY <1>1, <1>2 DEF Attach, vars, Within
  <2> QED
    BY <1>1, <2>1 DEF EntriesAgree, EntryInv, TablesServeCore, AnswerInv
<1>3. CASE ~(bad \/ container)
  <2>1. Load
    BY <1>3 DEF Attach
  <2>2. PICK c \in CallType : calls' = <<c>> \o calls /\ c.op = "load"
    BY <1>1, <2>1, LoadBegins
  <2>3. Within' /\ Here'.op = "load"
    BY <1>1, <2>2, CallBegins
  <2> QED
    BY <1>1, <2>3 DEF EntriesAgree, EntryInv, TablesServeCore, AnswerInv
<1> QED
  BY <1>2, <1>3

LEMMA DetachAgrees ==
    ASSUME PInv, Detach
    PROVE  EntriesAgree'
<1>1. ~Within /\ UNCHANGED api /\ entry' = "detach" /\ CInv /\ TablesServeCore
  BY DEF Detach, Idle, PInv
<1>2. CASE container
  <2>1. Unload
    BY <1>2 DEF Detach
  <2>2. PICK c \in CallType : calls' = <<c>> \o calls /\ c.op = "unload"
    BY <1>1, <2>1, UnloadBegins
  <2>3. Within' /\ Here'.op = "unload"
    BY <1>1, <2>2, CallBegins
  <2> QED
    BY <1>1, <1>2, <2>3 DEF EntriesAgree, EntryInv, TablesServeCore, AnswerInv, api
<1>3. CASE ~container
  <2>1. ~Within' /\ ~container'
    BY <1>1, <1>3 DEF Detach, vars, Within
  <2> QED
    BY <1>1, <2>1 DEF EntriesAgree, EntryInv, TablesServeCore, AnswerInv
<1> QED
  BY <1>2, <1>3

LEMMA AnswersAgree ==
    ASSUME PInv, AttachReturns \/ DetachReturns
    PROVE  EntriesAgree'
<1>1. ~Within /\ ~Within' /\ container' = container /\ entry' = "none"
  BY DEF AttachReturns, DetachReturns, vars, Within
<1>2. CASE AttachReturns
  <2>1. UNCHANGED api /\ entry = "attach"
        /\ answer' = IF threw THEN "not attached" ELSE "attached"
    BY <1>2 DEF AttachReturns
  <2> QED
    BY <1>1, <2>1
    DEF PInv, EntriesAgree, EntryInv, TablesServeCore, AnswerInv, api
<1>3. CASE DetachReturns
  <2>1. ~globals' /\ ~game' /\ entry = "detach"
        /\ answer' = IF threw THEN "not detached" ELSE "detached"
    BY <1>3 DEF DetachReturns
  <2> QED
    BY <1>1, <2>1 DEF PInv, EntriesAgree, EntryInv, TablesServeCore, AnswerInv
<1> QED
  BY <1>2, <1>3

----------------------------------------------------------------------------
(* The core.                                                                *)

\* A load that comes down throws; one that returns leaves the core up.
LEMMA CallEndsAgree ==
    ASSUME PInv, CallEnds
    PROVE  EntriesAgree'
<1>1. Within /\ CInv /\ entry # "none" /\ engine /\ globals /\ game
      /\ Here.op = (IF entry = "attach" THEN "load" ELSE "unload")
  BY DEF CallEnds, LoadSucceeds, TeardownEnds, At, PInv, EntryInv, TablesServeCore
<1>2. CallInv(Here) /\ ~Within' /\ container' = container
      /\ UNCHANGED <<engine, globals, game, entry>>
  BY <1>1, InCall, Returned DEF CallEnds, LoadSucceeds, TeardownEnds, api
<1>3. CASE LoadSucceeds
  <2>1. Here.at = "loop" /\ Here.op = "load" /\ container
    BY <1>2, <1>3 DEF LoadSucceeds, At, CallInv, Raising
  <2> QED
    BY <1>1, <1>2, <2>1 DEF EntriesAgree, EntryInv, TablesServeCore, AnswerInv
<1>4. CASE TeardownEnds
  <2>1. Here.at = "teardown" /\ ~container
    BY <1>2, <1>4 DEF TeardownEnds, At, CallInv
  <2>2. entry = "attach" => threw'
    BY <1>1, <2>1 DEF CallEnds
  <2> QED
    BY <1>1, <1>2, <2>1, <2>2 DEF EntriesAgree, EntryInv, TablesServeCore, AnswerInv
<1> QED
  BY <1>3, <1>4 DEF CallEnds

\* Other steps of the core leave its call on the stack.
LEMMA SameCall ==
    ASSUME CInv, NEW c, Continue(c), Within, c.op = Here.op
    PROVE  Within' /\ Here'.op = Here.op
  BY NowHere

LEMMA CallStays ==
    ASSUME CInv, Cascade = FALSE, CoreRuns, ~(Inject \/ Invalidate)
    PROVE  Within /\ Within' /\ Here'.op = Here.op
<1>1. CASE CallLoader \/ LoadFails \/ AllStopped \/ CallUnloader \/ TearDown \/ UnwindingEnds
  <2>1. Within /\ Here \in CallType
    BY <1>1, InCall DEF CallLoader, LoadFails, AllStopped, CallUnloader, TearDown,
                        UnwindingEnds, At
  <2>2. PICK where : Continue([Here EXCEPT !.at = where])
    BY <1>1 DEF CallLoader, LoadFails, AllStopped, CallUnloader, TearDown, UnwindingEnds
  <2>3. [Here EXCEPT !.at = where].op = Here.op
    BY <2>1 DEF CallType
  <2> QED
    BY <2>1, <2>2, <2>3, SameCall
<1>2. CASE StopTask
  <2>1. Within /\ Here \in CallType
    BY <1>2, InCall DEF StopTask, At
  <2>2. PICK m : Continue([Here EXCEPT !.at = "unwinding", !.tasks[m] = "cancelled"])
    BY <1>2 DEF StopTask
  <2>3. [Here EXCEPT !.at = "unwinding", !.tasks[m] = "cancelled"].op = Here.op
    BY <2>1 DEF CallType
  <2> QED
    BY <2>1, <2>2, <2>3, SameCall
<1>3. ASSUME NEW o \in Outcomes, LoaderReturns(o)
      PROVE  Within /\ Within' /\ Here'.op = Here.op
  <2>1. Within /\ Here \in CallType
    BY <1>3, InCall DEF LoaderReturns, At
  <2>2. PICK c : c = [Here EXCEPT
         !.at = IF o = "throws" THEN "stopping" ELSE "loop",
         !.next = @ + 1,
         !.tasks[Here.next] = o,
         !.loaded = IF o = "loaded" THEN <<Here.next>> \o @ ELSE @]
    OBVIOUS
  <2>3. Continue(c) /\ c.op = Here.op
    BY <1>3, <2>1, <2>2 DEF LoaderReturns, CallType
  <2> QED
    BY <2>1, <2>3, SameCall
<1>4. ASSUME NEW throws \in BOOLEAN, UnloaderReturns(throws)
      PROVE  Within /\ Within' /\ Here'.op = Here.op
  <2>1. Within /\ Here \in CallType
    BY <1>4, InCall DEF UnloaderReturns, At
  <2>2. PICK c : c = [Here EXCEPT !.at = "walk", !.loaded = Tail(@), !.failed = @ \/ throws]
    OBVIOUS
  <2>3. Continue(c) /\ c.op = Here.op
    BY <1>4, <2>1, <2>2 DEF UnloaderReturns, CallType
  <2> QED
    BY <2>1, <2>3, SameCall
<1>5. ASSUME NEW k \in 1..Len(calls), NEW m \in Modules,
             NEW o \in {"loaded", "failed", "cancelled"}, TaskEnds(k, m, o)
      PROVE  Within /\ Within' /\ Here'.op = Here.op
  <2>1. Within /\ Here \in CallType
    BY <1>5, PendingEnds, InCall
  <2>2. PICK c : c = [Here EXCEPT
         !.tasks[m] = o,
         !.loaded = IF o = "loaded" THEN <<m>> \o @ ELSE @]
    OBVIOUS
  <2>3. Continue(c)
    BY <1>5, <2>2, PendingEnds
  <2>4. c.op = Here.op
    BY <2>1, <2>2 DEF CallType
  <2> QED
    BY <2>1, <2>3, <2>4, SameCall
<1> QED
  BY <1>1, <1>2, <1>3, <1>4, <1>5 DEF CoreRuns, Completion

LEMMA CoreRunsAgrees ==
    ASSUME PInv, Cascade = FALSE, CoreRuns
    PROVE  EntriesAgree'
<1>1. UNCHANGED pvars /\ CInv
  BY DEF CoreRuns, PInv
<1>2. CASE Inject \/ Invalidate
  <2>1. Within' = Within /\ Here' = Here /\ container' = container
    BY <1>2 DEF Inject, Invalidate, Within, Here
  <2> QED
    BY <1>1, <2>1
    DEF PInv, EntriesAgree, EntryInv, TablesServeCore, AnswerInv, pvars, api
<1>3. CASE ~(Inject \/ Invalidate)
  <2>1. Within /\ Within' /\ Here'.op = Here.op
    BY <1>1, <1>3, CallStays
  <2> QED
    BY <1>1, <2>1
    DEF PInv, EntriesAgree, EntryInv, TablesServeCore, AnswerInv, pvars, api
<1> QED
  BY <1>2, <1>3

----------------------------------------------------------------------------
(* The theorems.                                                            *)

LEMMA PNextInv ==
    ASSUME PInv, Cascade = FALSE, [PNext]_allVars
    PROVE  PInv'
<1>1. CInv' /\ EntryTypes'
  BY PluginKeepsCore, TypesStay DEF PInv
<1>2. EntriesAgree'
  <2>1. CASE UNCHANGED allVars
    BY <2>1 DEF PInv, EntriesAgree, EntryInv, TablesServeCore, AnswerInv, allVars, vars,
                pvars, api, Within, Here
  <2> QED
    BY <2>1, TablesArriveAgree, AttachAgrees, DetachAgrees, AnswersAgree, CallEndsAgree,
       CoreRunsAgrees
    DEF PNext
<1> QED
  BY <1>1, <1>2 DEF PInv, EntriesAgree

LEMMA PInvariance ==
    ASSUME Cascade = FALSE
    PROVE  PSpec => []PInv
  BY PInitInv, PNextInv, PTL DEF PSpec

\* The core never runs, comes up or goes down without the tables of the engine,
\* of the game and of Metamod.
THEOREM TablesAreThere ==
    ASSUME Cascade = FALSE
    PROVE  PSpec => []TablesServeCore
<1>1. PInv => TablesServeCore
  BY DEF PInv
<1> QED
  BY <1>1, PInvariance, PTL

\* After "attached" the core is up with every module, after Meta_Detach it is
\* down and no table is kept, until the next call.
THEOREM AnswersAreTrue ==
    ASSUME Cascade = FALSE
    PROVE  PSpec => []AnswersHold
<1>1. PInv => AnswersHold
  BY CInvAllOrNothing DEF PInv, EntryInv, AnswerInv, AnswersHold, AllOrNothing
<1> QED
  BY <1>1, PInvariance, PTL

\* Metamod and the modules are never told what is not so: both of the above.
THEOREM EntriesAreTrue ==
    ASSUME Cascade = FALSE
    PROVE  PSpec => []EntryPointsAreTrue
  BY TablesAreThere, AnswersAreTrue, PTL DEF EntryPointsAreTrue
=============================================================================
