---------------------------- MODULE KconfigProofs ----------------------------
(***************************************************************************)
(* Proofs about the Kconfig tools.                                         *)
(*                                                                         *)
(* The search for dependency loops, for every Kconfig file and every order *)
(* in which sets are iterated: what is accepted has no loop that the       *)
(* search follows, and what is reported is a loop.  Items that were left   *)
(* (black) are followed by black ones alone, but for one moment: a choice  *)
(* that was entered from one of its symbols is black before that symbol    *)
(* is.  That the symbol closes no loop then needs what was black before    *)
(* its choice was entered.                                                 *)
(*                                                                         *)
(* The utility, setconfig and the build, for whatever kconfiglib computes, *)
(* and for any number of runs: one crash loses no configuration, no build  *)
(* misses a change, and the exported values are the saved ones.            *)
(*                                                                         *)
(* The list of nodes in menuconfig, and the list of matches in its dialog, *)
(* for any list and any size of the screen: the selected entry stays on    *)
(* the screen.  In a whole session of menuconfig, for whatever kconfiglib  *)
(* computes: what is displayed is what the values call for, and what was   *)
(* not saved is not lost.                                                  *)
(***************************************************************************)
EXTENDS KSearch, KUtility, KMenu, SequenceTheorems, WellFoundedInduction, TLAPS

Black(v) == {i \in DOMAIN v : v[i] = 2}
ClosedUnder(x, D) == \A i \in D : Followed(x, i) \subseteq D

\* A choice is entered from one of its symbols, or from elsewhere.
EnteredFrom(x) == DOMAIN x.syms \cup {""}
Frame(x) == [item : ItemsOf(x), todo : SUBSET ItemsOf(x), choice : DOMAIN x.choices \cup {""},
             syms : Seq(DOMAIN x.syms), skip : EnteredFrom(x)]

TypeOK ==
    /\ Whole(w)
    /\ visited \in [ItemsOf(w) -> 0..2]
    /\ stack \in Seq(Frame(w))
    /\ next \in 1..(Len(w.order) + 1)
    /\ verdict \in {"search", "accepted", "loop"}

\* A call on a choice has symbols of it to walk, and one on a symbol its dependents
\* and its choice.
ToWalk(f) == {f.syms[i] : i \in 1..Len(f.syms)}
Fits(x, f) ==
    IF IsChoiceOf(x, f.item) THEN f.todo = {} /\ f.choice = "" /\ ToWalk(f) \subseteq SymsOf(x, f.item)
    ELSE /\ f.syms = <<>> /\ f.choice \in {"", x.syms[f.item].choice}
         /\ f.todo \subseteq x.dependents[f.item]

FramesFit == \A k \in 1..Len(stack) : Fits(w, stack[k])

StackIsAPath == \A k \in 1..(Len(stack) - 1) : Leads(w, stack[k].item, stack[k + 1].item)

\* The items on the stack are the gray ones, each of them once.
GrayIsOnStack ==
    /\ \A i \in ItemsOf(w) : visited[i] = 1 <=> \E k \in 1..Len(stack) : stack[k].item = i
    /\ \A j, k \in 1..Len(stack) : stack[j].item = stack[k].item => j = k

\* With the items in B black, a call has walked what it has taken off its lists, but
\* for those in E: the symbols of a choice are black, and the dependents of a symbol
\* are in a set of black items that are only followed by items in that set.
Walked(x, B, f, E) ==
    IF IsChoiceOf(x, f.item) THEN SymsOf(x, f.item) \ (ToWalk(f) \cup E \cup {f.skip}) \subseteq B
    ELSE \E D \in SUBSET B : ClosedUnder(x, D) /\ x.dependents[f.item] \ (f.todo \cup E) \subseteq D

\* f has called g: on a dependent, on the choice of its symbol, or on a symbol of
\* its choice.
Calls(x, B, f, g) ==
    \/ ~IsChoiceOf(x, f.item) /\ g.skip = "" /\ Walked(x, B, f, {g.item})
    \/ /\ ~IsChoiceOf(x, f.item) /\ f.todo = {} /\ f.choice = "" /\ Walked(x, B, f, {})
       /\ IsChoiceOf(x, g.item) /\ g.skip = f.item
    \/ IsChoiceOf(x, f.item) /\ ~IsChoiceOf(x, g.item) /\ Walked(x, B, f, {g.item})

StackIsWalked ==
    /\ \A k \in 1..(Len(stack) - 1) : Calls(w, Black(visited), stack[k], stack[k + 1])
    /\ stack # <<>> => stack[1].skip = "" /\ Walked(w, Black(visited), TopCall, {})

\* A symbol that is about to be left may follow its choice.
AboutToLeave(x, f) == ~IsChoiceOf(x, f.item) /\ f.todo = {} /\ f.choice = ""
BlackIsClosed ==
    \/ ClosedUnder(w, Black(visited))
    \/ /\ stack # <<>> /\ AboutToLeave(w, TopCall)
       /\ \A i \in Black(visited) : Followed(w, i) \subseteq Black(visited) \cup {TopCall.item}

NoLoopIn(x, B) == \A S \in SUBSET B : Circular(x, S) => S = {}

StartedAreVisited == \A j \in 1..(next - 1) : visited[w.order[j]] # 0

Sound ==
    /\ GrayIsOnStack
    /\ StackIsWalked
    /\ BlackIsClosed
    /\ NoLoopIn(w, Black(visited))
    /\ StartedAreVisited

Inv ==
    /\ TypeOK
    /\ FramesFit
    /\ StackIsAPath
    /\ verdict # "loop" => Sound
    /\ verdict = "accepted" => stack = <<>> /\ next > Len(w.order)
    /\ verdict = "loop" =>
          \E k \in 1..(Len(stack) - 1) : stack[k].item = stack[Len(stack)].item

----------------------------------------------------------------------------
(* Sequences and sets.                                                      *)

\* A sequence whose last element is replaced.
LEMMA Replaced ==
    ASSUME NEW F, NEW s \in Seq(F), s # <<>>, NEW f \in F,
           NEW t, t = [s EXCEPT ![Len(s)] = f]
    PROVE  /\ t \in Seq(F) /\ t # <<>> /\ Len(t) = Len(s) /\ t[Len(s)] = f
           /\ \A k \in 1..(Len(s) - 1) : t[k] = s[k]
OBVIOUS

\* A sequence with one element more.
LEMMA Extended ==
    ASSUME NEW F, NEW s \in Seq(F), NEW g \in F, NEW t, t = Append(s, g)
    PROVE  /\ t \in Seq(F) /\ t # <<>> /\ Len(t) = Len(s) + 1 /\ t[Len(t)] = g
           /\ \A k \in 1..Len(s) : t[k] = s[k]
OBVIOUS

\* A sequence without its last element.
LEMMA Shortened ==
    ASSUME NEW F, NEW s \in Seq(F), s # <<>>, NEW t, t = SubSeq(s, 1, Len(s) - 1)
    PROVE  /\ t \in Seq(F) /\ Len(t) = Len(s) - 1
           /\ \A k \in 1..Len(t) : t[k] = s[k]
<1> DEFINE m == Len(s) - 1
<1>1. m \in Nat /\ \A k \in 1..m : s[k] \in F
  OBVIOUS
<1> HIDE DEF m
<1>2. /\ SubSeq(s, 1, m) \in Seq(F)
      /\ Len(SubSeq(s, 1, m)) = IF 1 <= m THEN m - 1 + 1 ELSE 0
      /\ \A i \in 1..(m - 1 + 1) : SubSeq(s, 1, m)[i] = s[1 + i - 1]
  BY <1>1, SubSeqProperties
<1>3. t = SubSeq(s, 1, m)
  BY DEF m
<1>4. t \in Seq(F) /\ Len(t) = m /\ \A k \in 1..m : t[k] = s[k]
  BY <1>1, <1>2, <1>3
<1> QED
  BY <1>4 DEF m

\* What was walked stays walked when more is black.
LEMMA WalkedStays ==
    ASSUME NEW x, NEW A, NEW B, A \subseteq B, NEW f, NEW E, Walked(x, A, f, E)
    PROVE  Walked(x, B, f, E)
BY DEF Walked

LEMMA CallsStay ==
    ASSUME NEW x, NEW A, NEW B, A \subseteq B, NEW f, NEW g, Calls(x, A, f, g)
    PROVE  Calls(x, B, f, g)
BY WalkedStays DEF Calls

\* Whom a call has called does not matter but for its item and what it skips.
LEMMA CallsOf ==
    ASSUME NEW x, NEW B, NEW f, NEW g, NEW h, g.item = h.item, g.skip = h.skip
    PROVE  Calls(x, B, f, g) <=> Calls(x, B, f, h)
BY DEF Calls

----------------------------------------------------------------------------
(* The search returns to a call, and calls.                                 *)

\* The invariant, as far as it speaks of the stack.
LEMMA StackFacts ==
    ASSUME Inv, verdict # "loop"
    PROVE  /\ Whole(w) /\ visited \in [ItemsOf(w) -> 0..2]
           /\ stack \in Seq(Frame(w)) /\ Len(stack) \in Nat
           /\ stack # <<>> <=> Len(stack) > 0
           /\ \A k \in 1..Len(stack) : stack[k] \in Frame(w) /\ stack[k].item \in ItemsOf(w)
           /\ \A k \in 1..Len(stack) : Fits(w, stack[k])
           /\ \A k \in 1..(Len(stack) - 1) : Calls(w, Black(visited), stack[k], stack[k + 1])
           /\ Len(stack) > 0 =>
                 /\ stack[1].skip = "" /\ TopCall = stack[Len(stack)]
                 /\ Walked(w, Black(visited), TopCall, {})
<1>1. Whole(w) /\ visited \in [ItemsOf(w) -> 0..2] /\ stack \in Seq(Frame(w))
  BY DEF Inv, TypeOK
<1>2. Len(stack) \in Nat /\ (stack # <<>> <=> Len(stack) > 0)
  BY <1>1
<1>3. \A k \in 1..Len(stack) : stack[k] \in Frame(w)
  BY <1>1
<1>4. \A k \in 1..Len(stack) : stack[k].item \in ItemsOf(w)
  BY <1>3 DEF Frame
<1>5. FramesFit /\ StackIsWalked
  BY DEF Inv, Sound
<1> QED
  BY <1>1, <1>2, <1>3, <1>4, <1>5 DEF FramesFit, StackIsWalked, TopCall

LEMMA BottomSkipsNothing ==
    ASSUME Inv, verdict = "search", stack # <<>>
    PROVE  stack[1].skip = ""
BY DEF Inv, Sound, StackIsWalked

LEMMA EachCallsTheNext ==
    ASSUME Inv, verdict = "search", NEW k \in 1..(Len(stack) - 1)
    PROVE  Calls(w, Black(visited), stack[k], stack[k + 1])
BY DEF Inv, Sound, StackIsWalked

\* What the innermost call has on its lists changes, and what it has walked so far is
\* black.
LEMMA ReturnInv ==
    ASSUME Inv, verdict = "search", stack # <<>>,
           NEW f \in Frame(w), f.item = TopCall.item, f.skip = TopCall.skip, Fits(w, f),
           Walked(w, Black(visited), f, {}), ClosedUnder(w, Black(visited)),
           stack' = WithTop(f), UNCHANGED <<w, visited, next, verdict>>
    PROVE  Inv'
<1> DEFINE n == Len(stack)
<1>1. /\ stack \in Seq(Frame(w)) /\ n \in Nat /\ n > 0 /\ TopCall = stack[n]
      /\ \A k \in 1..n : stack[k] \in Frame(w)
  BY DEF Inv, TypeOK, TopCall
<1>2. /\ stack' \in Seq(Frame(w)) /\ stack' # <<>> /\ Len(stack') = n /\ stack'[n] = f
      /\ \A k \in 1..(n - 1) : stack'[k] = stack[k]
  BY <1>1, Replaced DEF WithTop
<1>3. \A k \in 1..n : stack'[k].item = stack[k].item /\ stack'[k].skip = stack[k].skip
  BY <1>1, <1>2
<1>4. TypeOK'
  BY <1>2 DEF Inv, TypeOK
<1>5. FramesFit'
  BY <1>1, <1>2 DEF Inv, FramesFit
<1>6. StackIsAPath'
  BY <1>1, <1>2, <1>3 DEF Inv, StackIsAPath
<1>7. GrayIsOnStack'
  BY <1>1, <1>2, <1>3 DEF Inv, Sound, GrayIsOnStack
<1>8. StackIsWalked'
  <2>1. ASSUME NEW k \in 1..(n - 1)
        PROVE  Calls(w, Black(visited), stack'[k], stack'[k + 1])
    <3>1. Calls(w, Black(visited), stack[k], stack[k + 1])
      BY <2>1, EachCallsTheNext
    <3> QED
      BY <1>1, <1>2, <1>3, <2>1, <3>1, CallsOf
  <2>2. stack'[1].skip = ""
    <3>1. stack[1].skip = ""
      BY BottomSkipsNothing
    <3>2. 1 \in 1..n
      BY <1>1
    <3> QED
      BY <1>3, <3>1, <3>2
  <2>3. Walked(w, Black(visited), stack'[n], {})
    BY <1>2
  <2> QED
    BY <1>1, <1>2, <2>1, <2>2, <2>3 DEF StackIsWalked, TopCall
<1>9. BlackIsClosed' /\ NoLoopIn(w, Black(visited))' /\ StartedAreVisited'
  BY DEF Inv, Sound, BlackIsClosed, StartedAreVisited
<1> QED
  BY <1>4, <1>5, <1>6, <1>7, <1>8, <1>9 DEF Inv, Sound

\* What a call on g from the frames on s has to be like.
CallFits(s, g) ==
    /\ s \in Seq(Frame(w)) /\ g \in Frame(w) /\ Len(s) = Len(stack)
    /\ \A k \in 1..Len(s) : /\ Fits(w, s[k])
                            /\ s[k].item = stack[k].item /\ s[k].skip = stack[k].skip
    /\ \A k \in 1..(Len(s) - 1) : s[k] = stack[k]
    /\ Fits(w, g)
    /\ IF s = <<>> THEN g.skip = ""
       ELSE Leads(w, s[Len(s)].item, g.item) /\ Calls(w, Black(visited), s[Len(s)], g)
    /\ Walked(w, Black(visited), g, {})
    /\ ClosedUnder(w, Black(visited))

\* The frames after the call: they are the same, with one more on top.
LEMMA Pushed ==
    ASSUME Inv, NEW s, NEW g, CallFits(s, g), stack' = Append(s, g), w' = w
    PROVE  /\ Len(stack) \in Nat /\ Len(stack') = Len(stack) + 1
           /\ stack' \in Seq(Frame(w)) /\ stack' # <<>> /\ stack'[Len(stack) + 1] = g
           /\ \A k \in 1..Len(stack) : stack'[k].item = stack[k].item
           /\ \A k \in 1..Len(stack) : stack'[k].skip = stack[k].skip
           /\ \A k \in 1..(Len(stack) - 1) : stack'[k] = stack[k]
           /\ g.item \in ItemsOf(w)
           /\ FramesFit' /\ StackIsAPath'
<1> DEFINE n == Len(stack)
<1>0. s \in Seq(Frame(w)) /\ g \in Frame(w) /\ Len(s) = n
  BY DEF CallFits
<1>1. /\ n \in Nat
      /\ \A k \in 1..n : Fits(w, s[k])
      /\ \A k \in 1..n : s[k].item = stack[k].item /\ s[k].skip = stack[k].skip
      /\ \A k \in 1..(n - 1) : s[k] = stack[k]
  <2>1. n \in Nat
    BY <1>0
  <2>2. \A k \in 1..Len(s) : /\ Fits(w, s[k])
                             /\ s[k].item = stack[k].item /\ s[k].skip = stack[k].skip
    BY DEF CallFits
  <2>3. \A k \in 1..(Len(s) - 1) : s[k] = stack[k]
    BY DEF CallFits
  <2> HIDE DEF n
  <2> QED
    BY <1>0, <2>1, <2>2, <2>3
<1>2. /\ stack' \in Seq(Frame(w)) /\ stack' # <<>> /\ Len(stack') = n + 1 /\ stack'[n + 1] = g
      /\ \A k \in 1..n : stack'[k] = s[k]
  BY <1>0, <1>1, Extended
<1>3. g.item \in ItemsOf(w)
  BY <1>0 DEF Frame
<1>4. FramesFit'
  <2>1. Fits(w, g)
    BY DEF CallFits
  <2>2. \A k \in 1..(n + 1) : Fits(w, stack'[k])
    BY <1>1, <1>2, <2>1
  <2> QED
    BY <1>2, <2>2 DEF FramesFit
<1>5. StackIsAPath'
  <2>1. ASSUME NEW k \in 1..n
        PROVE  Leads(w, stack'[k].item, stack'[k + 1].item)
    <3>1. CASE k = n
      <4>0. s # <<>>
        BY <1>0, <2>1
      <4>1. Leads(w, s[n].item, g.item)
        BY <1>0, <4>0 DEF CallFits
      <4> QED
        BY <1>1, <1>2, <3>1, <4>1
    <3>2. CASE k < n
      <4>1. Leads(w, stack[k].item, stack[k + 1].item)
        BY <1>1, <3>2 DEF Inv, StackIsAPath
      <4> QED
        BY <1>1, <1>2, <3>2, <4>1
    <3>3. k = n \/ k < n
      <4> HIDE DEF n
      <4> QED
        BY <1>1, <2>1
    <3> QED
      BY <3>1, <3>2, <3>3
  <2> QED
    BY <1>1, <1>2, <2>1 DEF StackIsAPath
<1> QED
  BY <1>1, <1>2, <1>3, <1>4, <1>5

\* A call on an item that is gray is a loop.
LEMMA LoopInv ==
    ASSUME Inv, verdict = "search", NEW s, NEW g, CallFits(s, g),
           visited[g.item] = 1, stack' = Append(s, g), verdict' = "loop",
           w' = w, visited' = visited, next' \in 1..(Len(w.order) + 1)
    PROVE  Inv'
<1> DEFINE n == Len(stack)
<1>1. /\ n \in Nat /\ Len(stack') = n + 1
      /\ stack' \in Seq(Frame(w)) /\ stack'[n + 1] = g
      /\ \A k \in 1..n : stack'[k].item = stack[k].item
      /\ g.item \in ItemsOf(w)
      /\ FramesFit' /\ StackIsAPath'
  BY Pushed
<1>2. TypeOK'
  BY <1>1 DEF Inv, TypeOK
<1>3. \E k \in 1..n : stack'[k].item = stack'[n + 1].item
  <2>1. PICK k \in 1..n : stack[k].item = g.item
    BY <1>1 DEF Inv, Sound, GrayIsOnStack
  <2> QED
    BY <1>1, <2>1
<1>4. \E k \in 1..(Len(stack') - 1) : stack'[k].item = stack'[Len(stack')].item
  BY <1>1, <1>3
<1> QED
  BY <1>1, <1>2, <1>4 DEF Inv

\* A call on an item that is white: it becomes gray, and nothing of it is walked.
LEMMA EnterInv ==
    ASSUME Inv, verdict = "search", NEW s, NEW g, CallFits(s, g),
           visited[g.item] = 0, visited' = [visited EXCEPT ![g.item] = 1],
           stack' = Append(s, g), w' = w, verdict' = verdict,
           next' \in 1..(Len(w.order) + 1),
           \A j \in 1..(next' - 1) : j \in 1..(next - 1) \/ w.order[j] = g.item
    PROVE  Inv'
<1> DEFINE n == Len(stack)
<1>1. /\ n \in Nat /\ Len(stack') = n + 1
      /\ stack' \in Seq(Frame(w)) /\ stack' # <<>> /\ stack'[n + 1] = g
      /\ \A k \in 1..n : stack'[k].item = stack[k].item
      /\ \A k \in 1..n : stack'[k].skip = stack[k].skip
      /\ \A k \in 1..(n - 1) : stack'[k] = stack[k]
      /\ g.item \in ItemsOf(w)
      /\ FramesFit' /\ StackIsAPath'
  BY Pushed
<1>2. visited \in [ItemsOf(w) -> 0..2] /\ Whole(w)
  BY DEF Inv, TypeOK
<1>3. TypeOK'
  BY <1>1, <1>2 DEF Inv, TypeOK
<1>4. Black(visited') = Black(visited)
  BY <1>1, <1>2 DEF Black
<1>5. GrayIsOnStack'
  <2>1. /\ \A i \in ItemsOf(w) : visited[i] = 1 <=> \E k \in 1..n : stack[k].item = i
        /\ \A j, k \in 1..n : stack[j].item = stack[k].item => j = k
    BY DEF Inv, Sound, GrayIsOnStack
  <2>2. \A i \in ItemsOf(w) : visited'[i] = 1 <=> visited[i] = 1 \/ i = g.item
    BY <1>1, <1>2
  <2>3. \A k \in 1..n : stack[k].item # g.item
    BY <1>1, <2>1
  <2>4. \A i \in ItemsOf(w) : visited'[i] = 1 <=> \E k \in 1..(n + 1) : stack'[k].item = i
    <3> SUFFICES ASSUME NEW i \in ItemsOf(w)
                 PROVE  visited'[i] = 1 <=> \E k \in 1..(n + 1) : stack'[k].item = i
      OBVIOUS
    <3>1. (\E k \in 1..(n + 1) : stack'[k].item = i)
             <=> (\E k \in 1..n : stack[k].item = i) \/ i = g.item
      <4>1. /\ \A k \in 1..(n + 1) : k \in 1..n \/ k = n + 1
            /\ \A k \in 1..n : k \in 1..(n + 1)
            /\ n + 1 \in 1..(n + 1)
        BY <1>1
      <4>2. ASSUME NEW k \in 1..(n + 1), stack'[k].item = i
            PROVE  (\E l \in 1..n : stack[l].item = i) \/ i = g.item
        BY <1>1, <4>1, <4>2
      <4>3. ASSUME NEW k \in 1..n, stack[k].item = i
            PROVE  \E l \in 1..(n + 1) : stack'[l].item = i
        BY <1>1, <4>1, <4>3
      <4> QED
        BY <1>1, <4>1, <4>2, <4>3
    <3> QED
      BY <2>1, <2>2, <3>1
  <2>5. ASSUME NEW j \in 1..(n + 1), NEW k \in 1..(n + 1), stack'[j].item = stack'[k].item
        PROVE  j = k
    <3>1. \A l \in 1..(n + 1) : l \in 1..n \/ l = n + 1
      BY <1>1
    <3>2. CASE j \in 1..n /\ k \in 1..n
      BY <1>1, <2>1, <2>5, <3>2
    <3>3. CASE j = n + 1 /\ k \in 1..n
      BY <1>1, <2>3, <2>5, <3>3
    <3>4. CASE j \in 1..n /\ k = n + 1
      BY <1>1, <2>3, <2>5, <3>4
    <3> QED
      BY <3>1, <3>2, <3>3, <3>4
  <2> QED
    BY <1>1, <2>4, <2>5 DEF GrayIsOnStack
<1>6. StackIsWalked'
  <2>1. ASSUME NEW k \in 1..n
        PROVE  Calls(w, Black(visited), stack'[k], stack'[k + 1])
    <3>1. CASE k = n
      <4>1. s \in Seq(Frame(w)) /\ g \in Frame(w) /\ Len(s) = n
        BY DEF CallFits
      <4>2. stack'[n] = s[n] /\ s # <<>>
        BY <1>1, <2>1, <4>1, Extended
      <4>3. Calls(w, Black(visited), s[n], g)
        BY <4>1, <4>2 DEF CallFits
      <4> QED
        BY <1>1, <3>1, <4>2, <4>3
    <3>2. CASE k < n
      <4>0. k \in 1..(Len(stack) - 1)
        BY <1>1, <2>1, <3>2
      <4>1. Calls(w, Black(visited), stack[k], stack[k + 1])
        BY <4>0, EachCallsTheNext
      <4>2. stack'[k] = stack[k] /\ k + 1 \in 1..n
        BY <1>1, <2>1, <3>2
      <4>3. stack'[k + 1].item = stack[k + 1].item /\ stack'[k + 1].skip = stack[k + 1].skip
        BY <1>1, <4>2
      <4> QED
        BY <4>1, <4>2, <4>3, CallsOf
    <3>3. k = n \/ k < n
      <4> HIDE DEF n
      <4> QED
        BY <1>1, <2>1
    <3> QED
      BY <3>1, <3>2, <3>3
  <2>2. stack'[1].skip = ""
    <3>1. CASE n = 0
      <4>1. s \in Seq(Frame(w)) /\ Len(s) = n
        BY DEF CallFits
      <4>2. s = <<>>
        BY <3>1, <4>1
      <4>3. g.skip = ""
        BY <4>2 DEF CallFits
      <4> HIDE DEF n
      <4>4. n + 1 = 1
        BY <3>1
      <4> QED
        BY <1>1, <4>3, <4>4
    <3>2. CASE n > 0
      <4>1. stack # <<>> /\ 1 \in 1..n
        BY <1>1, <3>2
      <4>2. stack[1].skip = ""
        BY <4>1, BottomSkipsNothing
      <4> QED
        BY <1>1, <4>1, <4>2
    <3>3. n = 0 \/ n > 0
      <4> HIDE DEF n
      <4> QED
        BY <1>1
    <3> QED
      BY <3>1, <3>2, <3>3
  <2>3. Walked(w, Black(visited), stack'[n + 1], {})
    BY <1>1 DEF CallFits
  <2> QED
    <3>1. /\ Len(stack') - 1 = n /\ TopCall' = stack'[n + 1]
          /\ Black(visited)' = Black(visited)
      BY <1>1, <1>4 DEF TopCall
    <3> QED
      BY <2>1, <2>2, <2>3, <3>1 DEF StackIsWalked
<1>7. BlackIsClosed' /\ NoLoopIn(w, Black(visited))'
  BY <1>4 DEF Inv, Sound, BlackIsClosed, CallFits
<1>8. StartedAreVisited'
  <2>1. ASSUME NEW j \in 1..(next' - 1)
        PROVE  visited'[w.order[j]] # 0
    <3>1. w.order[j] \in ItemsOf(w)
      <4>1. w.order \in Seq(DOMAIN w.syms)
        BY <1>2 DEF Whole
      <4>2. Len(w.order) \in Nat
        BY <4>1
      <4>3. next' \in Nat /\ next' - 1 <= Len(w.order)
        BY <4>2
      <4>4. j \in 1..Len(w.order)
        <5>1. ASSUME NEW a \in Nat, NEW b \in Nat, a - 1 <= b, NEW i \in 1..(a - 1)
              PROVE  i \in 1..b
          BY <5>1
        <5> QED
          BY <2>1, <4>2, <4>3, <5>1
      <4> QED
        BY <4>1, <4>4 DEF ItemsOf
    <3>2. visited[w.order[j]] # 0 \/ w.order[j] = g.item
      BY <2>1 DEF Inv, Sound, StartedAreVisited
    <3> QED
      BY <1>1, <1>2, <3>1, <3>2
  <2> QED
    BY <2>1 DEF StartedAreVisited
<1> QED
  BY <1>1, <1>3, <1>5, <1>6, <1>7, <1>8 DEF Inv, Sound

----------------------------------------------------------------------------
(* The steps.                                                               *)

\* The frame of a call on a symbol, and of one on a choice.
LEMMA SymFrameFits ==
    ASSUME Whole(w), NEW i \in DOMAIN w.syms, NEW b \in BOOLEAN, NEW B,
           NEW g, g = SymFrame(i, b)
    PROVE  /\ g \in Frame(w) /\ g.item = i /\ g.skip = "" /\ ~IsChoiceOf(w, i)
           /\ Fits(w, g) /\ Walked(w, B, g, {})
<1>1. /\ i \notin DOMAIN w.choices /\ i \in ItemsOf(w) /\ w.dependents[i] \subseteq ItemsOf(w)
      /\ w.syms[i].choice \in DOMAIN w.choices \cup {""}
  BY DEF Whole, ItemsOf
<1>2. /\ g.item = i /\ g.todo = w.dependents[i] /\ g.syms = <<>> /\ g.skip = ""
      /\ g.choice \in {"", w.syms[i].choice}
  BY DEF SymFrame
<1>3. g \in Frame(w)
  <2>1. (IF b THEN "" ELSE w.syms[i].choice) \in DOMAIN w.choices \cup {""}
    BY <1>1
  <2>2. <<>> \in Seq(DOMAIN w.syms)
    OBVIOUS
  <2> QED
    BY <1>1, <2>1, <2>2 DEF SymFrame, Frame, EnteredFrom
<1>4. Fits(w, g)
  BY <1>1, <1>2 DEF Fits, IsChoiceOf
<1>5. Walked(w, B, g, {})
  <2>1. {} \in SUBSET B /\ ClosedUnder(w, {}) /\ w.dependents[i] \ (w.dependents[i] \cup {}) \subseteq {}
    BY DEF ClosedUnder
  <2> QED
    BY <1>1, <1>2, <2>1 DEF Walked, IsChoiceOf
<1> QED
  BY <1>1, <1>2, <1>3, <1>4, <1>5 DEF IsChoiceOf

LEMMA ChoiceFrameFits ==
    ASSUME Whole(w), NEW c \in DOMAIN w.choices, NEW from \in EnteredFrom(w), NEW B,
           NEW g, g = ChoiceFrame(c, from)
    PROVE  /\ g \in Frame(w) /\ g.item = c /\ g.skip = from /\ IsChoiceOf(w, c)
           /\ Fits(w, g) /\ Walked(w, B, g, {})
<1>1. c \in ItemsOf(w) /\ w.choices[c].syms \in Seq(DOMAIN w.syms)
  BY DEF Whole, ItemsOf
<1>2. /\ g.item = c /\ g.todo = {} /\ g.syms = w.choices[c].syms /\ g.skip = from
      /\ g.choice = ""
  BY DEF ChoiceFrame
<1>3. g \in Frame(w)
  BY <1>1 DEF ChoiceFrame, Frame
<1>4. ToWalk(g) = SymsOf(w, c)
  BY <1>2 DEF ToWalk, SymsOf
<1>5. Fits(w, g)
  BY <1>2, <1>4 DEF Fits, IsChoiceOf
<1>6. Walked(w, B, g, {})
  BY <1>2, <1>4 DEF Walked, IsChoiceOf
<1> QED
  BY <1>2, <1>3, <1>5, <1>6 DEF IsChoiceOf

\* What there is to say of the innermost call.
LEMMA TopFacts ==
    ASSUME Inv, Searching
    PROVE  /\ Whole(w) /\ TopCall \in Frame(w) /\ Fits(w, TopCall) /\ Walked(w, Black(visited), TopCall, {})
           /\ stack # <<>> /\ verdict = "search" /\ Black(visited) \subseteq ItemsOf(w)
           /\ ~AboutToLeave(w, TopCall) => ClosedUnder(w, Black(visited))
           /\ TopCall.item \in ItemsOf(w) /\ next \in 1..(Len(w.order) + 1)
<1>1. /\ Whole(w) /\ stack \in Seq(Frame(w)) /\ stack # <<>> /\ verdict = "search"
      /\ visited \in [ItemsOf(w) -> 0..2] /\ next \in 1..(Len(w.order) + 1)
  BY DEF Inv, TypeOK, Searching
<1>2. Len(stack) \in 1..Len(stack)
  BY <1>1
<1>3. TopCall \in Frame(w) /\ Fits(w, TopCall)
  BY <1>1, <1>2 DEF TopCall, Inv, FramesFit
<1>4. Walked(w, Black(visited), TopCall, {})
  BY <1>1 DEF Inv, Sound, StackIsWalked
<1>5. ~AboutToLeave(w, TopCall) => ClosedUnder(w, Black(visited))
  BY <1>1 DEF Inv, Sound, BlackIsClosed
<1>6. TopCall.item \in ItemsOf(w) /\ Black(visited) \subseteq ItemsOf(w)
  BY <1>1, <1>3 DEF Frame, Black
<1> QED
  BY <1>1, <1>3, <1>4, <1>5, <1>6

\* The innermost call takes something off its lists and makes a call on it.
LEMMA CallInv ==
    ASSUME Inv, Searching, ~AboutToLeave(w, TopCall),
           NEW f \in Frame(w), f.item = TopCall.item, f.skip = TopCall.skip, Fits(w, f),
           NEW g \in Frame(w), Fits(w, g), Walked(w, Black(visited), g, {}),
           Leads(w, f.item, g.item), Calls(w, Black(visited), f, g),
           visited[g.item] = 2 => Walked(w, Black(visited), f, {}),
           Call(WithTop(f), g), UNCHANGED <<w, next>>
    PROVE  Inv'
<1> DEFINE s == WithTop(f)
<1>1. /\ stack # <<>> /\ verdict = "search" /\ ClosedUnder(w, Black(visited))
      /\ next \in 1..(Len(w.order) + 1)
  BY TopFacts
<1>2. stack \in Seq(Frame(w))
  BY DEF Inv, TypeOK
<1>3. /\ s \in Seq(Frame(w)) /\ s # <<>> /\ Len(s) = Len(stack) /\ s[Len(stack)] = f
      /\ \A k \in 1..(Len(stack) - 1) : s[k] = stack[k]
  BY <1>1, <1>2, Replaced DEF WithTop
<1> HIDE DEF s
<1>4. \A k \in 1..Len(s) : /\ Fits(w, s[k])
                          /\ s[k].item = stack[k].item /\ s[k].skip = stack[k].skip
  <2> SUFFICES ASSUME NEW k \in 1..Len(s)
               PROVE  /\ Fits(w, s[k])
                      /\ s[k].item = stack[k].item /\ s[k].skip = stack[k].skip
    OBVIOUS
  <2>1. CASE k = Len(stack)
    BY <1>3, <2>1 DEF TopCall
  <2>2. CASE k # Len(stack)
    <3>1. k \in 1..(Len(stack) - 1) /\ k \in 1..Len(stack)
      BY <1>2, <1>3, <2>2
    <3> QED
      BY <1>3, <3>1 DEF Inv, FramesFit
  <2> QED
    BY <2>1, <2>2
<1>5. CallFits(s, g)
  BY <1>1, <1>3, <1>4 DEF CallFits
<1>6. CASE visited[g.item] = 0 /\ visited' = [visited EXCEPT ![g.item] = 1]
           /\ stack' = Append(s, g) /\ UNCHANGED verdict
  <2>1. next' \in 1..(Len(w.order) + 1) /\ \A j \in 1..(next' - 1) : j \in 1..(next - 1)
    BY <1>1
  <2> QED
    BY <1>1, <1>5, <1>6, <2>1, EnterInv
<1>7. CASE visited[g.item] = 1 /\ verdict' = "loop" /\ stack' = Append(s, g) /\ UNCHANGED visited
  BY <1>1, <1>5, <1>7, LoopInv
<1>8. CASE visited[g.item] = 2 /\ stack' = s /\ UNCHANGED <<visited, verdict>>
  BY <1>1, <1>8, ReturnInv DEF s
<1> QED
  BY <1>6, <1>7, <1>8 DEF Call, s

LEMMA StartFromInv == ASSUME Inv, StartFrom PROVE Inv'
<1> DEFINE g == SymFrame(w.order[next], FALSE)
<1>1. /\ Whole(w) /\ next \in 1..(Len(w.order) + 1) /\ verdict = "search" /\ stack = <<>>
      /\ next <= Len(w.order) /\ next' = next + 1 /\ w' = w /\ Call(<<>>, g)
      /\ visited \in [ItemsOf(w) -> 0..2]
  BY DEF Inv, TypeOK, StartFrom
<1>2. w.order \in Seq(DOMAIN w.syms)
  BY <1>1 DEF Whole
<1>3. next \in 1..Len(w.order) /\ next' \in 1..(Len(w.order) + 1)
  BY <1>1, <1>2
<1>4. w.order[next] \in DOMAIN w.syms
  BY <1>2, <1>3
<1>5. /\ g \in Frame(w) /\ g.item = w.order[next] /\ g.skip = "" /\ Fits(w, g)
      /\ Walked(w, Black(visited), g, {})
  BY <1>1, <1>4, SymFrameFits
<1> HIDE DEF g
<1>6. ClosedUnder(w, Black(visited))
  BY <1>1 DEF Inv, Sound, BlackIsClosed
<1>7. CallFits(<<>>, g)
  <2>1. <<>> \in Seq(Frame(w)) /\ Len(<<>>) = 0 /\ 1..0 = {} /\ 1..(0 - 1) = {}
    OBVIOUS
  <2> QED
    BY <1>1, <1>5, <1>6, <2>1 DEF CallFits
<1>8. \A j \in 1..(next' - 1) : j \in 1..(next - 1) \/ w.order[j] = g.item
  <2> SUFFICES ASSUME NEW j \in 1..(next' - 1) PROVE j \in 1..(next - 1) \/ j = next
    BY <1>5
  <2> QED
    BY <1>1, <1>3
<1>9. CASE visited[g.item] = 0 /\ visited' = [visited EXCEPT ![g.item] = 1]
           /\ stack' = Append(<<>>, g) /\ UNCHANGED verdict
  BY <1>1, <1>3, <1>7, <1>8, <1>9, EnterInv
<1>10. CASE visited[g.item] = 1 /\ verdict' = "loop" /\ stack' = Append(<<>>, g)
            /\ UNCHANGED visited
  BY <1>1, <1>3, <1>7, <1>10, LoopInv
<1>11. CASE visited[g.item] = 2 /\ stack' = <<>> /\ UNCHANGED <<visited, verdict>>
  <2>1. TypeOK' /\ FramesFit' /\ StackIsAPath'
    BY <1>1, <1>3, <1>11 DEF Inv, TypeOK, FramesFit, StackIsAPath
  <2>2. GrayIsOnStack' /\ StackIsWalked' /\ BlackIsClosed' /\ NoLoopIn(w, Black(visited))'
    BY <1>1, <1>6, <1>11 DEF Inv, Sound, GrayIsOnStack, StackIsWalked, BlackIsClosed
  <2>3. StartedAreVisited'
    BY <1>1, <1>8, <1>11 DEF Inv, Sound, StartedAreVisited
  <2> QED
    BY <1>1, <1>11, <2>1, <2>2, <2>3 DEF Inv, Sound
<1> QED
  BY <1>1, <1>9, <1>10, <1>11 DEF Call

LEMMA VisitDependentInv == ASSUME Inv, VisitDependent PROVE Inv'
<1>1. Searching /\ UNCHANGED <<w, next>>
  BY DEF VisitDependent
<1>2. PICK d \in TopCall.todo :
        Call(WithTop([TopCall EXCEPT !.todo = @ \ {d}]),
             IF IsChoiceOf(w, d) THEN ChoiceFrame(d, "") ELSE SymFrame(d, FALSE))
  BY DEF VisitDependent
<1> DEFINE f == [TopCall EXCEPT !.todo = @ \ {d}]
           g == IF IsChoiceOf(w, d) THEN ChoiceFrame(d, "") ELSE SymFrame(d, FALSE)
<1>3. /\ Whole(w) /\ TopCall \in Frame(w) /\ Fits(w, TopCall) /\ Walked(w, Black(visited), TopCall, {})
      /\ TopCall.todo # {} /\ Call(WithTop(f), g)
  BY <1>1, <1>2, TopFacts
<1>4. /\ ~IsChoiceOf(w, TopCall.item) /\ TopCall.syms = <<>> /\ TopCall.todo \subseteq w.dependents[TopCall.item]
      /\ TopCall.choice \in {"", w.syms[TopCall.item].choice}
  BY <1>3 DEF Fits
<1>5. ~AboutToLeave(w, TopCall)
  BY <1>3 DEF AboutToLeave
<1>6. /\ f \in Frame(w) /\ f.item = TopCall.item /\ f.skip = TopCall.skip /\ f.todo = TopCall.todo \ {d}
      /\ f.syms = <<>> /\ f.choice = TopCall.choice
  BY <1>3, <1>4 DEF Frame
<1> HIDE DEF f
<1>7. Fits(w, f)
  BY <1>4, <1>6 DEF Fits
<1>8. d \in ItemsOf(w)
  BY <1>3 DEF Frame
<1>9. /\ g \in Frame(w) /\ g.item = d /\ g.skip = "" /\ Fits(w, g)
      /\ Walked(w, Black(visited), g, {})
  <2>1. CASE IsChoiceOf(w, d)
    <3>1. "" \in EnteredFrom(w)
      BY DEF EnteredFrom
    <3> QED
      BY <1>3, <2>1, <3>1, ChoiceFrameFits DEF IsChoiceOf
  <2>2. CASE ~IsChoiceOf(w, d)
    <3>1. d \in DOMAIN w.syms
      BY <1>8, <2>2 DEF ItemsOf, IsChoiceOf
    <3> QED
      BY <1>3, <2>2, <3>1, SymFrameFits
  <2> QED
    BY <2>1, <2>2
<1> HIDE DEF g
<1>10. Leads(w, f.item, g.item)
  BY <1>2, <1>4, <1>6, <1>9 DEF Leads, Followed
<1>11. PICK D \in SUBSET Black(visited) :
         ClosedUnder(w, D) /\ w.dependents[TopCall.item] \ (TopCall.todo \cup {}) \subseteq D
  BY <1>3, <1>4 DEF Walked
<1>12. Walked(w, Black(visited), f, {g.item})
  <2>1. w.dependents[f.item] \ (f.todo \cup {g.item}) \subseteq D
    BY <1>6, <1>9, <1>11
  <2> QED
    BY <1>4, <1>6, <1>11, <2>1 DEF Walked
<1>13. Calls(w, Black(visited), f, g)
  BY <1>4, <1>6, <1>9, <1>12 DEF Calls
<1>14. ASSUME visited[g.item] = 2 PROVE Walked(w, Black(visited), f, {})
  <2>1. d \in Black(visited)
    <3>1. visited \in [ItemsOf(w) -> 0..2]
      BY DEF Inv, TypeOK
    <3> QED
      BY <1>8, <1>9, <1>14, <3>1 DEF Black
  <2>2. ClosedUnder(w, Black(visited))
    BY <1>1, <1>5, TopFacts
  <2>3. w.dependents[f.item] \ (f.todo \cup {}) \subseteq Black(visited)
    BY <1>6, <1>11, <2>1
  <2> QED
    BY <1>4, <1>6, <2>2, <2>3 DEF Walked
<1> QED
  BY <1>1, <1>3, <1>5, <1>6, <1>7, <1>9, <1>10, <1>13, <1>14, CallInv

LEMMA VisitChoiceInv == ASSUME Inv, VisitChoice PROVE Inv'
<1> DEFINE f == [TopCall EXCEPT !.choice = ""]
           g == ChoiceFrame(TopCall.choice, TopCall.item)
<1>1. /\ Searching /\ UNCHANGED <<w, next>> /\ TopCall.todo = {} /\ TopCall.choice # ""
      /\ Call(WithTop(f), g)
  BY DEF VisitChoice
<1>2. /\ Whole(w) /\ TopCall \in Frame(w) /\ Fits(w, TopCall) /\ Walked(w, Black(visited), TopCall, {})
      /\ TopCall.item \in ItemsOf(w)
  BY <1>1, TopFacts
<1>3. /\ ~IsChoiceOf(w, TopCall.item) /\ TopCall.syms = <<>>
      /\ TopCall.choice = w.syms[TopCall.item].choice
  BY <1>1, <1>2 DEF Fits
<1>4. ~AboutToLeave(w, TopCall)
  BY <1>1 DEF AboutToLeave
<1>5. /\ f \in Frame(w) /\ f.item = TopCall.item /\ f.skip = TopCall.skip /\ f.todo = {}
      /\ f.syms = <<>> /\ f.choice = ""
  BY <1>1, <1>2, <1>3 DEF Frame
<1> HIDE DEF f
<1>6. Fits(w, f)
  BY <1>3, <1>5 DEF Fits
<1>7. TopCall.choice \in DOMAIN w.choices /\ TopCall.item \in DOMAIN w.syms
  BY <1>1, <1>2, <1>3 DEF Frame, ItemsOf, IsChoiceOf
<1>8. /\ g \in Frame(w) /\ g.item = TopCall.choice /\ g.skip = TopCall.item /\ IsChoiceOf(w, g.item)
      /\ Fits(w, g) /\ Walked(w, Black(visited), g, {})
  <2>1. TopCall.item \in EnteredFrom(w)
    BY <1>7 DEF EnteredFrom
  <2>2. /\ g \in Frame(w) /\ g.item = TopCall.choice /\ g.skip = TopCall.item
        /\ IsChoiceOf(w, TopCall.choice) /\ Fits(w, g) /\ Walked(w, Black(visited), g, {})
    <3>1. ASSUME NEW c \in DOMAIN w.choices, NEW i \in EnteredFrom(w), NEW h,
                 h = ChoiceFrame(c, i)
          PROVE  /\ h \in Frame(w) /\ h.item = c /\ h.skip = i
                 /\ IsChoiceOf(w, c) /\ Fits(w, h) /\ Walked(w, Black(visited), h, {})
      BY <1>2, <3>1, ChoiceFrameFits
    <3>2. g = ChoiceFrame(TopCall.choice, TopCall.item)
      OBVIOUS
    <3> HIDE DEF g
    <3> QED
      BY <1>7, <2>1, <3>1, <3>2
  <2> HIDE DEF g
  <2> QED
    BY <2>2
<1> HIDE DEF g
<1>9. Leads(w, f.item, g.item)
  BY <1>3, <1>5, <1>8 DEF Leads
<1>10. Walked(w, Black(visited), f, {})
  BY <1>1, <1>2, <1>3, <1>5 DEF Walked
<1>11. Calls(w, Black(visited), f, g)
  BY <1>3, <1>5, <1>8, <1>10 DEF Calls
<1> QED
  BY <1>1, <1>4, <1>5, <1>6, <1>8, <1>9, <1>10, <1>11, CallInv

\* What is left to walk of the symbols of a choice.
LEMMA Rest ==
    ASSUME NEW F, NEW q \in Seq(F), q # <<>>
    PROVE  /\ Head(q) \in F /\ Tail(q) \in Seq(F)
           /\ {q[i] : i \in 1..Len(q)} = {Head(q)} \cup {Tail(q)[i] : i \in 1..Len(Tail(q))}
<1>1. Len(q) \in Nat /\ Len(q) > 0 /\ Len(Tail(q)) = Len(q) - 1 /\ Head(q) = q[1]
  OBVIOUS
<1>2. \A i \in 1..Len(Tail(q)) : Tail(q)[i] = q[i + 1]
  OBVIOUS
<1>3. ASSUME NEW i \in 1..Len(q)
      PROVE  q[i] \in {Head(q)} \cup {Tail(q)[j] : j \in 1..Len(Tail(q))}
  <2>1. CASE i = 1
    BY <1>1, <2>1
  <2>2. CASE i # 1
    <3>1. i - 1 \in 1..Len(Tail(q)) /\ Tail(q)[i - 1] = q[i]
      BY <1>1, <1>2, <2>2
    <3> QED
      BY <3>1
  <2> QED
    BY <2>1, <2>2
<1>4. ASSUME NEW i \in 1..Len(Tail(q)) PROVE Tail(q)[i] \in {q[j] : j \in 1..Len(q)}
  <2>1. i + 1 \in 1..Len(q)
    BY <1>1
  <2> QED
    BY <1>2, <2>1
<1>5. Head(q) \in {q[j] : j \in 1..Len(q)}
  BY <1>1
<1> QED
  BY <1>1, <1>3, <1>4, <1>5

LEMMA VisitChoiceSymInv == ASSUME Inv, VisitChoiceSym PROVE Inv'
<1> DEFINE f == [TopCall EXCEPT !.syms = Tail(@)]
           s == Head(TopCall.syms)
           g == SymFrame(s, TRUE)
<1>1. /\ Searching /\ UNCHANGED <<w, next>> /\ TopCall.syms # <<>>
      /\ IF s = TopCall.skip THEN stack' = WithTop(f) /\ UNCHANGED <<visited, verdict>>
         ELSE Call(WithTop(f), g)
  BY DEF VisitChoiceSym
<1>2. /\ Whole(w) /\ TopCall \in Frame(w) /\ Fits(w, TopCall) /\ Walked(w, Black(visited), TopCall, {})
      /\ verdict = "search" /\ stack # <<>>
  BY <1>1, TopFacts
<1>3. /\ IsChoiceOf(w, TopCall.item) /\ TopCall.todo = {} /\ TopCall.choice = ""
      /\ ToWalk(TopCall) \subseteq SymsOf(w, TopCall.item)
  BY <1>1, <1>2 DEF Fits
<1>4. ~AboutToLeave(w, TopCall) /\ ClosedUnder(w, Black(visited))
  <2>1. ~AboutToLeave(w, TopCall)
    BY <1>3 DEF AboutToLeave
  <2> QED
    BY <1>1, <2>1, TopFacts
<1>5. TopCall.syms \in Seq(DOMAIN w.syms)
  BY <1>2 DEF Frame
<1>6. /\ s \in DOMAIN w.syms /\ Tail(TopCall.syms) \in Seq(DOMAIN w.syms)
      /\ ToWalk(TopCall) = {s} \cup {Tail(TopCall.syms)[i] : i \in 1..Len(Tail(TopCall.syms))}
  BY <1>1, <1>5, Rest DEF ToWalk
<1>7. /\ f \in Frame(w) /\ f.item = TopCall.item /\ f.skip = TopCall.skip /\ f.todo = {} /\ f.choice = ""
      /\ f.syms = Tail(TopCall.syms)
  BY <1>2, <1>3, <1>6 DEF Frame
<1> HIDE DEF f, s
<1>8. ToWalk(TopCall) = {s} \cup ToWalk(f)
  BY <1>6, <1>7 DEF ToWalk
<1>9. Fits(w, f)
  BY <1>3, <1>7, <1>8 DEF Fits
<1>10. ASSUME s = TopCall.skip \/ s \in Black(visited)
       PROVE  Walked(w, Black(visited), f, {})
  BY <1>2, <1>3, <1>7, <1>8, <1>10 DEF Walked
<1>11. CASE s = TopCall.skip
  BY <1>1, <1>2, <1>4, <1>7, <1>9, <1>10, <1>11, ReturnInv
<1>12. CASE s # TopCall.skip
  <2>1. /\ g \in Frame(w) /\ g.item = s /\ g.skip = "" /\ ~IsChoiceOf(w, g.item)
        /\ Fits(w, g) /\ Walked(w, Black(visited), g, {})
    BY <1>2, <1>6, SymFrameFits
  <2>2. Call(WithTop(f), g)
    BY <1>1, <1>12
  <2> HIDE DEF g
  <2>3. Leads(w, f.item, g.item)
    BY <1>3, <1>7, <1>8, <2>1 DEF Leads, Followed
  <2>4. Walked(w, Black(visited), f, {g.item})
    BY <1>2, <1>3, <1>7, <1>8, <2>1 DEF Walked
  <2>5. Calls(w, Black(visited), f, g)
    BY <1>3, <1>7, <2>1, <2>4 DEF Calls
  <2>6. ASSUME visited[g.item] = 2 PROVE Walked(w, Black(visited), f, {})
    <3>1. s \in DOMAIN visited
      BY <1>6 DEF Inv, TypeOK, ItemsOf
    <3> QED
      BY <1>10, <2>1, <2>6, <3>1 DEF Black
  <2> QED
    BY <1>1, <1>4, <1>7, <1>9, <2>1, <2>2, <2>3, <2>5, <2>6, CallInv
<1> QED
  BY <1>11, <1>12

\* The symbols of a choice that is about to be left are black, but for the one that
\* the choice was entered from, which is on the stack.
LEMMA LeftChoice ==
    ASSUME Inv, Leave, IsChoiceOf(w, TopCall.item)
    PROVE  /\ ClosedUnder(w, Black(visited))
           /\ SymsOf(w, TopCall.item) \subseteq Black(visited) \cup {TopCall.skip}
           /\ TopCall.skip \notin Black(visited) \cup {TopCall.item}
           /\ Len(stack) > 1 /\ TopCall.skip # "" =>
                 /\ stack[Len(stack) - 1].item = TopCall.skip
                 /\ AboutToLeave(w, stack[Len(stack) - 1])
           /\ TopCall.skip = "" => SymsOf(w, TopCall.item) \subseteq Black(visited)
           /\ Len(stack) = 1 => TopCall.skip = ""
<1>1. Searching /\ TopCall.todo = {} /\ TopCall.choice = "" /\ TopCall.syms = <<>>
  BY DEF Leave
<1>2. /\ Whole(w) /\ Walked(w, Black(visited), TopCall, {}) /\ stack # <<>> /\ verdict = "search"
      /\ TopCall.item \in ItemsOf(w) /\ Black(visited) \subseteq ItemsOf(w)
  BY <1>1, TopFacts
<1>3. ClosedUnder(w, Black(visited))
  <2>1. ~AboutToLeave(w, TopCall)
    BY DEF AboutToLeave
  <2> QED
    BY <1>1, <2>1, TopFacts
<1>4. ToWalk(TopCall) = {}
  <2>1. Len(<<>>) = 0 /\ 1..0 = {}
    OBVIOUS
  <2> QED
    BY <1>1, <2>1 DEF ToWalk
<1>5. SymsOf(w, TopCall.item) \subseteq Black(visited) \cup {TopCall.skip}
  BY <1>2, <1>4 DEF Walked
<1>6. "" \notin ItemsOf(w) /\ TopCall.item \in DOMAIN w.choices /\ TopCall.item \notin DOMAIN w.syms
  BY <1>2 DEF Whole, IsChoiceOf
<1>7. SymsOf(w, TopCall.item) \subseteq DOMAIN w.syms
  <2>1. w.choices[TopCall.item].syms \in Seq(DOMAIN w.syms)
    BY <1>2, <1>6 DEF Whole
  <2> QED
    BY <2>1 DEF SymsOf
<1>8. TopCall.skip = "" => SymsOf(w, TopCall.item) \subseteq Black(visited)
  BY <1>5, <1>6, <1>7 DEF ItemsOf
<1>9. stack \in Seq(Frame(w)) /\ Len(stack) \in Nat /\ Len(stack) > 0
  <2>1. stack \in Seq(Frame(w))
    BY DEF Inv, TypeOK
  <2> QED
    BY <1>2, <2>1
<1>10. CASE Len(stack) = 1
  <2>1. TopCall.skip = ""
    BY <1>2, <1>10, BottomSkipsNothing DEF TopCall
  <2> QED
    BY <1>2, <1>3, <1>5, <1>6, <1>8, <1>10, <2>1
<1>11. CASE Len(stack) > 1
  <2> DEFINE f == stack[Len(stack) - 1]
  <2>1. Len(stack) - 1 \in 1..(Len(stack) - 1)
    BY <1>9, <1>11
  <2>2. Calls(w, Black(visited), f, stack[Len(stack) - 1 + 1])
    BY <1>2, <2>1, EachCallsTheNext
  <2>3. stack[Len(stack) - 1 + 1] = TopCall
    <3>1. Len(stack) - 1 + 1 = Len(stack)
      BY <1>9
    <3> QED
      BY <3>1 DEF TopCall
  <2> HIDE DEF f
  <2>4. \/ TopCall.skip = ""
        \/ ~IsChoiceOf(w, f.item) /\ f.todo = {} /\ f.choice = "" /\ TopCall.skip = f.item
    BY <2>2, <2>3 DEF Calls
  <2>5. ASSUME TopCall.skip # "" PROVE TopCall.skip = f.item /\ AboutToLeave(w, f)
    BY <2>4, <2>5 DEF AboutToLeave
  <2>6. f.item \notin Black(visited)
    <3>1. f \in Frame(w) /\ Len(stack) - 1 \in 1..Len(stack)
      BY <1>9, <2>1 DEF f
    <3>2. visited[f.item] = 1
      <4>1. f.item \in ItemsOf(w)
        BY <3>1 DEF Frame
      <4>2. GrayIsOnStack
        BY <1>2 DEF Inv, Sound
      <4> QED
        BY <3>1, <4>1, <4>2 DEF GrayIsOnStack, f
    <3> QED
      BY <3>2 DEF Black
  <2>7. TopCall.skip \notin Black(visited) \cup {TopCall.item}
    <3>1. CASE TopCall.skip = ""
      BY <1>2, <1>6, <3>1
    <3>2. CASE TopCall.skip # ""
      BY <2>4, <2>6, <3>2
    <3> QED
      BY <3>1, <3>2
  <2>8. Len(stack) # 1
    <3>1. \A n \in Nat : n > 1 => n # 1
      OBVIOUS
    <3> QED
      BY <1>9, <1>11, <3>1
  <2> QED
    BY <1>3, <1>5, <1>8, <2>5, <2>7, <2>8 DEF f
<1>12. Len(stack) = 1 \/ Len(stack) > 1
  <2>1. \A n \in Nat : n > 0 => n = 1 \/ n > 1
    OBVIOUS
  <2> QED
    BY <1>9, <2>1
<1> QED
  BY <1>10, <1>11, <1>12

\* The item that is left closes no loop with the black ones.
LEMMA NoLoopCloses ==
    ASSUME Inv, Leave
    PROVE  NoLoopIn(w, Black(visited) \cup {TopCall.item})
<1> DEFINE B == Black(visited)
           X == TopCall.item
<1>1. /\ Searching /\ TopCall.todo = {} /\ Whole(w) /\ Walked(w, B, TopCall, {}) /\ NoLoopIn(w, B)
  <2>1. Searching /\ TopCall.todo = {}
    BY DEF Leave
  <2>2. Whole(w) /\ Walked(w, B, TopCall, {}) /\ verdict = "search"
    BY <2>1, TopFacts
  <2> QED
    BY <2>1, <2>2 DEF Inv, Sound
<1> HIDE DEF B
<1> SUFFICES ASSUME NEW S \in SUBSET (B \cup {X}), Circular(w, S), S # {}
             PROVE  FALSE
  BY DEF NoLoopIn, B
<1>2. X \in S
  BY <1>1 DEF NoLoopIn
<1>3. Followed(w, X) \cap S # {}
  BY <1>2 DEF Circular
\* In a closed set of black items there is no loop.
<1>4. ASSUME NEW D \in SUBSET B, ClosedUnder(w, D) PROVE S \cap D = {}
  <2>1. Circular(w, S \cap D)
    <3> SUFFICES ASSUME NEW i \in S \cap D PROVE Followed(w, i) \cap (S \cap D) # {}
      BY DEF Circular
    <3>1. Followed(w, i) \cap S # {} /\ Followed(w, i) \subseteq D
      BY <1>4 DEF Circular, ClosedUnder
    <3> QED
      BY <3>1
  <2> QED
    BY <1>1, <1>4, <2>1 DEF NoLoopIn
<1>5. CASE IsChoiceOf(w, X)
  <2>1. /\ ClosedUnder(w, B) /\ SymsOf(w, X) \subseteq B \cup {TopCall.skip}
        /\ TopCall.skip \notin B \cup {X}
    BY <1>5, LeftChoice DEF B
  <2>2. Followed(w, X) \cap S \subseteq B
    BY <1>5, <2>1 DEF Followed
  <2> QED
    BY <1>3, <1>4, <2>1, <2>2
<1>6. CASE ~IsChoiceOf(w, X)
  <2>1. PICK D \in SUBSET B :
          ClosedUnder(w, D) /\ w.dependents[X] \ (TopCall.todo \cup {}) \subseteq D
    BY <1>1, <1>6 DEF Walked
  <2>2. Followed(w, X) \subseteq D
    BY <1>1, <1>6, <2>1 DEF Followed
  <2> QED
    BY <1>3, <1>4, <2>1, <2>2
<1> QED
  BY <1>5, <1>6

\* The item that is left is black, and so is what the call it returns to was waiting for.
LEMMA LeaveInv == ASSUME Inv, Leave PROVE Inv'
<1> DEFINE n == Len(stack)
           B == Black(visited)
           X == TopCall.item
<1>1. /\ Searching /\ TopCall.todo = {} /\ TopCall.choice = "" /\ TopCall.syms = <<>>
      /\ UNCHANGED <<w, next, verdict>>
  BY DEF Leave
<1>0. visited' = [visited EXCEPT ![X] = 2]
  BY DEF Leave
<1>2. /\ Whole(w) /\ Walked(w, B, TopCall, {}) /\ stack # <<>> /\ verdict = "search"
      /\ X \in ItemsOf(w) /\ B \subseteq ItemsOf(w)
  BY <1>1, TopFacts
<1>3. stack \in Seq(Frame(w)) /\ visited \in [ItemsOf(w) -> 0..2]
  BY DEF Inv, TypeOK
<1>4. n \in Nat /\ n > 0 /\ n \in 1..n /\ stack[n] = TopCall
  BY <1>2, <1>3 DEF TopCall
<1>5. /\ stack' \in Seq(Frame(w)) /\ Len(stack') = n - 1
      /\ \A k \in 1..(n - 1) : stack'[k] = stack[k]
  <2>1. stack' = SubSeq(stack, 1, Len(stack) - 1)
    BY DEF Leave
  <2>2. ASSUME NEW s \in Seq(Frame(w)), s # <<>>, NEW t, t = SubSeq(s, 1, Len(s) - 1)
        PROVE  /\ t \in Seq(Frame(w)) /\ Len(t) = Len(s) - 1
               /\ \A k \in 1..Len(t) : t[k] = s[k]
    BY <2>2, Shortened
  <2>3. /\ stack' \in Seq(Frame(w)) /\ Len(stack') = Len(stack) - 1
        /\ \A k \in 1..Len(stack') : stack'[k] = stack[k]
    BY <1>2, <1>3, <2>1, <2>2
  <2> QED
    BY <2>3
<1>6. Black(visited') = B \cup {X}
  BY <1>0, <1>2, <1>3 DEF Black
<1> HIDE DEF n, B, X
<1>7. n = Len(stack) /\ B = Black(visited) /\ X = TopCall.item
  BY DEF n, B, X
<1>8. \A k \in 1..(n - 1) : k \in 1..n /\ k # n
  BY <1>4
<1>9. TypeOK' /\ FramesFit' /\ StackIsAPath'
  <2>1. TypeOK'
    <3>1. visited' \in [ItemsOf(w) -> 0..2]
      BY <1>0, <1>2, <1>3
    <3> QED
      BY <1>1, <1>5, <3>1 DEF Inv, TypeOK
  <2>2. FramesFit'
    BY <1>1, <1>5, <1>7, <1>8 DEF Inv, FramesFit
  <2>3. StackIsAPath'
    <3>1. ASSUME NEW k \in 1..(n - 1 - 1) PROVE Leads(w, stack'[k].item, stack'[k + 1].item)
      <4>1. k \in 1..(n - 1) /\ k + 1 \in 1..(n - 1)
        BY <1>4
      <4>2. Leads(w, stack[k].item, stack[k + 1].item)
        BY <1>7, <4>1 DEF Inv, StackIsAPath
      <4> QED
        BY <1>5, <4>1, <4>2
    <3> QED
      BY <1>1, <1>5, <3>1 DEF StackIsAPath
  <2> QED
    BY <2>1, <2>2, <2>3
<1>10. GrayIsOnStack'
  <2>1. /\ \A i \in ItemsOf(w) : visited[i] = 1 <=> \E k \in 1..n : stack[k].item = i
        /\ \A j, k \in 1..n : stack[j].item = stack[k].item => j = k
    BY <1>2, <1>7 DEF Inv, Sound, GrayIsOnStack
  <2>2. \A i \in ItemsOf(w) : visited'[i] = 1 <=> visited[i] = 1 /\ i # X
    BY <1>0, <1>2, <1>3
  <2>3. \A k \in 1..n : k \in 1..(n - 1) \/ k = n
    BY <1>4
  <2>4. \A k \in 1..(n - 1) : stack[k].item # X
    BY <1>4, <1>7, <1>8, <2>1
  <2>5. \A i \in ItemsOf(w) :
          visited'[i] = 1 <=> \E k \in 1..(n - 1) : stack'[k].item = i
    <3> SUFFICES ASSUME NEW i \in ItemsOf(w)
                 PROVE  visited'[i] = 1 <=> \E k \in 1..(n - 1) : stack'[k].item = i
      OBVIOUS
    <3>1. ASSUME NEW k \in 1..n, stack[k].item = i, i # X
          PROVE  \E l \in 1..(n - 1) : stack'[l].item = i
      <4>1. k \in 1..(n - 1)
        BY <1>4, <1>7, <2>3, <3>1
      <4> QED
        BY <1>5, <3>1, <4>1
    <3>2. ASSUME NEW k \in 1..(n - 1), stack'[k].item = i
          PROVE  i # X /\ visited[i] = 1
      <4>1. stack[k].item = i /\ k \in 1..n
        BY <1>5, <1>8, <3>2
      <4> QED
        BY <2>1, <2>4, <3>2, <4>1
    <3> QED
      BY <2>1, <2>2, <3>1, <3>2
  <2>6. \A j, k \in 1..(n - 1) : stack'[j].item = stack'[k].item => j = k
    BY <1>5, <1>8, <2>1
  <2> QED
    BY <1>1, <1>5, <2>5, <2>6 DEF GrayIsOnStack
<1>11. /\ \A i \in B : Followed(w, i) \subseteq B \cup {X}
       /\ ~IsChoiceOf(w, X) => w.dependents[X] \subseteq B
  <2>1. CASE IsChoiceOf(w, X)
    <3>1. ClosedUnder(w, B)
      BY <1>7, <2>1, LeftChoice
    <3> QED
      BY <2>1, <3>1 DEF ClosedUnder
  <2>2. CASE ~IsChoiceOf(w, X)
    <3>1. BlackIsClosed
      BY <1>2 DEF Inv, Sound
    <3>2. \A i \in B : Followed(w, i) \subseteq B \cup {X}
      BY <1>7, <3>1 DEF BlackIsClosed, ClosedUnder
    <3>3. PICK D \in SUBSET B : w.dependents[X] \ (TopCall.todo \cup {}) \subseteq D
      BY <1>2, <1>7, <2>2 DEF Walked
    <3> QED
      BY <1>1, <3>2, <3>3
  <2> QED
    BY <2>1, <2>2
\* The black items are closed again, but when a choice returns to the symbol that led to it.
<1>12. ASSUME IsChoiceOf(w, X) => TopCall.skip = "" PROVE ClosedUnder(w, B \cup {X})
  <2>1. Followed(w, X) \subseteq B
    <3>1. CASE IsChoiceOf(w, X)
      BY <1>7, <1>12, <3>1, LeftChoice DEF Followed
    <3>2. CASE ~IsChoiceOf(w, X)
      BY <1>11, <3>2 DEF Followed
    <3> QED
      BY <3>1, <3>2
  <2> QED
    BY <1>11, <2>1 DEF ClosedUnder
<1>13. ASSUME n = 1 PROVE StackIsWalked' /\ BlackIsClosed'
  <2>1. stack' = <<>>
    BY <1>5, <1>13
  <2>2. ClosedUnder(w, B \cup {X})
    BY <1>7, <1>12, <1>13, LeftChoice
  <2>3. StackIsWalked' /\ BlackIsClosed'
    <3>1. Len(stack') = 0 /\ 1..(0 - 1) = {}
      BY <1>5, <1>13
    <3> QED
      BY <1>1, <1>6, <2>1, <2>2, <3>1 DEF StackIsWalked, BlackIsClosed
  <2> QED
    BY <2>3
<1>14. ASSUME n > 1 PROVE StackIsWalked' /\ BlackIsClosed'
  <2> DEFINE f == stack[n - 1]
  <2>1. /\ n - 1 \in 1..(n - 1) /\ stack' # <<>> /\ TopCall' = f /\ 1 \in 1..(n - 1)
        /\ n - 1 + 1 = n
    <3>1. n - 1 \in 1..(n - 1) /\ n - 1 > 0 /\ 1 \in 1..(n - 1) /\ n - 1 + 1 = n
      BY <1>4, <1>14
    <3> QED
      BY <1>5, <3>1 DEF TopCall
  <2>2. Calls(w, B, f, TopCall)
    BY <1>2, <1>4, <1>7, <2>1, EachCallsTheNext
  <2> HIDE DEF f
  <2>3. Walked(w, B \cup {X}, f, {}) /\ BlackIsClosed'
    <3>1. CASE ~IsChoiceOf(w, f.item) /\ TopCall.skip = "" /\ Walked(w, B, f, {X})
      <4>1. PICK D \in SUBSET B : w.dependents[f.item] \ (f.todo \cup {X}) \subseteq D
        BY <3>1 DEF Walked
      <4>2. w.dependents[f.item] \ (f.todo \cup {}) \subseteq B \cup {X}
        BY <4>1
      <4>3. ClosedUnder(w, B \cup {X})
        BY <1>12, <3>1
      <4>4. Walked(w, B \cup {X}, f, {})
        BY <3>1, <4>2, <4>3 DEF Walked
      <4> QED
        BY <1>1, <1>6, <4>3, <4>4 DEF BlackIsClosed
    <3>2. CASE /\ ~IsChoiceOf(w, f.item) /\ f.todo = {} /\ f.choice = "" /\ Walked(w, B, f, {})
               /\ IsChoiceOf(w, X) /\ TopCall.skip = f.item
      <4>1. Walked(w, B \cup {X}, f, {})
        BY <3>2, WalkedStays
      <4>2. SymsOf(w, X) \subseteq B \cup {f.item}
        BY <1>7, <3>2, LeftChoice
      <4>3. ClosedUnder(w, B)
        BY <1>7, <3>2, LeftChoice
      <4>4. \A i \in B \cup {X} : Followed(w, i) \subseteq B \cup {X} \cup {f.item}
        BY <3>2, <4>2, <4>3 DEF ClosedUnder, Followed
      <4>5. AboutToLeave(w, f)
        BY <3>2 DEF AboutToLeave
      <4>6. BlackIsClosed'
        BY <1>1, <1>6, <2>1, <4>4, <4>5 DEF BlackIsClosed
      <4> QED
        BY <4>1, <4>6
    <3>3. CASE IsChoiceOf(w, f.item) /\ ~IsChoiceOf(w, X) /\ Walked(w, B, f, {X})
      <4>1. Walked(w, B \cup {X}, f, {})
        BY <3>3 DEF Walked
      <4>2. ClosedUnder(w, B \cup {X})
        BY <1>12, <3>3
      <4> QED
        BY <1>1, <1>6, <4>1, <4>2 DEF BlackIsClosed
    <3> QED
      BY <1>7, <2>2, <3>1, <3>2, <3>3 DEF Calls
  <2>4. ASSUME NEW k \in 1..(n - 1 - 1)
        PROVE  Calls(w, B \cup {X}, stack'[k], stack'[k + 1])
    <3>1. k \in 1..(n - 1) /\ k + 1 \in 1..(n - 1)
      BY <1>4
    <3>2. Calls(w, B, stack[k], stack[k + 1])
      BY <1>2, <1>7, <3>1, EachCallsTheNext
    <3> QED
      BY <1>5, <3>1, <3>2, CallsStay
  <2>5. stack'[1].skip = ""
    BY <1>2, <1>5, <2>1, BottomSkipsNothing
  <2>6. StackIsWalked'
    BY <1>1, <1>5, <1>6, <2>1, <2>3, <2>4, <2>5 DEF StackIsWalked
  <2> QED
    BY <2>3, <2>6
<1>15. n = 1 \/ n > 1
  BY <1>4
<1>16. NoLoopIn(w, Black(visited))'
  BY <1>1, <1>6, <1>7, NoLoopCloses
<1>17. StartedAreVisited'
  <2> SUFFICES ASSUME NEW j \in 1..(next - 1) PROVE visited'[w.order[j]] # 0
    BY <1>1 DEF StartedAreVisited
  <2>1. visited[w.order[j]] # 0
    BY <1>2 DEF Inv, Sound, StartedAreVisited
  <2>2. w.order \in Seq(DOMAIN w.syms) /\ next \in 1..(Len(w.order) + 1)
    BY <1>2 DEF Whole, Inv, TypeOK
  <2>3. w.order[j] \in ItemsOf(w)
    <3>1. Len(w.order) \in Nat
      BY <2>2
    <3>2. \A m \in Nat : next \in 1..(m + 1) => j \in 1..m
      OBVIOUS
    <3> QED
      BY <2>2, <3>1, <3>2 DEF ItemsOf
  <2> QED
    BY <1>0, <1>2, <1>3, <2>1, <2>3
<1> QED
  BY <1>1, <1>2, <1>9, <1>10, <1>13, <1>14, <1>15, <1>16, <1>17 DEF Inv, Sound

LEMMA AcceptInv == ASSUME Inv, Accept PROVE Inv'
<1>1. /\ verdict = "search" /\ stack = <<>> /\ next > Len(w.order) /\ verdict' = "accepted"
      /\ UNCHANGED <<w, visited, stack, next>>
  BY DEF Accept
<1>2. TypeOK' /\ FramesFit' /\ StackIsAPath'
  BY <1>1 DEF Inv, TypeOK, FramesFit, StackIsAPath
<1>3. Sound'
  BY <1>1 DEF Inv, Sound, GrayIsOnStack, StackIsWalked, BlackIsClosed, StartedAreVisited, TopCall
<1> QED
  BY <1>1, <1>2, <1>3 DEF Inv

LEMMA StutterInv == ASSUME Inv, UNCHANGED loopVars PROVE Inv'
<1>1. TypeOK' /\ FramesFit' /\ StackIsAPath'
  BY DEF loopVars, Inv, TypeOK, FramesFit, StackIsAPath
<1>2. verdict # "loop" => Sound'
  BY DEF loopVars, Inv, Sound, GrayIsOnStack, StackIsWalked, BlackIsClosed, StartedAreVisited, TopCall
<1> QED
  BY <1>1, <1>2 DEF loopVars, Inv

LEMMA LoopInitInv == ASSUME LoopInit PROVE Inv
<1>1. /\ Whole(w) /\ visited = [i \in ItemsOf(w) |-> 0] /\ stack = <<>> /\ next = 1
      /\ verdict = "search"
  BY WorldsAssumption DEF LoopInit
<1>2. Len(stack) = 0 /\ 1..0 = {} /\ 1..(0 - 1) = {} /\ Black(visited) = {}
  BY <1>1 DEF Black
<1>3. TypeOK
  <2>1. w.order \in Seq(DOMAIN w.syms)
    BY <1>1 DEF Whole
  <2>2. Len(w.order) \in Nat
    BY <2>1
  <2>3. next \in 1..(Len(w.order) + 1) /\ stack \in Seq(Frame(w))
    BY <1>1, <2>2
  <2> QED
    BY <1>1, <2>3 DEF TypeOK
<1>4. FramesFit /\ StackIsAPath
  BY <1>2 DEF FramesFit, StackIsAPath
<1>5. GrayIsOnStack /\ StackIsWalked
  BY <1>1, <1>2 DEF GrayIsOnStack, StackIsWalked
<1>6. BlackIsClosed /\ NoLoopIn(w, Black(visited))
  BY <1>2 DEF BlackIsClosed, ClosedUnder, NoLoopIn
<1>7. StartedAreVisited
  BY <1>1, <1>2 DEF StartedAreVisited
<1> QED
  BY <1>1, <1>3, <1>4, <1>5, <1>6, <1>7 DEF Inv, Sound

LEMMA StepInv == ASSUME Inv, [LoopNext]_loopVars PROVE Inv'
BY StartFromInv, VisitDependentInv, VisitChoiceInv, VisitChoiceSymInv, LeaveInv, AcceptInv,
   StutterInv DEF LoopNext

\* The inductive invariant holds of every search.
THEOREM SearchInvariance == LoopSpec => []Inv
<1>1. LoopInit => Inv
  BY LoopInitInv
<1>2. Inv /\ [LoopNext]_loopVars => Inv'
  BY StepInv
<1> QED
  BY <1>1, <1>2, PTL DEF LoopSpec

----------------------------------------------------------------------------
(* What the verdict says.                                                   *)

LEMMA AcceptedIsSound == ASSUME Inv PROVE AcceptedHasNoLoop
<1> SUFFICES ASSUME verdict = "accepted", NEW S \in SUBSET ItemsOf(w), Circular(w, S)
             PROVE  S \cap Defined(w) = {}
  BY DEF AcceptedHasNoLoop
<1> DEFINE B == Black(visited)
<1>1. stack = <<>> /\ next > Len(w.order) /\ Sound /\ TypeOK
  BY DEF Inv
<1>2. ClosedUnder(w, B) /\ NoLoopIn(w, B)
  BY <1>1 DEF Sound, BlackIsClosed
<1>3. S \cap B = {}
  <2>1. Circular(w, S \cap B)
    <3> SUFFICES ASSUME NEW i \in S \cap B PROVE Followed(w, i) \cap (S \cap B) # {}
      BY DEF Circular
    <3>1. Followed(w, i) \cap S # {} /\ Followed(w, i) \subseteq B
      BY <1>2 DEF Circular, ClosedUnder
    <3> QED
      BY <3>1
  <2> QED
    BY <1>2, <2>1 DEF NoLoopIn
<1>4. Defined(w) \subseteq B
  <2> SUFFICES ASSUME NEW j \in 1..Len(w.order) PROVE w.order[j] \in B
    BY DEF Defined
  <2>1. w.order \in Seq(DOMAIN w.syms) /\ next \in 1..(Len(w.order) + 1)
    BY <1>1 DEF TypeOK, Whole
  <2>2. Len(w.order) \in Nat
    BY <2>1
  <2>3. j \in 1..(next - 1)
    BY <1>1, <2>1, <2>2
  <2>4. visited[w.order[j]] # 0
    BY <1>1, <2>3 DEF Sound, StartedAreVisited
  <2>5. w.order[j] \in ItemsOf(w)
    BY <2>1 DEF ItemsOf
  <2>6. visited[w.order[j]] # 1
    <3>1. 1..Len(stack) = {}
      BY <1>1
    <3> QED
      BY <1>1, <2>5, <3>1 DEF Sound, GrayIsOnStack
  <2> QED
    BY <1>1, <2>4, <2>5, <2>6 DEF TypeOK, Black
<1> QED
  BY <1>3, <1>4

\* What is accepted has no loop that the search follows, whatever the file and the
\* order in which Python walks its sets.
THEOREM AcceptedFilesHaveNoLoop == LoopSpec => []AcceptedHasNoLoop
<1>1. Inv => AcceptedHasNoLoop
  BY AcceptedIsSound
<1> QED
  BY <1>1, SearchInvariance, PTL

LEMMA ReportIsClosed == ASSUME Inv PROVE ReportedLoopIsClosed
<1> SUFFICES ASSUME verdict = "loop"
             PROVE  /\ Len(FoundDepLoop) > 1 /\ FoundDepLoop[1] = FoundDepLoop[Len(FoundDepLoop)]
                    /\ \A i \in 1..(Len(FoundDepLoop) - 1) :
                         Leads(w, FoundDepLoop[i], FoundDepLoop[i + 1])
  BY DEF ReportedLoopIsClosed
<1> DEFINE n == Len(stack)
           at == CHOOSE i \in 1..(n - 1) : stack[i].item = stack[n].item
<1>1. stack \in Seq(Frame(w)) /\ n \in Nat
  BY DEF Inv, TypeOK
<1>2. at \in 1..(n - 1) /\ stack[at].item = stack[n].item
  <2>1. \E i \in 1..(n - 1) : stack[i].item = stack[n].item
    BY DEF Inv
  <2> QED
    BY <2>1
<1>3. \A k \in 1..(n - 1) : Leads(w, stack[k].item, stack[k + 1].item)
  BY DEF Inv, StackIsAPath
<1>4. FoundDepLoop = [i \in 1..(n - at + 1) |-> stack[at + i - 1].item]
  BY DEF FoundDepLoop
<1> HIDE DEF n, at
<1>5. at \in Nat /\ at >= 1 /\ at <= n - 1
  BY <1>1, <1>2
<1>6. n - at + 1 \in Nat /\ n - at + 1 > 1
  BY <1>1, <1>5
<1>7. Len(FoundDepLoop) = n - at + 1
  BY <1>4, <1>6
<1>8. FoundDepLoop[1] = FoundDepLoop[Len(FoundDepLoop)]
  <2>1. at + 1 - 1 = at /\ at + (n - at + 1) - 1 = n
    BY <1>1, <1>5
  <2>2. 1 \in 1..(n - at + 1) /\ n - at + 1 \in 1..(n - at + 1)
    BY <1>6
  <2> QED
    BY <1>2, <1>4, <1>7, <2>1, <2>2
<1>9. ASSUME NEW i \in 1..(Len(FoundDepLoop) - 1)
      PROVE  Leads(w, FoundDepLoop[i], FoundDepLoop[i + 1])
  <2>1. i \in 1..((n - at + 1) - 1)
    BY <1>7, <1>9, Zenon
  <2>2. /\ i \in 1..(n - at + 1) /\ i + 1 \in 1..(n - at + 1)
        /\ at + i - 1 \in 1..(n - 1) /\ at + (i + 1) - 1 = (at + i - 1) + 1
    BY <1>1, <1>5, <2>1
  <2> QED
    BY <1>3, <1>4, <2>2
<1> QED
  BY <1>6, <1>7, <1>8, <1>9

\* What is reported is a loop.
THEOREM ReportedLoopsAreClosed == LoopSpec => []ReportedLoopIsClosed
<1>1. Inv => ReportedLoopIsClosed
  BY ReportIsClosed
<1> QED
  BY <1>1, SearchInvariance, PTL

----------------------------------------------------------------------------
(* The utility, and what holds of the files.                               *)

\* A program goes on from a file as the file calls for.
GoesOn ==
    \/ proc.file \in {Config, Json} /\ proc.then \in {"export", "idle"}
    \/ proc.file = Header /\ proc.then = "sync"
    \/ proc.file = AutoConf /\ proc.then = "compile"

ProgramOK ==
    /\ proc = [pc |-> proc.pc, file |-> proc.file, lines |-> proc.lines, then |-> proc.then,
               edited |-> proc.edited, seen |-> proc.seen, previous |-> proc.previous]
    /\ build = [runs |-> build.runs, crashes |-> build.crashes, kept |-> build.kept,
                made |-> build.made, touched |-> build.touched, torn |-> build.torn]
    /\ build.crashes \in Nat /\ build.torn \in BOOLEAN
    /\ proc.pc \in {"idle", "tool", "open", "writing", "export", "set", "header", "sync", "compile"}
    /\ At_("open") => proc.then \in {"export", "idle"}
    /\ At_("writing") => GoesOn

\* The configuration that was saved last is in .config, or in the old file while
\* .config is replaced; after a crash it is in one of them until the next save.
Kept(name) == Exists(name) /\ disk[name] = build.kept
Replacing == At_("open") \/ (At_("writing") /\ proc.file = Config)
KeptOK ==
    build.kept # <<>> =>
        /\ build.crashes = 0 => IF Replacing THEN Kept(Old(Config)) ELSE Kept(Config)
        /\ build.crashes = 1 /\ ~Replacing => Kept(Config) \/ Kept(Old(Config))

\* An object file is made from the values u, or its source was touched.
MadeFrom(u) ==
    build.made # <<>> =>
        \A s \in Defined(w) : build.made[s] = SeenOf(w, u)[s] \/ s \in build.touched
SyncedTo(u) == Exists(AutoConf) /\ disk[AutoConf] = AutoOf(w, u)

Compares(U) == ChangesAreTouched(w, U, SeenOf, AutoOf, TouchedOf)

\* U is the user values that the programs hold.  When it is empty, nothing is said of
\* auto.conf.
Relied(U) == U # {} => user \in U /\ Compares(U)

\* What auto.conf says the object files are made from is true of those that were not
\* touched.
AutoOK(U) ==
    U # {} /\ ~build.torn =>
        IF At_("writing") /\ proc.file = AutoConf THEN proc.lines = AutoOf(w, user) /\ MadeFrom(user)
        ELSE IF At_("compile") THEN SyncedTo(user) /\ MadeFrom(user)
        ELSE build.made # <<>> => \E u \in U : SyncedTo(u) /\ MadeFrom(u)

FilesInv(U) == ProgramOK /\ KeptOK /\ AutoOK(U)

Same(name) == (Exists(name)' <=> Exists(name)) /\ (Exists(name) => disk'[name] = disk[name])

\* A step that leaves .config and the old file, and saves nothing.
LEMMA KeptStays ==
    ASSUME KeptOK, ~Replacing, ~Replacing', Same(Config), Same(Old(Config)),
           build'.kept = build.kept, build'.crashes = build.crashes
    PROVE  KeptOK'
BY DEF KeptOK, Kept, Same, Exists

\* A step that leaves auto.conf and the object files.
LEMMA AutoStays ==
    ASSUME NEW U, AutoOK(U), ~At_("compile"), ~At_("compile")', ~(At_("writing") /\ proc.file = AutoConf),
           ~(At_("writing") /\ proc.file = AutoConf)', Same(AutoConf), w' = w,
           build'.made = build.made, build'.touched = build.touched, build'.torn = build.torn
    PROVE  AutoOK(U)'
<1> SUFFICES ASSUME U # {}, ~build'.torn, build'.made # <<>>
             PROVE  \E u \in U : SyncedTo(u)' /\ MadeFrom(u)'
  BY DEF AutoOK
<1>1. PICK u \in U : SyncedTo(u) /\ MadeFrom(u)
  BY DEF AutoOK
<1>2. SyncedTo(u)' /\ MadeFrom(u)'
  BY <1>1 DEF SyncedTo, MadeFrom, Same, Exists
<1> QED
  BY <1>2

LEMMA SameDisk == ASSUME disk' = disk PROVE \A name : Same(name)
BY DEF Same, Exists

LEMMA PutElsewhere ==
    ASSUME NEW file, NEW lines, disk' = Put(disk, file, lines)
    PROVE  /\ \A name : name # file => Same(name)
           /\ Exists(file)' /\ disk'[file] = lines
BY DEF Same, Exists, Put

LEMMA OldIsApart ==
    Old(Config) # Config /\ Old(Config) # Json /\ Old(Config) # Header /\ Old(Config) # AutoConf
BY OldAssumption

\* A program that starts, or goes on, without touching the files.
LEMMA QuietStep ==
    ASSUME NEW U, Relied(U), Relied(U)', FilesInv(U), ProgramOK', ~Replacing, ~Replacing', disk' = disk, w' = w,
           ~At_("compile"), ~At_("compile")', ~At_("writing"), ~At_("writing")',
           build'.kept = build.kept, build'.crashes = build.crashes,
           build'.made = build.made, build'.touched = build.touched, build'.torn = build.torn
    PROVE  FilesInv(U)'
BY SameDisk, KeptStays, AutoStays DEF FilesInv

LEMMA StartUtilityInv ==
    ASSUME NEW U, Relied(U), Relied(U)', FilesInv(U), StartUtility PROVE FilesInv(U)'
<1>1. /\ At_("idle") /\ disk' = disk /\ w' = w /\ build' = [build EXCEPT !.runs = @ + 1]
      /\ \E p : proc' = [Idle EXCEPT !.pc = "tool", !.previous = p]
  BY DEF StartUtility, Started
<1>2. ProgramOK'
  BY <1>1 DEF FilesInv, ProgramOK, Idle, At_
<1> QED
  BY <1>1, <1>2, QuietStep DEF Idle, FilesInv, ProgramOK, At_, Replacing

LEMMA EditInv ==
    ASSUME NEW U, Relied(U), Relied(U)', FilesInv(U), Edit PROVE FilesInv(U)'
<1>1. /\ At_("tool") /\ disk' = disk /\ w' = w /\ build' = build
      /\ proc' = [proc EXCEPT !.edited = TRUE]
  BY DEF Edit
<1>2. ProgramOK'
  BY <1>1 DEF FilesInv, ProgramOK, At_
<1> QED
  BY <1>1, <1>2, QuietStep DEF FilesInv, ProgramOK, At_, Replacing

LEMMA QuitToolInv ==
    ASSUME NEW U, Relied(U), Relied(U)', FilesInv(U), QuitTool PROVE FilesInv(U)'
<1>1. /\ At_("tool") /\ disk' = disk /\ w' = w /\ build' = build
      /\ proc' = [proc EXCEPT !.pc = "export"] \/ proc' = Idle
  BY DEF QuitTool
<1>2. CASE proc' = [proc EXCEPT !.pc = "export"]
  <2>1. ProgramOK'
    BY <1>1, <1>2 DEF FilesInv, ProgramOK, At_
  <2> QED
    BY <1>1, <1>2, <2>1, QuietStep DEF FilesInv, ProgramOK, At_, Replacing
<1>3. CASE proc' = Idle
  <2>1. ProgramOK'
    BY <1>1, <1>3 DEF FilesInv, ProgramOK, At_, Idle
  <2> QED
    BY <1>1, <1>3, <2>1, QuietStep DEF FilesInv, ProgramOK, At_, Replacing, Idle
<1> QED
  BY <1>1, <1>2, <1>3

LEMMA SetconfigInv ==
    ASSUME NEW U, Relied(U), Relied(U)', FilesInv(U), Setconfig PROVE FilesInv(U)'
<1>1. /\ At_("idle") /\ disk' = disk /\ w' = w /\ build' = [build EXCEPT !.runs = @ + 1]
      /\ proc' = [Idle EXCEPT !.pc = "set"] \/ proc' = proc
  BY DEF Setconfig, Started
<1>2. ProgramOK'
  BY <1>1 DEF FilesInv, ProgramOK, At_, Idle
<1> QED
  BY <1>1, <1>2, QuietStep DEF FilesInv, ProgramOK, At_, Replacing, Idle

LEMMA StartBuildInv ==
    ASSUME NEW U, Relied(U), Relied(U)', FilesInv(U), StartBuild PROVE FilesInv(U)'
<1>1. /\ At_("idle") /\ disk' = disk /\ w' = w /\ build' = [build EXCEPT !.runs = @ + 1]
      /\ proc' = [Idle EXCEPT !.pc = "header"]
  BY DEF StartBuild, Started
<1>2. ProgramOK'
  BY <1>1 DEF FilesInv, ProgramOK, At_, Idle
<1> QED
  BY <1>1, <1>2, QuietStep DEF FilesInv, ProgramOK, At_, Replacing, Idle

\* write_config: the file is left, or what it holds is kept in the old one.
LEMMA WriteConfigInv ==
    ASSUME NEW U, Relied(U), Relied(U)', FilesInv(U), At_("tool") \/ At_("set"), NEW u, NEW then \in {"export", "idle"},
           WriteConfig(u, then), w' = w
    PROVE  FilesInv(U)'
<1> DEFINE lines == ConfigOf(w, u)
<1>1. CASE /\ Exists(Config) /\ disk[Config] = lines /\ disk' = disk
           /\ proc' = [proc EXCEPT !.pc = then, !.seen = Values(u)]
           /\ build' = [build EXCEPT !.kept = lines]
  <2>1. ProgramOK'
    BY <1>1 DEF FilesInv, ProgramOK, At_
  <2>2. KeptOK'
    <3>1. Kept(Config)'
      BY <1>1 DEF Kept, Exists, FilesInv, ProgramOK
    <3>2. ~Replacing'
      BY <1>1 DEF Replacing, At_, FilesInv, ProgramOK
    <3> QED
      BY <3>1, <3>2 DEF KeptOK
  <2>3. AutoOK(U)'
    <3>1. /\ ~At_("compile") /\ ~At_("writing") /\ ~At_("compile")' /\ ~At_("writing")'
          /\ build'.made = build.made /\ build'.touched = build.touched
          /\ build'.torn = build.torn
      BY <1>1 DEF At_, FilesInv, ProgramOK
    <3> QED
      BY <1>1, <3>1, SameDisk, AutoStays DEF FilesInv
  <2> QED
    BY <2>1, <2>2, <2>3 DEF FilesInv
<1>2. CASE /\ disk' = SaveOld(disk, Config)
           /\ proc' = [proc EXCEPT !.pc = "open", !.lines = lines, !.then = then, !.seen = Values(u)]
           /\ build' = build
  <2>1. ProgramOK'
    BY <1>2 DEF FilesInv, ProgramOK, At_
  <2>2. KeptOK'
    <3>1. Replacing' /\ ~Replacing
      BY <1>2 DEF Replacing, At_, FilesInv, ProgramOK
    <3>2. ASSUME Kept(Config) PROVE Kept(Old(Config))'
      BY <1>2, <3>2, OldIsApart DEF Kept, Exists, SaveOld
    <3> QED
      BY <1>2, <3>1, <3>2 DEF KeptOK, FilesInv
  <2>3. AutoOK(U)'
    <3>1. /\ ~At_("compile") /\ ~At_("writing") /\ ~At_("compile")' /\ ~At_("writing")'
      BY <1>2 DEF At_, FilesInv, ProgramOK
    <3>2. Same(AutoConf)
      BY <1>2, OldIsApart DEF Same, Exists, SaveOld, AutoConf, Config
    <3> QED
      BY <1>2, <3>1, <3>2, AutoStays DEF FilesInv
  <2> QED
    BY <2>1, <2>2, <2>3 DEF FilesInv
<1> QED
  BY <1>1, <1>2 DEF WriteConfig, _contents_eq, Exists

\* A file other than .config is opened, or found as it should be.
LEMMA OpenInv ==
    ASSUME NEW U, Relied(U), Relied(U)', FilesInv(U), ~Replacing, ~At_("compile"), ~At_("writing"),
           NEW name \in {Json, Header}, NEW lines, NEW then, OpenFor(disk, name, lines, then),
           name = Json => then = "idle", name = Header => then = "sync",
           w' = w, build' = build
    PROVE  FilesInv(U)'
<1>1. /\ disk' = Put(disk, name, <<>>)
      /\ proc' = [proc EXCEPT !.pc = "writing", !.file = name, !.lines = lines, !.then = then]
  BY DEF OpenFor
<1>2. ProgramOK'
  BY <1>1 DEF FilesInv, ProgramOK, At_, GoesOn, Json, Header, Config
<1>3. proc'.file = name /\ At_("writing")' /\ ~At_("compile")'
  BY <1>1 DEF FilesInv, ProgramOK, At_
<1>4. ~Replacing' /\ name # AutoConf /\ name # Config /\ name # Old(Config)
  BY <1>3, OldIsApart DEF Replacing, At_, Json, Header, Config, AutoConf
<1>5. Same(Config) /\ Same(Old(Config)) /\ Same(AutoConf)
  BY <1>1, <1>4, PutElsewhere
<1> QED
  BY <1>2, <1>3, <1>4, <1>5, KeptStays, AutoStays DEF FilesInv

LEMMA OpenConfigInv ==
    ASSUME NEW U, Relied(U), Relied(U)', FilesInv(U), OpenConfig PROVE FilesInv(U)'
<1>1. /\ At_("open") /\ w' = w /\ kconf' = kconf /\ build' = build
      /\ disk' = Put(disk, Config, <<>>)
      /\ proc' = [proc EXCEPT !.pc = "writing", !.file = Config, !.lines = proc.lines,
                              !.then = proc.then]
  BY DEF OpenConfig, OpenFor
<1>2. ProgramOK'
  BY <1>1 DEF FilesInv, ProgramOK, At_, GoesOn
<1>3. /\ Replacing /\ Replacing' /\ ~At_("compile") /\ ~At_("compile")' /\ ~At_("writing")
      /\ proc'.file = Config
  BY <1>1 DEF FilesInv, ProgramOK, At_, Replacing
<1>4. Same(Old(Config)) /\ Same(AutoConf)
  BY <1>1, PutElsewhere, OldIsApart DEF Config, AutoConf
<1>5. KeptOK'
  BY <1>1, <1>3, <1>4 DEF FilesInv, KeptOK, Kept, Same, Exists
<1>6. AutoOK(U)'
  BY <1>1, <1>3, <1>4, AutoStays DEF FilesInv, Config, AutoConf
<1> QED
  BY <1>2, <1>5, <1>6 DEF FilesInv

LEMMA ExportInv ==
    ASSUME NEW U, Relied(U), Relied(U)', FilesInv(U), Export PROVE FilesInv(U)'
<1>1. /\ At_("export") /\ w' = w /\ build' = build
      /\ \/ proc' = Idle /\ disk' = disk
         \/ \E lines : OpenFor(disk, Json, lines, "idle")
  BY DEF Export
<1>2. ~Replacing /\ ~At_("compile") /\ ~At_("writing")
  BY <1>1 DEF At_, Replacing
<1>3. CASE proc' = Idle /\ disk' = disk
  <2>1. ProgramOK'
    BY <1>1, <1>3 DEF FilesInv, ProgramOK, At_, Idle
  <2> QED
    BY <1>1, <1>2, <1>3, <2>1, QuietStep DEF At_, Replacing, Idle
<1>4. CASE \E lines : OpenFor(disk, Json, lines, "idle")
  <2>1. PICK lines : OpenFor(disk, Json, lines, "idle")
    BY <1>4
  <2>2. Json # Header
    BY DEF Json, Header
  <2> QED
    BY <1>1, <1>2, <2>1, <2>2, OpenInv
<1> QED
  BY <1>1, <1>3, <1>4

LEMMA WriteAutoconfInv ==
    ASSUME NEW U, Relied(U), Relied(U)', FilesInv(U), WriteAutoconf PROVE FilesInv(U)'
<1>1. /\ At_("header") /\ w' = w /\ build' = build
      /\ \/ proc' = [proc EXCEPT !.pc = "sync"] /\ disk' = disk
         \/ \E lines : OpenFor(disk, Header, lines, "sync")
  BY DEF WriteAutoconf, WriteIfChanged, Goto, _contents_eq
<1>2. ~Replacing /\ ~At_("compile") /\ ~At_("writing")
  BY <1>1 DEF At_, Replacing
<1>3. CASE proc' = [proc EXCEPT !.pc = "sync"] /\ disk' = disk
  <2>1. ProgramOK' /\ proc'.pc = "sync"
    BY <1>1, <1>3 DEF FilesInv, ProgramOK, At_
  <2> QED
    BY <1>1, <1>2, <1>3, <2>1, QuietStep DEF At_, Replacing
<1>4. CASE \E lines : OpenFor(disk, Header, lines, "sync")
  <2>1. PICK lines : OpenFor(disk, Header, lines, "sync")
    BY <1>4
  <2>2. Json # Header
    BY DEF Json, Header
  <2> QED
    BY <1>1, <1>2, <2>1, <2>2, OpenInv
<1> QED
  BY <1>1, <1>3, <1>4

\* A file is complete.  If it is .config, this is the configuration that was saved.
LEMMA CloseInv ==
    ASSUME NEW U, Relied(U), Relied(U)', FilesInv(U), Close PROVE FilesInv(U)'
<1>1. /\ At_("writing") /\ w' = w /\ kconf' = kconf /\ disk' = Put(disk, proc.file, proc.lines)
      /\ proc' = IF proc.then = "idle" THEN Idle
                 ELSE [proc EXCEPT !.pc = proc.then, !.file = "", !.lines = <<>>]
      /\ build' = IF proc.file = Config THEN [build EXCEPT !.kept = proc.lines] ELSE build
  BY DEF Close
<1>2. GoesOn /\ ProgramOK /\ KeptOK /\ AutoOK(U)
  BY <1>1 DEF FilesInv, ProgramOK
<1>3. proc'.pc = proc.then /\ proc.then \in {"export", "idle", "sync", "compile"}
  BY <1>1, <1>2 DEF ProgramOK, GoesOn, Idle
<1>4. ProgramOK'
  <2>1. CASE proc.then = "idle"
    BY <1>1, <1>2, <2>1 DEF ProgramOK, At_, Idle
  <2>2. CASE proc.then # "idle"
    BY <1>1, <1>2, <1>3, <2>2 DEF ProgramOK, At_
  <2> QED
    BY <2>1, <2>2
<1>5. ~Replacing' /\ ~At_("writing")' /\ ~At_("compile")
  BY <1>1, <1>3 DEF Replacing, At_
<1>6. /\ build'.made = build.made /\ build'.touched = build.touched
      /\ build'.torn = build.torn /\ build'.crashes = build.crashes
      /\ proc.file # Config => build'.kept = build.kept
      /\ proc.file = Config => build'.kept = proc.lines
  BY <1>1, <1>2 DEF ProgramOK
<1>7. KeptOK'
  <2>1. CASE proc.file = Config
    <3>1. Kept(Config)'
      BY <1>1, <1>6, <2>1, PutElsewhere DEF Kept
    <3> QED
      BY <1>5, <3>1 DEF KeptOK
  <2>2. CASE proc.file # Config
    <3>1. proc.file # Old(Config)
      BY <1>2, <2>2, OldIsApart DEF GoesOn
    <3>2. Same(Config) /\ Same(Old(Config))
      BY <1>1, <2>2, <3>1, PutElsewhere
    <3>3. ~Replacing
      BY <1>1, <2>2 DEF Replacing, At_
    <3> QED
      BY <1>2, <1>5, <1>6, <2>2, <3>2, <3>3, KeptStays
  <2> QED
    BY <2>1, <2>2
<1>8. AutoOK(U)'
  <2>1. CASE proc.file = AutoConf
    <3>1. proc'.pc = "compile"
      BY <1>2, <1>3, <2>1 DEF GoesOn, Config, Json, Header, AutoConf
    <3>2. ASSUME U # {}, ~build'.torn PROVE SyncedTo(user)' /\ MadeFrom(user)'
      <4>1. proc.lines = AutoOf(w, user) /\ MadeFrom(user)
        BY <1>1, <1>2, <1>6, <2>1, <3>2 DEF AutoOK
      <4>2. user' = user
        BY <1>1 DEF user
      <4>3. SyncedTo(user)'
        BY <1>1, <2>1, <4>1, <4>2, PutElsewhere DEF SyncedTo
      <4>4. MadeFrom(user)'
        BY <1>1, <1>6, <4>1, <4>2 DEF MadeFrom
      <4> QED
        BY <4>3, <4>4
    <3> QED
      <4>1. ~At_("writing")' /\ At_("compile")'
        BY <3>1 DEF At_
      <4> QED
        BY <3>2, <4>1 DEF AutoOK
  <2>2. CASE proc.file # AutoConf
    <3>1. ~At_("compile")'
      BY <1>2, <1>3, <2>2 DEF GoesOn, At_
    <3>2. Same(AutoConf)
      BY <1>1, <2>2, PutElsewhere
    <3> QED
      BY <1>1, <1>2, <1>5, <1>6, <2>2, <3>1, <3>2, AutoStays
  <2> QED
    BY <2>1, <2>2
<1> QED
  BY <1>4, <1>7, <1>8 DEF FilesInv

\* The sources of what has changed are touched; before auto.conf is written.
LEMMA SyncDepsInv ==
    ASSUME NEW U, Relied(U), Relied(U)', FilesInv(U), SyncDeps PROVE FilesInv(U)'
<1>1. /\ At_("sync") /\ w' = w /\ kconf' = kconf
      /\ build' = [build EXCEPT !.touched = @ \cup FirstTouched(Len(ToBeTouched))]
      /\ \/ /\ Exists(AutoConf) /\ disk[AutoConf] = AutoOf(w, user)
            /\ proc' = [proc EXCEPT !.pc = "compile"] /\ disk' = disk
         \/ /\ disk' = Put(disk, AutoConf, <<>>)
            /\ proc' = [proc EXCEPT !.pc = "writing", !.file = AutoConf,
                                    !.lines = AutoOf(w, user), !.then = "compile"]
  BY DEF SyncDeps, WriteIfChanged, Goto, OpenFor, _contents_eq, Exists
<1>2. ProgramOK /\ KeptOK /\ AutoOK(U)
  BY DEF FilesInv
<1>3. /\ build'.made = build.made /\ build'.torn = build.torn /\ build'.kept = build.kept
      /\ build'.crashes = build.crashes
      /\ build'.touched = build.touched \cup FirstTouched(Len(ToBeTouched))
  BY <1>1, <1>2 DEF ProgramOK
<1>4. user' = user
  BY <1>1 DEF user
\* What is not touched is as it was.
<1>5. ASSUME U # {}, ~build'.torn PROVE MadeFrom(user)'
  <2> SUFFICES ASSUME build'.made # <<>>, NEW s \in Defined(w)
               PROVE  build'.made[s] = SeenOf(w, user)[s] \/ s \in build'.touched
    BY <1>1, <1>4 DEF MadeFrom
  <2>1. PICK v \in U : SyncedTo(v) /\ MadeFrom(v)
    BY <1>1, <1>2, <1>3, <1>5 DEF AutoOK, At_
  <2>2. CASE SeenOf(w, user)[s] = SeenOf(w, v)[s]
    BY <1>3, <2>1, <2>2 DEF MadeFrom
  <2>3. CASE SeenOf(w, user)[s] # SeenOf(w, v)[s]
    <3>1. ToBeTouched = TouchedOf(w, user, AutoOf(w, v))
      BY <2>1 DEF ToBeTouched, SyncedTo
    <3>2. \E i \in 1..Len(ToBeTouched) : ToBeTouched[i] = s
      BY <1>5, <2>1, <2>3, <3>1 DEF Relied, Compares, ChangesAreTouched
    <3> QED
      BY <1>3, <3>2 DEF FirstTouched
  <2> QED
    BY <2>2, <2>3
<1>6. ~Replacing
  BY <1>1 DEF Replacing, At_
<1>7. CASE /\ Exists(AutoConf) /\ disk[AutoConf] = AutoOf(w, user)
           /\ proc' = [proc EXCEPT !.pc = "compile"] /\ disk' = disk
  <2>1. ProgramOK' /\ proc'.pc = "compile"
    BY <1>1, <1>2, <1>7 DEF ProgramOK, At_
  <2>2. KeptOK'
    BY <1>2, <1>3, <1>6, <1>7, <2>1, SameDisk, KeptStays DEF Replacing, At_
  <2>3. SyncedTo(user)'
    BY <1>1, <1>4, <1>7 DEF SyncedTo, Exists
  <2>4. AutoOK(U)'
    BY <1>5, <2>1, <2>3 DEF AutoOK, At_
  <2> QED
    BY <2>1, <2>2, <2>4 DEF FilesInv
<1>8. CASE /\ disk' = Put(disk, AutoConf, <<>>)
           /\ proc' = [proc EXCEPT !.pc = "writing", !.file = AutoConf,
                                   !.lines = AutoOf(w, user), !.then = "compile"]
  <2>1. /\ proc'.pc = "writing" /\ proc'.file = AutoConf /\ proc'.lines = AutoOf(w, user)
        /\ proc'.then = "compile"
    BY <1>2, <1>8 DEF ProgramOK
  <2>2. ProgramOK'
    BY <1>1, <1>2, <1>8, <2>1 DEF ProgramOK, At_, GoesOn
  <2>3. KeptOK'
    <3>1. ~Replacing'
      BY <2>1 DEF Replacing, At_, Config, AutoConf
    <3>2. Same(Config) /\ Same(Old(Config))
      BY <1>8, PutElsewhere, OldIsApart DEF Config, AutoConf
    <3> QED
      BY <1>2, <1>3, <1>6, <3>1, <3>2, KeptStays
  <2>4. AutoOK(U)'
    BY <1>1, <1>4, <1>5, <2>1 DEF AutoOK, At_
  <2> QED
    BY <2>2, <2>3, <2>4 DEF FilesInv
<1> QED
  BY <1>1, <1>7, <1>8

\* The object files of what was touched are made again, which is all that had to be.
LEMMA CompileMakes ==
    ASSUME NEW U, U # {}, Relied(U), FilesInv(U), Compile, ~build.torn
    PROVE  build'.made = SeenOf(w, user)
<1>1. /\ At_("compile")
      /\ build' = [build EXCEPT !.touched = {}, !.made =
                     [s \in Defined(w) |->
                        IF @ = <<>> \/ s \in build.touched THEN SeenOf(w, user)[s] ELSE @[s]]]
  BY DEF Compile
<1>2. MadeFrom(user)
  BY <1>1 DEF FilesInv, AutoOK, At_
<1>3. build'.made = [s \in Defined(w) |->
                       IF build.made = <<>> \/ s \in build.touched THEN SeenOf(w, user)[s]
                       ELSE build.made[s]]
  BY <1>1 DEF FilesInv, ProgramOK
<1>4. \A s \in Defined(w) :
        (IF build.made = <<>> \/ s \in build.touched THEN SeenOf(w, user)[s] ELSE build.made[s])
          = SeenOf(w, user)[s]
  BY <1>2 DEF MadeFrom
<1>5. SeenOf(w, user) = [s \in Defined(w) |-> SeenOf(w, user)[s]]
  BY DEF Relied, Compares, ChangesAreTouched
<1> QED
  BY <1>3, <1>4, <1>5

LEMMA CompileInv ==
    ASSUME NEW U, Relied(U), Relied(U)', FilesInv(U), Compile PROVE FilesInv(U)'
<1>1. /\ At_("compile") /\ proc' = Idle /\ disk' = disk /\ w' = w /\ kconf' = kconf
      /\ \E m : build' = [build EXCEPT !.touched = {}, !.made = m]
  BY DEF Compile, storeVars
<1>2. ProgramOK /\ KeptOK /\ AutoOK(U)
  BY DEF FilesInv
<1>3. /\ build'.kept = build.kept /\ build'.crashes = build.crashes
      /\ build'.torn = build.torn
  BY <1>1, <1>2 DEF ProgramOK
<1>4. ProgramOK'
  BY <1>1, <1>2 DEF ProgramOK, At_, Idle
<1>5. KeptOK'
  BY <1>1, <1>2, <1>3, SameDisk, KeptStays DEF Replacing, At_, Idle
<1>6. AutoOK(U)'
  <2> SUFFICES ASSUME U # {}, ~build'.torn PROVE \E u \in U : SyncedTo(u)' /\ MadeFrom(u)'
    BY <1>1 DEF AutoOK, At_, Idle
  <2>1. SyncedTo(user)
    BY <1>1, <1>2, <1>3 DEF AutoOK, At_
  <2>2. build'.made = SeenOf(w, user)
    BY <1>3, CompileMakes
  <2>3. user' = user
    BY <1>1 DEF user
  <2>4. user \in U
    BY DEF Relied
  <2>5. ASSUME NEW u \in U, u = user PROVE SyncedTo(u)' /\ MadeFrom(u)'
    BY <1>1, <2>1, <2>2, <2>3, <2>5 DEF SyncedTo, MadeFrom, Exists
  <2> QED
    BY <2>4, <2>5
<1> QED
  BY <1>4, <1>5, <1>6 DEF FilesInv

LEMMA CrashInv ==
    ASSUME NEW U, Relied(U), Relied(U)', FilesInv(U), Crash PROVE FilesInv(U)'
<1>1. /\ ~At_("idle") /\ proc' = Idle /\ w' = w
      /\ \E lines : disk' = IF At_("writing") THEN Put(disk, proc.file, lines) ELSE disk
      /\ \E more : build' = [build EXCEPT !.crashes = @ + 1,
                                          !.torn = @ \/ (At_("writing") /\ proc.file = AutoConf),
                                          !.touched = @ \cup more]
  <2>1. \E part : build' = [build EXCEPT !.crashes = @ + 1,
                              !.torn = @ \/ (At_("writing") /\ proc.file = AutoConf),
                              !.touched = IF At_("sync") THEN @ \cup FirstTouched(part) ELSE @]
    BY DEF Crash
  <2>2. \E more : build' = [build EXCEPT !.crashes = @ + 1,
                              !.torn = @ \/ (At_("writing") /\ proc.file = AutoConf),
                              !.touched = @ \cup more]
    <3>1. PICK part : build' = [build EXCEPT !.crashes = @ + 1,
                              !.torn = @ \/ (At_("writing") /\ proc.file = AutoConf),
                              !.touched = IF At_("sync") THEN @ \cup FirstTouched(part) ELSE @]
      BY <2>1
    <3>2. (IF At_("sync") THEN build.touched \cup FirstTouched(part) ELSE build.touched)
            = build.touched \cup (IF At_("sync") THEN FirstTouched(part) ELSE {})
      OBVIOUS
    <3> DEFINE extra == IF At_("sync") THEN FirstTouched(part) ELSE {}
    <3> WITNESS extra
    <3> QED
      BY <3>1, <3>2
  <2> QED
    BY <2>2 DEF Crash
<1>2. ProgramOK /\ KeptOK /\ AutoOK(U)
  BY DEF FilesInv
<1>3. /\ build'.made = build.made /\ build'.kept = build.kept
      /\ build'.crashes = build.crashes + 1
      /\ build'.torn = (build.torn \/ (At_("writing") /\ proc.file = AutoConf))
      /\ build.touched \subseteq build'.touched
  BY <1>1, <1>2 DEF ProgramOK
<1>4. ProgramOK'
  <2>1. build'.torn \in BOOLEAN
    BY <1>3
  <2>2. build'.crashes \in Nat
    BY <1>2, <1>3 DEF ProgramOK
  <2>3. build' = [runs |-> build'.runs, crashes |-> build'.crashes, kept |-> build'.kept,
                  made |-> build'.made, touched |-> build'.touched, torn |-> build'.torn]
    <3>0. PICK more : build' = [build EXCEPT !.crashes = @ + 1,
                                   !.torn = @ \/ (At_("writing") /\ proc.file = AutoConf),
                                   !.touched = @ \cup more]
      BY <1>1
    <3> DEFINE b1 == build.crashes + 1
               c1 == build.torn \/ (At_("writing") /\ proc.file = AutoConf)
               d1 == build.touched \cup more
    <3>2. build' = [build EXCEPT !.crashes = b1, !.torn = c1, !.touched = d1]
      BY <3>0, Zenon
    <3> HIDE DEF b1, c1, d1
    <3>1. PICK b, c, d : build' = [build EXCEPT !.crashes = b, !.torn = c, !.touched = d]
      BY <3>2, Zenon
    <3> QED
      BY <1>2, <3>1 DEF ProgramOK
  <2> QED
    BY <1>1, <2>1, <2>2, <2>3 DEF ProgramOK, At_, Idle
<1>5. ~Replacing' /\ ~At_("compile")' /\ ~At_("writing")'
  BY <1>1 DEF Replacing, At_, Idle
<1>6. PICK lines : disk' = IF At_("writing") THEN Put(disk, proc.file, lines) ELSE disk
  BY <1>1
<1>7. KeptOK'
  <2> SUFFICES ASSUME build.kept # <<>>, build'.crashes = 1
               PROVE  Kept(Config)' \/ Kept(Old(Config))'
    BY <1>2, <1>3, <1>5 DEF KeptOK, ProgramOK
  <2>1. build.crashes = 0
    BY <1>2, <1>3 DEF ProgramOK
  <2>2. CASE Replacing
    <3>1. Same(Old(Config))
      BY <1>6, <2>2, SameDisk, PutElsewhere, OldIsApart DEF Replacing, At_
    <3>2. Kept(Old(Config))
      BY <1>2, <2>1, <2>2 DEF KeptOK
    <3> QED
      BY <1>3, <3>1, <3>2 DEF Kept, Same, Exists
  <2>3. CASE ~Replacing
    <3>1. Same(Config)
      BY <1>6, <2>3, SameDisk, PutElsewhere DEF Replacing
    <3>2. Kept(Config)
      BY <1>2, <2>1, <2>3 DEF KeptOK
    <3> QED
      BY <1>3, <3>1, <3>2 DEF Kept, Same, Exists
  <2> QED
    BY <2>2, <2>3
<1>8. AutoOK(U)'
  <2> SUFFICES ASSUME U # {}, ~build'.torn, build'.made # <<>>
               PROVE  \E u \in U : SyncedTo(u)' /\ MadeFrom(u)'
    BY <1>5 DEF AutoOK
  <2>1. ~build.torn /\ ~(At_("writing") /\ proc.file = AutoConf)
    BY <1>3
  <2>2. Same(AutoConf)
    BY <1>6, <2>1, SameDisk, PutElsewhere
  <2>3. \E u \in U : SyncedTo(u) /\ MadeFrom(u)
    <3>1. CASE At_("compile")
      BY <1>2, <2>1, <3>1 DEF AutoOK, Relied
    <3>2. CASE ~At_("compile")
      BY <1>2, <1>3, <2>1, <3>2 DEF AutoOK
    <3> QED
      BY <3>1, <3>2
  <2>4. PICK u \in U : SyncedTo(u) /\ MadeFrom(u)
    BY <2>3
  <2>5. SyncedTo(u)' /\ MadeFrom(u)'
    BY <1>1, <1>3, <2>2, <2>4 DEF SyncedTo, MadeFrom, Same, Exists
  <2> QED
    BY <2>5
<1> QED
  BY <1>4, <1>7, <1>8 DEF FilesInv

LEMMA UtilityStutterInv == ASSUME NEW U, Relied(U), Relied(U)', FilesInv(U), UNCHANGED <<storeVars, utilityVars>> PROVE FilesInv(U)'
<1>1. w' = w /\ kconf' = kconf /\ disk' = disk /\ proc' = proc /\ build' = build
  BY DEF storeVars, utilityVars
<1>2. ProgramOK' /\ KeptOK'
  BY <1>1 DEF FilesInv, ProgramOK, KeptOK, Kept, Exists, Replacing, At_, GoesOn
<1>3. AutoOK(U)'
  BY <1>1 DEF FilesInv, AutoOK, SyncedTo, MadeFrom, Exists, At_, user
<1> QED
  BY <1>2, <1>3 DEF FilesInv

LEMMA UtilityInitInv == ASSUME NEW U, Relied(U), UtilityInit PROVE FilesInv(U)
<1>1. /\ proc = Idle /\ kconf = Made(w)
      /\ \/ disk = [name \in {} |-> <<>>] /\ build = NewBuild
         \/ /\ disk = DefaultFiles
            /\ build = [NewBuild EXCEPT !.kept = disk[Config], !.made = SeenOf(w, Made(w).user)]
  BY DEF UtilityInit
<1>2. ProgramOK
  <2>1. CASE build = NewBuild
    BY <1>1, <2>1 DEF ProgramOK, Idle, NewBuild, At_
  <2>2. CASE build = [NewBuild EXCEPT !.kept = disk[Config], !.made = SeenOf(w, Made(w).user)]
    BY <1>1, <2>2 DEF ProgramOK, Idle, NewBuild, At_
  <2> QED
    BY <1>1, <2>1, <2>2
<1>3. ~Replacing /\ ~At_("compile") /\ ~At_("writing")
  BY <1>1 DEF Replacing, At_, Idle
<1>4. CASE disk = [name \in {} |-> <<>>] /\ build = NewBuild
  BY <1>2, <1>3, <1>4 DEF FilesInv, KeptOK, AutoOK, NewBuild
<1>5. CASE /\ disk = DefaultFiles
           /\ build = [NewBuild EXCEPT !.kept = disk[Config], !.made = SeenOf(w, Made(w).user)]
  <2>1. build.kept = disk[Config] /\ build.made = SeenOf(w, Made(w).user) /\ build.crashes = 0
    BY <1>5 DEF NewBuild
  <2>2. Exists(Config) /\ Exists(AutoConf) /\ disk[AutoConf] = AutoOf(w, Made(w).user)
    BY <1>5 DEF DefaultFiles, Exists, Config, Json, Header, AutoConf
  <2>3. KeptOK
    BY <1>3, <2>1, <2>2 DEF KeptOK, Kept
  <2>4. SyncedTo(user) /\ MadeFrom(user)
    BY <1>1, <2>1, <2>2 DEF SyncedTo, MadeFrom, user
  <2>5. AutoOK(U)
    BY <1>3, <2>4 DEF AutoOK, Relied
  <2> QED
    BY <1>2, <2>3, <2>5 DEF FilesInv
<1> QED
  BY <1>1, <1>4, <1>5

LEMMA UtilityStepInv ==
    ASSUME NEW U, Relied(U), Relied(U)', FilesInv(U), [UtilityNext]_<<storeVars, utilityVars>>
    PROVE  FilesInv(U)'
<1>1. ASSUME Save \/ SaveSet PROVE FilesInv(U)'
  <2>1. At_("tool") \/ At_("set")
    BY <1>1 DEF Save, SaveSet
  <2>2. PICK then \in {"export", "idle"} : WriteConfig(user, then) /\ w' = w
    BY <1>1 DEF Save, SaveSet
  <2> QED
    BY <2>1, <2>2, WriteConfigInv
<1> QED
  BY <1>1, StartUtilityInv, EditInv, QuitToolInv, OpenConfigInv, ExportInv, SetconfigInv,
     StartBuildInv, WriteAutoconfInv, SyncDepsInv, CompileInv, CloseInv, CrashInv,
     UtilityStutterInv DEF UtilityNext

\* The inductive invariant holds of every run of the utility.
LEMMA UtilityInvariance ==
    ASSUME NEW CONSTANT U
    PROVE  UtilitySpec /\ []Relied(U) => []FilesInv(U)
<1>1. UtilityInit /\ Relied(U) => FilesInv(U)
  BY UtilityInitInv
<1>2. FilesInv(U) /\ Relied(U) /\ Relied(U)' /\ [UtilityNext]_<<storeVars, utilityVars>>
        => FilesInv(U)'
  BY UtilityStepInv
<1> QED
  BY <1>1, <1>2, PTL DEF UtilitySpec

\* One crash is survived, whatever the files hold, and however often the programs run.
THEOREM SavedIsNotLost == UtilitySpec => []OneCrashIsSurvived
<1>1. FilesInv({}) => OneCrashIsSurvived
  <2> SUFFICES ASSUME FilesInv({}), At_("idle"), build.crashes <= 1, build.kept # <<>>
               PROVE  Kept(Config) \/ Kept(Old(Config))
    BY DEF OneCrashIsSurvived, Kept
  <2>1. ~Replacing
    BY DEF Replacing, At_
  <2>2. build.crashes = 0 \/ build.crashes = 1
    BY DEF FilesInv, ProgramOK
  <2> QED
    BY <2>1, <2>2 DEF FilesInv, KeptOK
<1>2. Relied({})
  BY DEF Relied
<1>3. UtilityInit => FilesInv({})
  BY <1>2, UtilityInitInv
<1>4. FilesInv({}) /\ [UtilityNext]_<<storeVars, utilityVars>> => FilesInv({})'
  <2>1. Relied({})'
    BY DEF Relied
  <2> QED
    BY <1>2, <2>1, UtilityStepInv
<1> QED
  BY <1>1, <1>3, <1>4, PTL DEF UtilitySpec

\* If no symbol that differs from auto.conf goes unnoticed, among the user values that
\* the programs ever hold, then no build misses a change, whatever was interrupted
\* before it.
THEOREM EveryChangeIsMade ==
    ASSUME NEW CONSTANT U
    PROVE  UtilitySpec /\ [](user \in U /\ Compares(U)) => NoChangeIsMissed
<1>1. FilesInv(U) /\ user \in U /\ Compares(U) =>
        (Compile /\ ~build.torn => build'.made = SeenOf(w, user))
  BY CompileMakes DEF Relied
<1>2. user \in U /\ Compares(U) => Relied(U)
  BY DEF Relied
<1>3. UtilitySpec /\ []Relied(U) => []FilesInv(U)
  BY UtilityInvariance
<1> QED
  BY <1>1, <1>2, <1>3, PTL DEF NoChangeIsMissed

----------------------------------------------------------------------------
(* What the JSON file is made from.                                         *)

\* From the file that is there, the values are read that were saved; and so they will be
\* from the lines that are about to be written.
Shows(lines) == Values(Read(w, Made(w), lines).user) = proc.seen
SavedOK ==
    /\ At_("tool") => proc.seen = <<>>
    /\ Replacing => Shows(proc.lines)
    /\ At_("writing") /\ proc.file = Json => proc.then = "idle"
    /\ At_("export") /\ proc.seen # <<>> => Exists(Config) /\ Shows(disk[Config])

\* User values for which writing and reading is the identity on the values.
Faithful(U) == user \in U /\ RoundTrips(w, U, Made, Read, ConfigOf, ValuesIn)

LEMMA SavedStep ==
    ASSUME NEW U, Faithful(U), FilesInv({}), FilesInv({})', SavedOK,
           [UtilityNext]_<<storeVars, utilityVars>>
    PROVE  SavedOK'
<1> USE DEF FilesInv
<1>1. CASE StartUtility
  BY <1>1 DEF StartUtility, SavedOK, At_, Idle, Replacing
<1>2. CASE Edit
  <2>1. At_("tool") /\ proc' = [proc EXCEPT !.edited = TRUE]
    BY <1>2 DEF Edit
  <2> QED
    BY <2>1 DEF SavedOK, At_, ProgramOK, Replacing
<1>3. CASE QuitTool
  <2>1. At_("tool") /\ (proc' = [proc EXCEPT !.pc = "export"] \/ proc' = Idle)
    BY <1>3 DEF QuitTool
  <2>2. CASE proc' = Idle
    BY <2>2 DEF SavedOK, At_, Replacing, Idle
  <2>3. CASE proc' = [proc EXCEPT !.pc = "export"]
    BY <2>1, <2>3 DEF SavedOK, At_, ProgramOK, Replacing
  <2> QED
    BY <2>1, <2>2, <2>3
<1>4. CASE Save \/ SaveSet
  <2>1. PICK then \in {"export", "idle"} : WriteConfig(user, then) /\ w' = w
    BY <1>4 DEF Save, SaveSet
  <2>2. Values(Read(w, Made(w), ConfigOf(w, user)).user) = Values(user)
    BY DEF Faithful, RoundTrips, Values
  <2>3. CASE /\ Exists(Config) /\ disk[Config] = ConfigOf(w, user) /\ disk' = disk
             /\ proc' = [proc EXCEPT !.pc = then, !.seen = Values(user)]
    <3>1. proc'.pc = then /\ proc'.seen = Values(user)
      BY <2>3 DEF ProgramOK
    <3>2. (Exists(Config) /\ Shows(disk[Config]))'
      BY <2>1, <2>2, <2>3, <3>1 DEF Exists, Shows, Values
    <3> QED
      BY <3>1, <3>2 DEF SavedOK, At_, Replacing
  <2>4. CASE proc' = [proc EXCEPT !.pc = "open", !.lines = ConfigOf(w, user), !.then = then,
                                  !.seen = Values(user)]
    <3>1. proc'.pc = "open" /\ proc'.seen = Values(user) /\ proc'.lines = ConfigOf(w, user)
      BY <2>4 DEF ProgramOK
    <3>2. Shows(proc.lines)'
      BY <2>1, <2>2, <3>1 DEF Shows, Values
    <3> QED
      BY <3>1, <3>2 DEF SavedOK, At_
  <2> QED
    BY <2>1, <2>3, <2>4 DEF WriteConfig, _contents_eq, Exists
<1>5. CASE OpenConfig
  <2>1. /\ At_("open") /\ w' = w
        /\ proc' = [proc EXCEPT !.pc = "writing", !.file = Config, !.lines = proc.lines,
                                !.then = proc.then]
    BY <1>5 DEF OpenConfig, OpenFor
  <2>2. /\ proc'.pc = "writing" /\ proc'.file = Config /\ proc'.lines = proc.lines
        /\ proc'.seen = proc.seen
    BY <2>1 DEF ProgramOK
  <2>3. Shows(proc.lines)'
    BY <2>1, <2>2 DEF SavedOK, Replacing, Shows, Values
  <2> QED
    BY <2>2, <2>3 DEF SavedOK, At_, Config, Json
<1>6. CASE Export
  <2>1. PICK lines : \/ proc' = Idle
                     \/ proc' = [proc EXCEPT !.pc = "writing", !.file = Json, !.lines = lines,
                                             !.then = "idle"]
    BY <1>6 DEF Export, OpenFor
  <2>2. CASE proc' = Idle
    BY <2>2 DEF SavedOK, At_, Replacing, Idle
  <2>3. CASE proc' = [proc EXCEPT !.pc = "writing", !.file = Json, !.lines = lines, !.then = "idle"]
    BY <2>3 DEF SavedOK, At_, Replacing, ProgramOK, Json, Config
  <2> QED
    BY <2>1, <2>2, <2>3
<1>7. CASE Setconfig
  <2>1. At_("idle") /\ (proc' = [Idle EXCEPT !.pc = "set"] \/ proc' = proc)
    BY <1>7 DEF Setconfig
  <2> QED
    BY <2>1 DEF SavedOK, At_, Idle, Replacing
<1>8. CASE StartBuild
  BY <1>8 DEF StartBuild, SavedOK, At_, Idle, Replacing
<1>9. CASE WriteAutoconf
  <2>1. PICK lines : \/ proc' = [proc EXCEPT !.pc = "sync"]
                     \/ proc' = [proc EXCEPT !.pc = "writing", !.file = Header, !.lines = lines,
                                             !.then = "sync"]
    BY <1>9 DEF WriteAutoconf, WriteIfChanged, Goto, OpenFor, _contents_eq
  <2> QED
    BY <2>1 DEF SavedOK, At_, Replacing, ProgramOK, Json, Config, Header
<1>10. CASE SyncDeps
  <2>1. PICK lines : \/ proc' = [proc EXCEPT !.pc = "compile"]
                     \/ proc' = [proc EXCEPT !.pc = "writing", !.file = AutoConf, !.lines = lines,
                                             !.then = "compile"]
    BY <1>10 DEF SyncDeps, WriteIfChanged, Goto, OpenFor, _contents_eq, Exists
  <2> QED
    BY <2>1 DEF SavedOK, At_, Replacing, ProgramOK, Json, Config, AutoConf
<1>11. CASE Compile
  BY <1>11 DEF Compile, SavedOK, At_, Idle, Replacing
\* A file is complete: what is exported next was written just now.
<1>12. CASE Close
  <2>1. /\ At_("writing") /\ GoesOn /\ w' = w /\ disk' = Put(disk, proc.file, proc.lines)
        /\ proc' = IF proc.then = "idle" THEN Idle
                   ELSE [proc EXCEPT !.pc = proc.then, !.file = "", !.lines = <<>>]
    BY <1>12 DEF Close, ProgramOK
  <2>2. CASE proc.then = "idle"
    BY <2>1, <2>2 DEF SavedOK, At_, Idle, Replacing
  <2>3. CASE proc.then # "idle"
    <3>1. proc'.pc = proc.then /\ proc'.seen = proc.seen
      BY <2>1, <2>3 DEF ProgramOK
    <3>2. CASE proc.then = "export"
      <4>1. proc.file = Config
        BY <2>1, <3>2 DEF GoesOn, SavedOK, Json
      <4>2. Shows(proc.lines) /\ Exists(Config)' /\ disk'[Config] = proc.lines
        BY <2>1, <4>1, PutElsewhere DEF SavedOK, Replacing
      <4>3. Shows(disk[Config])'
        BY <2>1, <3>1, <4>2 DEF Shows, Values
      <4> QED
        BY <3>1, <3>2, <4>2, <4>3 DEF SavedOK, At_, Replacing
    <3>3. CASE proc.then # "export"
      <4>1. proc.then \in {"sync", "compile"}
        BY <2>1, <2>3, <3>3 DEF GoesOn
      <4> QED
        BY <3>1, <4>1 DEF SavedOK, At_, Replacing
    <3> QED
      BY <3>2, <3>3
  <2> QED
    BY <2>2, <2>3
<1>13. CASE Crash
  BY <1>13 DEF Crash, SavedOK, At_, Idle, Replacing
<1>14. CASE UNCHANGED <<storeVars, utilityVars>>
  <2>1. w' = w /\ disk' = disk /\ proc' = proc
    BY <1>14 DEF storeVars, utilityVars
  <2> QED
    BY <2>1 DEF SavedOK, At_, Replacing, Exists, Shows, Values
<1> QED
  BY <1>1, <1>2, <1>3, <1>4, <1>5, <1>6, <1>7, <1>8, <1>9, <1>10, <1>11, <1>12, <1>13, <1>14
     DEF UtilityNext

\* If what is written for the user values that the programs ever hold is read as the
\* same values, then the JSON file is made from the values that the tool had in memory,
\* although they have gone through .config.
THEOREM ExportIsWhatWasSaved ==
    ASSUME NEW CONSTANT U
    PROVE  UtilitySpec /\ []Faithful(U) => []JsonShowsWhatWasSaved
<1>1. UtilityInit => FilesInv({}) /\ SavedOK
  <2> SUFFICES ASSUME UtilityInit PROVE FilesInv({}) /\ SavedOK
    OBVIOUS
  <2>1. FilesInv({})
    BY UtilityInitInv DEF Relied
  <2> QED
    BY <2>1 DEF UtilityInit, SavedOK, At_, Idle, Replacing
<1>2. Faithful(U) /\ FilesInv({}) /\ SavedOK /\ [UtilityNext]_<<storeVars, utilityVars>>
        => (FilesInv({}) /\ SavedOK)'
  <2> SUFFICES ASSUME Faithful(U), FilesInv({}), SavedOK, [UtilityNext]_<<storeVars, utilityVars>>
               PROVE  FilesInv({})' /\ SavedOK'
    OBVIOUS
  <2>1. Relied({}) /\ Relied({})'
    BY DEF Relied
  <2>2. FilesInv({})'
    BY <2>1, UtilityStepInv
  <2> QED
    BY <2>2, SavedStep
<1>3. SavedOK => JsonShowsWhatWasSaved
  BY DEF SavedOK, JsonShowsWhatWasSaved, Shows
<1> QED
  BY <1>1, <1>2, <1>3, PTL DEF UtilitySpec

----------------------------------------------------------------------------
(* Positions in a list.                                                     *)

LEMMA DownOnScreen ==
    ASSUME NEW list, Len(list) \in Nat, NEW sel \in Int, NEW scroll \in Int, NEW height \in Nat \ {0},
           OnScreen(list, sel, scroll, height), sel + 1 < Len(list), NEW to,
           to = IF sel + 1 >= scroll + height - _SCROLL_OFFSET /\ scroll < _max_scroll(list, height)
                THEN scroll + 1 ELSE scroll
    PROVE  to \in Int /\ OnScreen(list, sel + 1, to, height)
<1> DEFINE len == Len(list)
<1>1. len \in Nat /\ sel \in 0..(len - 1) /\ scroll >= 0 /\ sel - scroll \in 0..(height - 1)
      /\ sel + 1 < len
  BY DEF OnScreen
<1>2. _max_scroll(list, height) = IF len - height < 0 THEN 0 ELSE len - height
  BY DEF _max_scroll, AtLeast
<1> HIDE DEF len
<1>3. to \in Int /\ to >= 0 /\ sel + 1 - to \in 0..(height - 1)
  BY <1>1, <1>2 DEF _SCROLL_OFFSET
<1> QED
  BY <1>1, <1>3 DEF OnScreen, len

LEMMA UpOnScreen ==
    ASSUME NEW list, Len(list) \in Nat, NEW sel \in Int, NEW scroll \in Int, NEW height \in Nat \ {0},
           OnScreen(list, sel, scroll, height), sel # 0, NEW to,
           to = IF sel - 1 < scroll + _SCROLL_OFFSET THEN AtLeast(0, scroll - 1) ELSE scroll
    PROVE  to \in Int /\ OnScreen(list, sel - 1, to, height)
BY DEF OnScreen, _SCROLL_OFFSET, AtLeast

LEMMA EndsOnScreen ==
    ASSUME NEW list, Len(list) \in Nat \ {0}, NEW height \in Nat \ {0}
    PROVE  /\ OnScreen(list, 0, 0, height)
           /\ _max_scroll(list, height) \in Int
           /\ OnScreen(list, Len(list) - 1, _max_scroll(list, height), height)
BY DEF OnScreen, _max_scroll, AtLeast

\* A screen that has become lower or higher.
LEMMA ResizedOnScreen ==
    ASSUME NEW list, Len(list) \in Nat, NEW sel \in Int, NEW scroll \in Int, NEW height \in Nat \ {0},
           NEW was \in Nat \ {0}, OnScreen(list, sel, scroll, was), NEW to,
           to = IF sel - scroll >= height THEN sel - height + 1 ELSE scroll
    PROVE  to \in Int /\ OnScreen(list, sel, to, height)
BY DEF OnScreen

\* Half of the screen above the selected entry, where there is room.
LEMMA CenterOnScreen ==
    ASSUME NEW list, Len(list) \in Nat, NEW height \in Nat \ {0}, NEW sel \in 0..(Len(list) - 1),
           NEW to, to = AtMost(_max_scroll(list, height), AtLeast(0, sel - height \div 2))
    PROVE  to \in Int /\ OnScreen(list, sel, to, height)
<1>1. PICK half \in Nat : half = height \div 2 /\ half <= height - 1
  OBVIOUS
<1> QED
  BY <1>1 DEF OnScreen, _max_scroll, AtLeast, AtMost

\* On a row of the screen, or as near to it as the beginning of the list allows.
LEMMA PlacedOnScreen ==
    ASSUME NEW list, Len(list) \in Nat, NEW height \in Nat \ {0}, NEW sel \in 0..(Len(list) - 1),
           NEW row \in 0..(height - 1), NEW to, to = AtLeast(0, sel - row)
    PROVE  to \in Int /\ OnScreen(list, sel, to, height)
BY DEF OnScreen, AtLeast

----------------------------------------------------------------------------
(* The nodes.                                                               *)

\* The state of a display with something on it.
Display(m) ==
    /\ m = [f \in DOMAIN m |-> m[f]]
    /\ {"shown", "sel", "scroll", "height", "screen", "help", "mode", "jump"} \subseteq DOMAIN m
    /\ Len(m.shown) \in Nat /\ m.sel \in Int /\ m.scroll \in Int /\ m.height \in Nat \ {0}
    /\ m.screen \in Nat /\ m.help \in BOOLEAN

Fine(m) == Display(m) /\ NodeOnScreen(m)

LEMMA MovedFine ==
    ASSUME NEW m, Display(m), NEW sel \in Int, NEW scroll \in Int,
           OnScreen(m.shown, sel, scroll, m.height),
           NEW n, n = [m EXCEPT !.sel = sel, !.scroll = scroll]
    PROVE  Fine(n)
<1>1. Display(n)
  BY DEF Display
<1>2. n.shown = m.shown /\ n.sel = sel /\ n.scroll = scroll /\ n.height = m.height
  BY DEF Display
<1> QED
  BY <1>1, <1>2 DEF Fine, NodeOnScreen

LEMMA NextFine ==
    ASSUME NEW m, Fine(m), NEW n, n = _select_next_menu_entry(m)
    PROVE  Fine(n)
<1>1. CASE m.sel >= Len(m.shown) - 1
  BY <1>1 DEF _select_next_menu_entry
<1>2. CASE ~(m.sel >= Len(m.shown) - 1)
  <2> DEFINE to == IF /\ m.sel + 1 >= m.scroll + m.height - _SCROLL_OFFSET
                      /\ m.scroll < _max_scroll(m.shown, m.height) THEN m.scroll + 1 ELSE m.scroll
  <2>1. n = [m EXCEPT !.sel = m.sel + 1, !.scroll = to]
    BY <1>2 DEF _select_next_menu_entry
  <2>2. /\ Len(m.shown) \in Nat /\ m.sel \in Int /\ m.scroll \in Int /\ m.height \in Nat \ {0}
        /\ OnScreen(m.shown, m.sel, m.scroll, m.height) /\ m.sel + 1 < Len(m.shown)
        /\ Display(m)
    BY <1>2 DEF Fine, Display, NodeOnScreen
  <2>3. to \in Int /\ OnScreen(m.shown, m.sel + 1, to, m.height)
    BY <2>2, DownOnScreen
  <2> HIDE DEF to
  <2>4. m.sel + 1 \in Int
    BY <2>2
  <2> QED
    BY <2>1, <2>2, <2>3, <2>4, MovedFine
<1> QED
  BY <1>1, <1>2

LEMMA PrevFine ==
    ASSUME NEW m, Fine(m), NEW n, n = _select_prev_menu_entry(m)
    PROVE  Fine(n)
<1>1. CASE m.sel = 0
  BY <1>1 DEF _select_prev_menu_entry
<1>2. CASE m.sel # 0
  <2> DEFINE to == IF m.sel - 1 < m.scroll + _SCROLL_OFFSET THEN AtLeast(0, m.scroll - 1)
                   ELSE m.scroll
  <2>1. n = [m EXCEPT !.sel = m.sel - 1, !.scroll = to]
    BY <1>2 DEF _select_prev_menu_entry
  <2>2. /\ Len(m.shown) \in Nat /\ m.sel \in Int /\ m.scroll \in Int /\ m.height \in Nat \ {0}
        /\ OnScreen(m.shown, m.sel, m.scroll, m.height) /\ Display(m)
    BY DEF Fine, Display, NodeOnScreen
  <2>3. to \in Int /\ OnScreen(m.shown, m.sel - 1, to, m.height)
    BY <1>2, <2>2, UpOnScreen
  <2> HIDE DEF to
  <2>4. m.sel - 1 \in Int
    BY <2>2
  <2> QED
    BY <2>1, <2>2, <2>3, <2>4, MovedFine
<1> QED
  BY <1>1, <1>2

LEMMA EndsFine ==
    ASSUME NEW m, Fine(m)
    PROVE  Fine(_select_first_menu_entry(m)) /\ Fine(_select_last_menu_entry(m))
<1>1. /\ Len(m.shown) \in Nat \ {0} /\ m.height \in Nat \ {0} /\ Display(m)
      /\ Len(m.shown) - 1 \in Int /\ 0 \in Int
  BY DEF Fine, Display, NodeOnScreen, OnScreen
<1>2. Fine(_select_first_menu_entry(m))
  BY <1>1, EndsOnScreen, MovedFine DEF _select_first_menu_entry
<1>3. Fine(_select_last_menu_entry(m))
  BY <1>1, EndsOnScreen, MovedFine DEF _select_last_menu_entry
<1> QED
  BY <1>2, <1>3

\* Another size of the screen, or of the help below the list.
LEMMA ResizedFine ==
    ASSUME NEW m, Fine(m), NEW screen \in Nat, NEW help \in BOOLEAN, NEW n,
           n = _resize_main([m EXCEPT !.screen = screen, !.help = help])
    PROVE  Fine(n)
<1> DEFINE k == [m EXCEPT !.screen = screen, !.help = help]
           h == MenuHeight(k)
           to == IF m.sel - m.scroll >= h THEN m.sel - h + 1 ELSE m.scroll
<1>1. /\ Len(m.shown) \in Nat /\ m.sel \in Int /\ m.scroll \in Int /\ m.height \in Nat \ {0}
      /\ OnScreen(m.shown, m.sel, m.scroll, m.height) /\ Display(m)
  BY DEF Fine, Display, NodeOnScreen
<1>2. /\ Display(k) /\ k.screen = screen /\ k.help = help /\ k.shown = m.shown
      /\ k.sel = m.sel /\ k.scroll = m.scroll
  BY <1>1 DEF Display
<1>3. h \in Nat \ {0}
  BY <1>2 DEF MenuHeight, AtLeast, _SHOW_HELP_HEIGHT, MainHelpHeight
<1>4. n = [k EXCEPT !.height = h, !.scroll = to]
  BY <1>2 DEF _resize_main
<1> HIDE DEF h, k
<1>5. to \in Int /\ OnScreen(m.shown, m.sel, to, h)
  BY <1>1, <1>3, ResizedOnScreen
<1> HIDE DEF to
<1>6. Display(n)
  BY <1>2, <1>3, <1>4, <1>5 DEF Display
<1>7. n.shown = m.shown /\ n.sel = m.sel /\ n.scroll = to /\ n.height = h
  BY <1>2, <1>4 DEF Display
<1> QED
  BY <1>5, <1>6, <1>7 DEF Fine, NodeOnScreen

\* Other nodes, of which one is selected.
LEMMA PlacedFine ==
    ASSUME NEW m, Display(m), NEW shown, Len(shown) \in Nat, NEW i \in 0..(Len(shown) - 1),
           NEW row \in 0..(m.height - 1)
    PROVE  Fine(Placed(m, shown, i, row))
<1> DEFINE to == AtLeast(0, i - row)
<1>1. m.height \in Nat \ {0} /\ i \in Int
  BY DEF Display
<1>2. to \in Int /\ OnScreen(shown, i, to, m.height)
  BY <1>1, PlacedOnScreen
<1>3. Placed(m, shown, i, row) = [m EXCEPT !.shown = shown, !.sel = i, !.scroll = to]
  BY DEF Placed
<1> HIDE DEF to
<1> DEFINE n == [m EXCEPT !.shown = shown, !.sel = i, !.scroll = to]
<1>4. Display(n)
  BY <1>1, <1>2 DEF Display
<1>5. n.shown = shown /\ n.sel = i /\ n.scroll = to /\ n.height = m.height
  BY DEF Display
<1> HIDE DEF n
<1>6. Fine(n)
  BY <1>2, <1>4, <1>5 DEF Fine, NodeOnScreen
<1> QED
  BY <1>3, <1>6 DEF n

LEMMA CenterFine ==
    ASSUME NEW m, Display(m), m.sel \in 0..(Len(m.shown) - 1)
    PROVE  Fine(_center_vertically(m))
<1> DEFINE to == AtMost(_max_scroll(m.shown, m.height), AtLeast(0, m.sel - m.height \div 2))
<1>1. m.height \in Nat \ {0} /\ Len(m.shown) \in Nat /\ m.sel \in Int
  BY DEF Display
<1>2. to \in Int /\ OnScreen(m.shown, m.sel, to, m.height)
  BY <1>1, CenterOnScreen
<1>3. _center_vertically(m) = [m EXCEPT !.sel = m.sel, !.scroll = to]
  BY DEF _center_vertically, Display
<1> HIDE DEF to
<1> QED
  BY <1>1, <1>2, <1>3, MovedFine

LEMMA PagesFine ==
    ASSUME NEW m, Fine(m)
    PROVE  Fine(Page(_select_next_menu_entry, m)) /\ Fine(Page(_select_prev_menu_entry, m))
<1>1. \A n : Fine(n) => Fine(_select_next_menu_entry(n))
  BY NextFine
<1>2. \A n : Fine(n) => Fine(_select_prev_menu_entry(n))
  BY PrevFine
<1>3. Fine(Page(_select_next_menu_entry, m))
  BY <1>1 DEF Page
<1>4. Fine(Page(_select_prev_menu_entry, m))
  BY <1>2 DEF Page
<1> QED
  BY <1>3, <1>4

\* Whatever list is shown and however high the screen is: the selected node is one of
\* the list and on the screen after every key that moves the selection, after a change
\* of the sizes, and when other nodes are shown, of which one is selected: on the row
\* where it was, on a row of the parent menu, or in the middle.
THEOREM NodeStaysOnScreen ==
    ASSUME NEW m, Display(m), NodeOnScreen(m)
    PROVE  /\ NodeOnScreen(_select_next_menu_entry(m)) /\ NodeOnScreen(_select_prev_menu_entry(m))
           /\ NodeOnScreen(_select_first_menu_entry(m)) /\ NodeOnScreen(_select_last_menu_entry(m))
           /\ NodeOnScreen(Page(_select_next_menu_entry, m))
           /\ NodeOnScreen(Page(_select_prev_menu_entry, m))
           /\ \A screen \in Nat, help \in BOOLEAN :
                NodeOnScreen(_resize_main([m EXCEPT !.screen = screen, !.help = help]))
           /\ \A shown : Len(shown) \in Nat => \A i \in 0..(Len(shown) - 1) :
                /\ NodeOnScreen(Reselected(m, shown, i))
                /\ \A row \in Nat : NodeOnScreen(Placed(m, shown, i, AtMost(m.height - 1, row)))
                /\ NodeOnScreen(_center_vertically([m EXCEPT !.shown = shown, !.sel = i]))
<1>1. Fine(m)
  BY DEF Fine
<1>2. \A n : Fine(n) => NodeOnScreen(n)
  BY DEF Fine
<1>3. /\ NodeOnScreen(_select_next_menu_entry(m)) /\ NodeOnScreen(_select_prev_menu_entry(m))
      /\ NodeOnScreen(_select_first_menu_entry(m)) /\ NodeOnScreen(_select_last_menu_entry(m))
      /\ NodeOnScreen(Page(_select_next_menu_entry, m))
      /\ NodeOnScreen(Page(_select_prev_menu_entry, m))
  <2>1. Fine(_select_next_menu_entry(m)) /\ Fine(_select_prev_menu_entry(m))
    BY <1>1, NextFine, PrevFine
  <2> QED
    BY <1>1, <1>2, <2>1, EndsFine, PagesFine
<1>4. ASSUME NEW screen \in Nat, NEW help \in BOOLEAN
      PROVE  NodeOnScreen(_resize_main([m EXCEPT !.screen = screen, !.help = help]))
  BY <1>1, <1>2, ResizedFine
<1>5. ASSUME NEW shown, Len(shown) \in Nat, NEW i \in 0..(Len(shown) - 1)
      PROVE  /\ NodeOnScreen(Reselected(m, shown, i))
             /\ \A row \in Nat : NodeOnScreen(Placed(m, shown, i, AtMost(m.height - 1, row)))
             /\ NodeOnScreen(_center_vertically([m EXCEPT !.shown = shown, !.sel = i]))
  <2>1. NodeOnScreen(Reselected(m, shown, i))
    <3>1. m.sel - m.scroll \in 0..(m.height - 1) /\ ~(i < 0)
      BY <1>5 DEF NodeOnScreen, OnScreen
    <3> QED
      BY <1>2, <1>5, <3>1, PlacedFine DEF Reselected
  <2>2. ASSUME NEW row \in Nat PROVE NodeOnScreen(Placed(m, shown, i, AtMost(m.height - 1, row)))
    <3>1. AtMost(m.height - 1, row) \in 0..(m.height - 1)
      BY DEF AtMost, Display
    <3> QED
      BY <1>2, <1>5, <3>1, PlacedFine
  <2>3. NodeOnScreen(_center_vertically([m EXCEPT !.shown = shown, !.sel = i]))
    <3>1. PICK n : n = [m EXCEPT !.shown = shown, !.sel = i]
      OBVIOUS
    <3>2. /\ DOMAIN n = DOMAIN m /\ n = [f \in DOMAIN n |-> n[f]]
          /\ n.sel = i /\ n.shown = shown /\ n.scroll = m.scroll /\ n.height = m.height
          /\ n.screen = m.screen /\ n.help = m.help
      BY <3>1 DEF Display
    <3>3. Display(n) /\ n.sel = i /\ n.shown = shown
      BY <1>5, <3>2 DEF Display
    <3> QED
      BY <1>2, <1>5, <3>1, <3>3, CenterFine
  <2> QED
    BY <2>1, <2>2, <2>3
<1> QED
  BY <1>3, <1>4, <1>5

----------------------------------------------------------------------------
(* The matches.                                                             *)

Dialog(m) ==
    /\ m = [f \in DOMAIN m |-> m[f]] /\ "jump" \in DOMAIN m
    /\ m.jump = [f \in DOMAIN m.jump |-> m.jump[f]]
    /\ {"matches", "sel", "scroll", "screen"} \subseteq DOMAIN m.jump
    /\ Len(m.jump.matches) \in Nat /\ (m.jump.matches # <<>> => Len(m.jump.matches) # 0)
    /\ m.jump.sel \in Int /\ m.jump.scroll \in Int /\ m.jump.screen \in Nat

MatchFine(m) == Dialog(m) /\ MatchOnScreen(m)

LEMMA MatchMoved ==
    ASSUME NEW m, Dialog(m), NEW sel \in Int, NEW scroll \in Int,
           m.jump.matches # <<>> => OnScreen(m.jump.matches, sel, scroll, MatchesHeight(m)),
           NEW n, n = [m EXCEPT !.jump.sel = sel, !.jump.scroll = scroll]
    PROVE  MatchFine(n)
<1>1. n.jump = [m.jump EXCEPT !.sel = sel, !.scroll = scroll] /\ DOMAIN n = DOMAIN m
  BY DEF Dialog
<1>2. /\ n.jump.matches = m.jump.matches /\ n.jump.sel = sel /\ n.jump.scroll = scroll
      /\ n.jump.screen = m.jump.screen /\ DOMAIN n.jump = DOMAIN m.jump
      /\ n.jump = [f \in DOMAIN n.jump |-> n.jump[f]]
  BY <1>1 DEF Dialog
<1>3. Dialog(n)
  <2>1. n = [f \in DOMAIN n |-> n[f]] /\ "jump" \in DOMAIN n
    BY <1>1 DEF Dialog
  <2> QED
    BY <1>2, <2>1 DEF Dialog
<1>4. MatchesHeight(n) = MatchesHeight(m)
  BY <1>2 DEF MatchesHeight
<1> QED
  BY <1>2, <1>3, <1>4 DEF MatchFine, MatchOnScreen

LEMMA MatchFacts ==
    ASSUME NEW m, MatchFine(m)
    PROVE  /\ Dialog(m) /\ MatchesHeight(m) \in Nat \ {0}
           /\ Len(m.jump.matches) \in Nat /\ m.jump.sel \in Int /\ m.jump.scroll \in Int
           /\ m.jump.matches # <<>> =>
                /\ Len(m.jump.matches) \in Nat \ {0}
                /\ OnScreen(m.jump.matches, m.jump.sel, m.jump.scroll, MatchesHeight(m))
BY DEF MatchFine, MatchOnScreen, Dialog, MatchesHeight, AtLeast, JumpHelpHeight

LEMMA NextMatchFine ==
    ASSUME NEW m, MatchFine(m), NEW n, n = select_next_match(m)
    PROVE  MatchFine(n)
<1> DEFINE j == m.jump
           h == MatchesHeight(m)
           to == IF j.sel + 1 >= j.scroll + h - _SCROLL_OFFSET /\ j.scroll < _max_scroll(j.matches, h)
                 THEN j.scroll + 1 ELSE j.scroll
<1>1. CASE j.sel = Len(j.matches) - 1
  BY <1>1 DEF select_next_match
<1>2. CASE j.sel # Len(j.matches) - 1
  <2>1. n = [m EXCEPT !.jump.sel = j.sel + 1, !.jump.scroll = to]
    BY <1>2 DEF select_next_match
  <2>2. j.matches # <<>> => to \in Int /\ OnScreen(j.matches, j.sel + 1, to, h)
    <3> SUFFICES ASSUME j.matches # <<>>
                 PROVE  to \in Int /\ OnScreen(j.matches, j.sel + 1, to, h)
      OBVIOUS
    <3>1. /\ Len(j.matches) \in Nat /\ j.sel \in Int /\ j.scroll \in Int /\ h \in Nat \ {0}
          /\ OnScreen(j.matches, j.sel, j.scroll, h)
      BY MatchFacts
    <3> HIDE DEF j, h
    <3>2. j.sel + 1 < Len(j.matches)
      BY <1>2, <3>1 DEF OnScreen
    <3> QED
      BY <3>1, <3>2, DownOnScreen
  <2>3. to \in Int /\ j.sel + 1 \in Int
    BY MatchFacts
  <2> HIDE DEF to
  <2> QED
    BY <2>1, <2>2, <2>3, MatchFacts, MatchMoved
<1> QED
  BY <1>1, <1>2

LEMMA PrevMatchFine ==
    ASSUME NEW m, MatchFine(m), NEW n, n = select_prev_match(m)
    PROVE  MatchFine(n)
<1> DEFINE j == m.jump
           to == IF j.sel - 1 < j.scroll + _SCROLL_OFFSET THEN AtLeast(0, j.scroll - 1)
                 ELSE j.scroll
<1>1. CASE j.sel = 0
  BY <1>1 DEF select_prev_match
<1>2. CASE j.sel # 0
  <2>1. n = [m EXCEPT !.jump.sel = j.sel - 1, !.jump.scroll = to]
    BY <1>2 DEF select_prev_match
  <2>2. j.matches # <<>> => to \in Int /\ OnScreen(j.matches, j.sel - 1, to, MatchesHeight(m))
    BY <1>2, MatchFacts, UpOnScreen
  <2>3. to \in Int /\ j.sel - 1 \in Int
    BY MatchFacts DEF AtLeast
  <2> HIDE DEF to
  <2> QED
    BY <2>1, <2>2, <2>3, MatchFacts, MatchMoved
<1> QED
  BY <1>1, <1>2

LEMMA EndMatchesFine ==
    ASSUME NEW m, MatchFine(m)
    PROVE  MatchFine(select_first_match(m)) /\ MatchFine(select_last_match(m))
<1> DEFINE j == m.jump
           h == MatchesHeight(m)
<1>1. MatchFine(select_first_match(m))
  <2>1. 0 \in Int /\ (j.matches # <<>> => OnScreen(j.matches, 0, 0, h))
    BY MatchFacts, EndsOnScreen
  <2>2. select_first_match(m) = [m EXCEPT !.jump.sel = 0, !.jump.scroll = 0]
    BY DEF select_first_match
  <2> QED
    BY <2>1, <2>2, MatchFacts, MatchMoved
<1>2. MatchFine(select_last_match(m))
  <2>1. j.matches # <<>> => OnScreen(j.matches, Len(j.matches) - 1, _max_scroll(j.matches, h), h)
    BY MatchFacts, EndsOnScreen
  <2>2. Len(j.matches) - 1 \in Int /\ _max_scroll(j.matches, h) \in Int
    BY MatchFacts DEF _max_scroll, AtLeast
  <2> QED
    BY <2>1, <2>2, MatchFacts, MatchMoved DEF select_last_match
<1> QED
  BY <1>1, <1>2

LEMMA ResizedMatchFine ==
    ASSUME NEW m, MatchFine(m), NEW screen \in Nat, NEW n,
           n = _resize_jump_to_dialog([m EXCEPT !.jump.screen = screen])
    PROVE  MatchFine(n)
<1> DEFINE k == [m EXCEPT !.jump.screen = screen]
           h == MatchesHeight(k)
           to == IF m.jump.sel - m.jump.scroll >= h THEN m.jump.sel - h + 1 ELSE m.jump.scroll
<1>1. k.jump = [m.jump EXCEPT !.screen = screen] /\ DOMAIN k = DOMAIN m
  BY MatchFacts DEF Dialog
<1>2. /\ k.jump.matches = m.jump.matches /\ k.jump.sel = m.jump.sel
      /\ k.jump.scroll = m.jump.scroll /\ k.jump.screen = screen
      /\ DOMAIN k.jump = DOMAIN m.jump /\ k.jump = [f \in DOMAIN k.jump |-> k.jump[f]]
  BY <1>1, MatchFacts DEF Dialog
<1>3. Dialog(k)
  <2>1. k = [f \in DOMAIN k |-> k[f]] /\ "jump" \in DOMAIN k
    BY <1>1, MatchFacts DEF Dialog
  <2> HIDE DEF k
  <2> QED
    BY <1>2, <2>1, MatchFacts DEF Dialog
<1>4. h \in Nat \ {0}
  BY <1>2 DEF MatchesHeight, AtLeast, JumpHelpHeight
<1>5. n = [k EXCEPT !.jump.scroll = to]
  <2>1. n = _resize_jump_to_dialog(k)
    OBVIOUS
  <2> HIDE DEF k
  <2> QED
    BY <1>2, <2>1 DEF _resize_jump_to_dialog
<1>6. n = [k EXCEPT !.jump.sel = m.jump.sel, !.jump.scroll = to]
  <2> HIDE DEF k, to
  <2>1. k.jump = [k.jump EXCEPT !.sel = m.jump.sel]
    BY <1>2
  <2> QED
    BY <1>5, <2>1
<1> HIDE DEF h
<1>7. to \in Int
  BY <1>4, MatchFacts
<1>8. m.jump.matches # <<>> => OnScreen(m.jump.matches, m.jump.sel, to, h)
  BY <1>4, MatchFacts, ResizedOnScreen
<1> HIDE DEF to, k
<1>9. k.jump.matches # <<>> => OnScreen(k.jump.matches, m.jump.sel, to, MatchesHeight(k))
  BY <1>2, <1>8 DEF h
<1> QED
  BY <1>3, <1>6, <1>7, <1>9, MatchFacts, MatchMoved

\* So it is with the matches of a search.
THEOREM MatchStaysOnScreen ==
    ASSUME NEW m, Dialog(m), MatchOnScreen(m)
    PROVE  /\ MatchOnScreen(select_next_match(m)) /\ MatchOnScreen(select_prev_match(m))
           /\ MatchOnScreen(select_first_match(m)) /\ MatchOnScreen(select_last_match(m))
           /\ MatchOnScreen(Page(select_next_match, m)) /\ MatchOnScreen(Page(select_prev_match, m))
           /\ \A screen \in Nat :
                MatchOnScreen(_resize_jump_to_dialog([m EXCEPT !.jump.screen = screen]))
<1>1. MatchFine(m)
  BY DEF MatchFine
<1>2. \A n : MatchFine(n) => MatchOnScreen(n)
  BY DEF MatchFine
<1>3. \A n : MatchFine(n) => MatchFine(select_next_match(n))
  BY NextMatchFine
<1>4. \A n : MatchFine(n) => MatchFine(select_prev_match(n))
  BY PrevMatchFine
<1>5. /\ MatchFine(Page(select_next_match, m)) /\ MatchFine(Page(select_prev_match, m))
  BY <1>1, <1>3, <1>4 DEF Page
<1>6. \A screen \in Nat : MatchFine(_resize_jump_to_dialog([m EXCEPT !.jump.screen = screen]))
  BY <1>1, ResizedMatchFine
<1> QED
  BY <1>1, <1>2, <1>3, <1>4, <1>5, <1>6, EndMatchesFine

----------------------------------------------------------------------------
(* The interface: which nodes are shown, in any session with menuconfig.    *)

\* The state of the interface in the menu of a place in P, with user values in U.
Fields == {"menu", "shown", "sel", "scroll", "rows", "all", "help", "screen", "height",
           "mode", "jump", "user"}
Inside(m, U, P) ==
    /\ m = [f \in DOMAIN m |-> m[f]] /\ Fields \subseteq DOMAIN m
    /\ m.menu \in P /\ m.user \in U /\ m.all \in BOOLEAN /\ m.rows \in Seq(Nat)
    /\ m.height \in Nat \ {0} /\ m.screen \in Nat /\ m.help \in BOOLEAN /\ m.scroll \in Int

\* It shows what it should, and one of that is selected.
Listed(m, U, P) == Inside(m, U, P) /\ m.shown = Shown(m) /\ m.sel \in 0..(Len(m.shown) - 1)
Drawn(m, U, P) == Listed(m, U, P) /\ NodeOnScreen(m)

\* What an operation may lead to.
Outcome(n, m, U, P) ==
    n.mode = "raised" \/ (Drawn(n, U, P) /\ n.mode = m.mode /\ n.jump = m.jump)

LEMMA LeastFacts == ASSUME NEW S \in SUBSET Nat, S # {} PROVE Least(S) \in S
<1>1. PICK i \in S : \A j \in S : ~(<<j, i>> \in OpToRel(<, Nat))
  BY WFMin, NatLessThanWellFounded
<1>2. ASSUME NEW j \in S PROVE i <= j
  <2>1. i \in Nat /\ j \in Nat /\ <<j, i>> \in Nat \X Nat
    BY <1>2
  <2>2. ~(j < i)
    BY <1>1, <2>1, Zenon DEF OpToRel
  <2> QED
    BY <2>1, <2>2
<1> QED
  BY <1>2 DEF Least

LEMMA IndexFacts ==
    ASSUME NEW S, NEW nodes \in Seq(S), NEW p
    PROVE  /\ Has(nodes, p) => Index(nodes, p) \in 0..(Len(nodes) - 1)
           /\ ~Has(nodes, p) => Index(nodes, p) = -1
           /\ Index(nodes, p) \in Int
<1> DEFINE there == {i \in 1..Len(nodes) : nodes[i] = p}
<1>1. CASE Has(nodes, p)
  <2>1. there \in SUBSET Nat /\ there # {}
    BY <1>1 DEF Has
  <2>2. Least(there) \in there
    BY <2>1, LeastFacts
  <2> QED
    BY <1>1, <2>2 DEF Index
<1>2. CASE ~Has(nodes, p)
  BY <1>2 DEF Index
<1> QED
  BY <1>1, <1>2

LEMMA ShownFacts ==
    ASSUME NEW U, NEW P, PlacesAreKnown(w, U, P), NEW u \in U, NEW all \in BOOLEAN, NEW p \in P
    PROVE  /\ ShownIn(w, u, all, p) \in Seq(P \ {Top})
           /\ Len(ShownIn(w, u, all, p)) \in Nat
           /\ ShownIn(w, u, all, p) # <<>> => Len(ShownIn(w, u, all, p)) # 0
<1>1. ShownIn(w, u, all, p) \in Seq(P \ {Top})
  BY DEF PlacesAreKnown
<1> QED
  BY <1>1

LEMMA ListedFacts ==
    ASSUME NEW U, NEW P, PlacesAreKnown(w, U, P), NEW m, Inside(m, U, P)
    PROVE  /\ Shown(m) \in Seq(P \ {Top}) /\ Len(Shown(m)) \in Nat
           /\ Listed(m, U, P) =>
                /\ Display(m) /\ m.shown \in Seq(P \ {Top}) /\ Len(m.shown) \in Nat \ {0}
                /\ Selected_(m) \in P \ {Top} /\ m.sel \in Nat
<1>1. Shown(m) \in Seq(P \ {Top}) /\ Len(Shown(m)) \in Nat
  BY ShownFacts DEF Inside, Shown
<1>2. ASSUME Listed(m, U, P)
      PROVE  /\ Display(m) /\ m.shown \in Seq(P \ {Top}) /\ Len(m.shown) \in Nat \ {0}
             /\ Selected_(m) \in P \ {Top} /\ m.sel \in Nat
  <2>1. /\ m.shown \in Seq(P \ {Top}) /\ Len(m.shown) \in Nat \ {0} /\ m.sel \in Nat
        /\ m.sel + 1 \in 1..Len(m.shown)
    BY <1>1, <1>2 DEF Listed
  <2>2. Selected_(m) \in P \ {Top}
    BY <2>1, ElementOfSeq DEF Selected_
  <2> QED
    BY <2>1, <2>2 DEF Inside, Display, Fields
<1> QED
  BY <1>1, <1>2
\* Other keys than those that enter or leave a menu, or change what is shown.
LEMMA MovedDrawn ==
    ASSUME NEW U, NEW P, NEW m, Drawn(m, U, P), NEW n, Fine(n), DOMAIN n = DOMAIN m,
           \A f \in Fields \ {"sel", "scroll", "height", "screen", "help"} : n[f] = m[f]
    PROVE  Drawn(n, U, P) /\ n.mode = m.mode /\ n.jump = m.jump
<1>1. /\ n.menu = m.menu /\ n.user = m.user /\ n.all = m.all /\ n.rows = m.rows
      /\ n.shown = m.shown /\ n.mode = m.mode /\ n.jump = m.jump
  BY DEF Fields
<1>2. Inside(n, U, P)
  BY <1>1 DEF Drawn, Listed, Inside, Fine, Display
<1>3. n.sel \in 0..(Len(n.shown) - 1) /\ NodeOnScreen(n)
  BY DEF Fine, NodeOnScreen, OnScreen
<1> QED
  BY <1>1, <1>2, <1>3 DEF Drawn, Listed, Shown

LEMMA DrawnFine ==
    ASSUME NEW U, NEW P, PlacesAreKnown(w, U, P), NEW m, Drawn(m, U, P)
    PROVE  Fine(m) /\ Listed(m, U, P) /\ Inside(m, U, P)
BY ListedFacts DEF Drawn, Listed, Fine

LEMMA MovesDrawn ==
    ASSUME NEW U, NEW P, PlacesAreKnown(w, U, P), NEW m, Drawn(m, U, P), NEW n,
           \/ n = _select_next_menu_entry(m) \/ n = _select_prev_menu_entry(m)
           \/ n = _select_last_menu_entry(m) \/ n = _select_first_menu_entry(m)
    PROVE  Drawn(n, U, P) /\ n.mode = m.mode /\ n.jump = m.jump
<1>1. Fine(m) /\ Inside(m, U, P)
  BY DrawnFine
<1>2. Fine(n)
  BY <1>1, NextFine, PrevFine, EndsFine
<1>3. DOMAIN n = DOMAIN m /\ \A f \in Fields \ {"sel", "scroll"} : n[f] = m[f]
  BY <1>1 DEF _select_next_menu_entry, _select_prev_menu_entry, _select_last_menu_entry,
              _select_first_menu_entry, Inside
<1> QED
  BY <1>2, <1>3, MovedDrawn

LEMMA PagesDrawn ==
    ASSUME NEW U, NEW P, PlacesAreKnown(w, U, P), NEW m, Drawn(m, U, P), NEW n,
           n = Page(_select_next_menu_entry, m) \/ n = Page(_select_prev_menu_entry, m)
    PROVE  Drawn(n, U, P) /\ n.mode = m.mode /\ n.jump = m.jump
<1> DEFINE Goes(k) == Drawn(k, U, P) /\ k.mode = m.mode /\ k.jump = m.jump
<1>1. \A k : Goes(k) => Goes(_select_next_menu_entry(k))
  BY MovesDrawn
<1>2. \A k : Goes(k) => Goes(_select_prev_menu_entry(k))
  BY MovesDrawn
<1>3. Goes(m)
  OBVIOUS
<1> HIDE DEF Goes
<1>4. Goes(Page(_select_next_menu_entry, m)) /\ Goes(Page(_select_prev_menu_entry, m))
  BY <1>1, <1>2, <1>3 DEF Page
<1> QED
  BY <1>4 DEF Goes

LEMMA ResizedDrawn ==
    ASSUME NEW U, NEW P, PlacesAreKnown(w, U, P), NEW m, Drawn(m, U, P), NEW n,
           m.screen \in Nat, n = _resize_main(m)
    PROVE  Drawn(n, U, P) /\ n.mode = m.mode /\ n.jump = m.jump
<1>1. Fine(m) /\ Inside(m, U, P)
  BY DrawnFine
<1>2. m = [m EXCEPT !.screen = m.screen, !.help = m.help] /\ m.help \in BOOLEAN
  BY <1>1 DEF Inside
<1>3. Fine(n)
  BY <1>1, <1>2, ResizedFine
<1>4. /\ DOMAIN n = DOMAIN m
      /\ \A f \in Fields \ {"sel", "scroll", "height"} : n[f] = m[f]
  BY <1>1 DEF _resize_main, Inside
<1> QED
  BY <1>3, <1>4, MovedDrawn

\* Other nodes are shown, or others selected.
Redraw(m, shown, sel, scroll) == [m EXCEPT !.shown = shown, !.sel = sel, !.scroll = scroll]

LEMMA Redrawn ==
    ASSUME NEW U, NEW P, NEW m, Inside(m, U, P), NEW shown, NEW sel, NEW scroll \in Int,
           NEW n, n = Redraw(m, shown, sel, scroll)
    PROVE  /\ Inside(n, U, P) /\ Shown(n) = Shown(m)
           /\ n.shown = shown /\ n.sel = sel /\ n.scroll = scroll /\ n.height = m.height
           /\ n.mode = m.mode /\ n.jump = m.jump /\ n.user = m.user
<1>1. /\ n = [f \in DOMAIN n |-> n[f]] /\ DOMAIN n = DOMAIN m
      /\ \A f \in Fields \ {"shown", "sel", "scroll"} : n[f] = m[f]
      /\ n.shown = shown /\ n.sel = sel /\ n.scroll = scroll
  BY DEF Inside, Fields, Redraw
<1>2. /\ n.menu = m.menu /\ n.user = m.user /\ n.all = m.all /\ n.rows = m.rows
      /\ n.height = m.height /\ n.screen = m.screen /\ n.help = m.help
      /\ n.mode = m.mode /\ n.jump = m.jump
  BY <1>1 DEF Fields
<1> QED
  BY <1>1, <1>2 DEF Inside, Shown
LEMMA RaisedOutcome ==
    ASSUME NEW U, NEW P, NEW m, Fields \subseteq DOMAIN m
    PROVE  Outcome(Raised(m), m, U, P) /\ Raised(m).user = m.user /\ Raised(m).mode = "raised"
BY DEF Outcome, Raised, Fields

LEMMA PlacedDrawn ==
    ASSUME NEW U, NEW P, PlacesAreKnown(w, U, P), NEW m, Inside(m, U, P),
           NEW i \in 0..(Len(Shown(m)) - 1), NEW row \in 0..(m.height - 1), NEW n,
           n = Placed(m, Shown(m), i, row)
    PROVE  Drawn(n, U, P) /\ n.mode = m.mode /\ n.jump = m.jump /\ n.user = m.user
<1> PICK shown : shown = Shown(m)
  OBVIOUS
<1> PICK to : to = AtLeast(0, i - row)
  OBVIOUS
<1>1. m.height \in Nat \ {0} /\ Len(shown) \in Nat
  BY ListedFacts DEF Inside
<1>2. to \in Int /\ OnScreen(shown, i, to, m.height)
  BY <1>1, PlacedOnScreen
<1>3. n = Redraw(m, shown, i, to)
  BY DEF Placed, Redraw
<1>4. /\ Inside(n, U, P) /\ Shown(n) = Shown(m)
      /\ n.shown = shown /\ n.sel = i /\ n.scroll = to /\ n.height = m.height
      /\ n.mode = m.mode /\ n.jump = m.jump /\ n.user = m.user
  BY <1>2, <1>3, Redrawn
<1> QED
  BY <1>2, <1>4 DEF Drawn, Listed, NodeOnScreen

\* The selected node stays on its row, or is not there any more.
LEMMA UpdatedDrawn ==
    ASSUME NEW U, NEW P, PlacesAreKnown(w, U, P), NEW m, Inside(m, U, P),
           m.sel - m.scroll \in 0..(m.height - 1), NEW n, n = _update_menu(m)
    PROVE  Outcome(n, m, U, P) /\ n.user = m.user
<1> DEFINE i == Index(Shown(m), Selected_(m))
<1>1. n = IF i < 0 THEN Raised(m) ELSE Placed(m, Shown(m), i, m.sel - m.scroll)
  BY DEF _update_menu, Showing, Reselected
<1>2. i = -1 \/ i \in 0..(Len(Shown(m)) - 1)
  BY ListedFacts, IndexFacts
<1> HIDE DEF i
<1>3. CASE i = -1
  <2>1. n = Raised(m)
    BY <1>1, <1>3
  <2> QED
    BY <2>1, RaisedOutcome DEF Inside
<1>4. CASE i \in 0..(Len(Shown(m)) - 1)
  BY <1>1, <1>4, PlacedDrawn DEF Outcome
<1> QED
  BY <1>2, <1>3, <1>4

LEMMA UpdatedUser ==
    ASSUME NEW m, Fields \subseteq DOMAIN m
    PROVE  _update_menu(m).user = m.user
<1> PICK i : i = Index(Shown(m), Selected_(m))
  OBVIOUS
<1>1. _update_menu(m) = IF i < 0 THEN Raised(m) ELSE Placed(m, Shown(m), i, m.sel - m.scroll)
  BY DEF _update_menu, Showing, Reselected
<1>2. Raised(m).user = m.user
  BY DEF Raised, Fields
<1>3. Placed(m, Shown(m), i, m.sel - m.scroll).user = m.user
  BY DEF Placed, Fields
<1> QED
  BY <1>1, <1>2, <1>3

\* Other user values, in a list that has not been updated.
LEMMA RevaluedInside ==
    ASSUME NEW U, NEW P, PlacesAreKnown(w, U, P), NEW m, Drawn(m, U, P), NEW k,
           k = [f \in DOMAIN k |-> k[f]], DOMAIN m \subseteq DOMAIN k,
           \A f \in Fields \ {"user", "all"} : k[f] = m[f], k.user \in U, k.all \in BOOLEAN
    PROVE  /\ Inside(k, U, P) /\ k.sel - k.scroll \in 0..(k.height - 1)
           /\ k.mode = m.mode /\ k.jump = m.jump
<1>1. /\ k.menu = m.menu /\ k.rows = m.rows /\ k.height = m.height /\ k.screen = m.screen
      /\ k.help = m.help /\ k.sel = m.sel /\ k.scroll = m.scroll /\ k.mode = m.mode
      /\ k.jump = m.jump
  BY DEF Fields
<1>2. m.sel - m.scroll \in 0..(m.height - 1)
  BY DEF Drawn, NodeOnScreen, OnScreen
<1> QED
  BY <1>1, <1>2, DrawnFine DEF Inside

LEMMA SetDrawn ==
    ASSUME NEW U, NEW P, PlacesAreKnown(w, U, P), NEW m, Drawn(m, U, P), NEW p, NEW v,
           NEW n, n = _set_val(m, p, v), n.user \in U
    PROVE  Outcome(n, m, U, P)
<1> PICK u : u = SetIn(w, m.user, NameAt(p), v)
  OBVIOUS
<1> DEFINE k == [m EXCEPT !.user = u, !.changed = TRUE, !.done = @ + 1]
<1>1. n = m \/ n = _update_menu(k)
  BY DEF _set_val
<1>2. CASE n = m
  BY <1>2 DEF Outcome
<1>3. CASE n = _update_menu(k)
  <2> Inside(m, U, P)
    BY DrawnFine
  <2>0. k = [f \in DOMAIN k |-> k[f]] /\ DOMAIN k = DOMAIN m
    OBVIOUS
  <2>1. \A f \in Fields \ {"user"} : k[f] = m[f]
    BY DEF Inside, Fields
  <2>2. k.user = u /\ k.all \in BOOLEAN
    BY <2>1 DEF Inside, Fields
  <2> HIDE DEF k
  <2>3. k.user \in U
    BY <1>3, <2>0, UpdatedUser DEF Inside
  <2>4. /\ Inside(k, U, P) /\ k.sel - k.scroll \in 0..(k.height - 1)
        /\ k.mode = m.mode /\ k.jump = m.jump
    BY <2>0, <2>1, <2>2, <2>3, RevaluedInside
  <2> QED
    BY <1>3, <2>4, UpdatedDrawn DEF Outcome
<1> QED
  BY <1>1, <1>2, <1>3
----------------------------------------------------------------------------
(* Entering and leaving menus.                                              *)

LEMMA CenterDrawn ==
    ASSUME NEW U, NEW P, PlacesAreKnown(w, U, P), NEW m, Listed(m, U, P), NEW n,
           n = _center_vertically(m)
    PROVE  Drawn(n, U, P) /\ n.mode = m.mode /\ n.jump = m.jump
<1> PICK to : to = AtMost(_max_scroll(m.shown, m.height), AtLeast(0, m.sel - m.height \div 2))
  OBVIOUS
<1>1. /\ Display(m) /\ m.sel \in 0..(Len(m.shown) - 1) /\ m.height \in Nat \ {0}
      /\ Len(m.shown) \in Nat /\ Inside(m, U, P)
  <2>1. Inside(m, U, P) /\ m.sel \in 0..(Len(m.shown) - 1)
    BY DEF Listed
  <2>2. Display(m)
    BY <2>1, ListedFacts
  <2> QED
    BY <2>1, <2>2 DEF Display
<1>2. to \in Int /\ OnScreen(m.shown, m.sel, to, m.height)
  BY <1>1, CenterOnScreen
<1>3. n = Redraw(m, m.shown, m.sel, to)
  <2>1. n = [m EXCEPT !.scroll = to]
    BY DEF _center_vertically
  <2> QED
    BY <1>1, <2>1 DEF Redraw, Inside
<1>4. /\ Inside(n, U, P) /\ Shown(n) = Shown(m)
      /\ n.shown = m.shown /\ n.sel = m.sel /\ n.scroll = to /\ n.height = m.height
      /\ n.mode = m.mode /\ n.jump = m.jump
  BY <1>1, <1>2, <1>3, Redrawn
<1> QED
  BY <1>1, <1>2, <1>4 DEF Drawn, Listed, NodeOnScreen

\* Another menu, or the same one with more or less shown.
LEMMA ElsewhereInside ==
    ASSUME NEW U, NEW P, NEW m, Inside(m, U, P), NEW k,
           k = [f \in DOMAIN k |-> k[f]], DOMAIN k = DOMAIN m,
           \A f \in {"user", "height", "screen", "help", "mode", "jump"} : k[f] = m[f],
           k.menu \in P, k.rows \in Seq(Nat), k.all \in BOOLEAN, k.scroll \in Int
    PROVE  Inside(k, U, P) /\ k.mode = m.mode /\ k.jump = m.jump /\ k.height = m.height
<1>1. /\ k.user = m.user /\ k.height = m.height /\ k.screen = m.screen /\ k.help = m.help
      /\ k.mode = m.mode /\ k.jump = m.jump
  OBVIOUS
<1> QED
  BY <1>1 DEF Inside

\* The node of the selected symbol may be shown, or not.
LEMMA ChosenDrawn ==
    ASSUME NEW U, NEW P, PlacesAreKnown(w, U, P), NEW m, Drawn(m, U, P), NEW n,
           n = _select_selected_choice_sym(m)
    PROVE  Drawn(n, U, P) /\ n.mode = m.mode /\ n.jump = m.jump
<1> PICK nodes : nodes = PlacesOf(w, <<"sym", SelectedIn(w, m.user, NameAt(m.menu))>>)
  OBVIOUS
<1> DEFINE there == {i \in 1..Len(nodes) : Has(m.shown, nodes[i])}
           i == Index(m.shown, nodes[Least(there)])
           k == [m EXCEPT !.sel = i]
<1>1. n = m \/ (there # {} /\ n = _center_vertically(k))
  BY DEF _select_selected_choice_sym
<1>2. CASE n = m
  BY <1>2
<1>3. CASE there # {} /\ n = _center_vertically(k)
  <2>1. there \in SUBSET Nat
    OBVIOUS
  <2>2. Has(m.shown, nodes[Least(there)])
    BY <1>3, <2>1, LeastFacts
  <2>3. /\ m.shown \in Seq(P \ {Top}) /\ m.shown = Shown(m) /\ Inside(m, U, P)
        /\ m.scroll \in Int
    BY ListedFacts DEF Drawn, Listed, Inside
  <2>4. i \in 0..(Len(m.shown) - 1)
    BY <2>2, <2>3, IndexFacts
  <2> HIDE DEF there, i
  <2>5. k = Redraw(m, m.shown, i, m.scroll)
    BY <2>3 DEF Redraw, Inside
  <2> HIDE DEF k
  <2>6. /\ Inside(k, U, P) /\ Shown(k) = Shown(m) /\ k.shown = m.shown /\ k.sel = i
        /\ k.mode = m.mode /\ k.jump = m.jump
    BY <2>3, <2>5, Redrawn
  <2>7. Listed(k, U, P)
    BY <2>3, <2>4, <2>6 DEF Listed
  <2> QED
    BY <1>3, <2>6, <2>7, CenterDrawn
<1> QED
  BY <1>1, <1>2, <1>3

LEMMA EnteredDrawn ==
    ASSUME NEW U, NEW P, PlacesAreKnown(w, U, P), NEW m, Drawn(m, U, P), NEW p \in P,
           NEW n, n = _enter_menu(m, p)
    PROVE  Drawn(n, U, P) /\ n.mode = m.mode /\ n.jump = m.jump
<1> PICK shown : shown = ShownIn(w, m.user, m.all, p)
  OBVIOUS
<1> DEFINE k == [m EXCEPT !.rows = Append(m.rows, m.sel - m.scroll), !.menu = p,
                          !.shown = shown, !.sel = 0, !.scroll = 0]
<1>1. \/ n = m
      \/ shown # <<>> /\ (n = k \/ n = _select_selected_choice_sym(k))
  BY DEF _enter_menu, Enterable
<1>2. SUFFICES ASSUME shown # <<>>
               PROVE  Drawn(k, U, P) /\ k.mode = m.mode /\ k.jump = m.jump
  <2> HIDE DEF k
  <2> QED
    BY <1>1, <1>2, ChosenDrawn
<1>3. Inside(m, U, P) /\ m.sel - m.scroll \in Nat
  BY DEF Drawn, Listed, NodeOnScreen, OnScreen
<1>4. Len(shown) \in Nat \ {0}
  BY <1>2, <1>3, ShownFacts DEF Inside
<1>5. k = [f \in DOMAIN k |-> k[f]] /\ DOMAIN k = DOMAIN m
  OBVIOUS
<1>6. /\ \A f \in {"user", "height", "screen", "help", "mode", "jump", "all"} : k[f] = m[f]
      /\ k.menu = p /\ k.rows = Append(m.rows, m.sel - m.scroll)
      /\ k.shown = shown /\ k.sel = 0 /\ k.scroll = 0
  BY <1>3 DEF Inside, Fields
<1> HIDE DEF k
<1>7. k.rows \in Seq(Nat) /\ k.all \in BOOLEAN
  BY <1>3, <1>6, AppendProperties DEF Inside
<1>8. /\ Inside(k, U, P) /\ k.mode = m.mode /\ k.jump = m.jump /\ k.height \in Nat \ {0}
      /\ k.user = m.user /\ k.all = m.all
  BY <1>3, <1>5, <1>6, <1>7, ElsewhereInside DEF Inside
<1>9. Shown(k) = shown /\ OnScreen(shown, 0, 0, k.height)
  BY <1>4, <1>6, <1>8, EndsOnScreen DEF Shown
<1> QED
  BY <1>4, <1>6, <1>8, <1>9 DEF Drawn, Listed, NodeOnScreen

\* On the row where the menu was entered, if there is room, or in the middle.
LEMMA LeftDrawn ==
    ASSUME NEW U, NEW P, PlacesAreKnown(w, U, P), NEW m, Drawn(m, U, P), NEW n,
           n = _leave_menu(m)
    PROVE  Outcome(n, m, U, P)
<1> PICK parent : parent = MenuOf(w, m.menu)
  OBVIOUS
<1> PICK shown : shown = ShownIn(w, m.user, m.all, parent)
  OBVIOUS
<1> PICK i : i = Index(shown, m.menu)
  OBVIOUS
<1> DEFINE out == [m EXCEPT !.shown = shown, !.sel = i, !.menu = parent]
           k == [out EXCEPT !.rows = SubSeq(m.rows, 1, Len(m.rows) - 1)]
           row == AtMost(m.height - 1, m.rows[Len(m.rows)])
<1>1. Inside(m, U, P)
  BY DEF Drawn, Listed
<1>2. CASE m.menu = Top
  BY <1>2 DEF _leave_menu, Outcome
<1>3. CASE m.menu # Top /\ i < 0
  <2>1. n = Raised(m)
    BY <1>3 DEF _leave_menu
  <2> QED
    BY <1>1, <2>1, RaisedOutcome DEF Inside
<1>4. CASE m.menu # Top /\ ~(i < 0)
  <2>1. /\ parent \in P /\ m.user \in U /\ m.all \in BOOLEAN /\ m.scroll \in Int
        /\ m.rows \in Seq(Nat) /\ m.height \in Nat \ {0}
    BY <1>1, <1>4 DEF Inside, PlacesAreKnown
  <2>2. i \in 0..(Len(shown) - 1)
    <3>1. shown \in Seq(P \ {Top})
      BY <2>1, ShownFacts
    <3> QED
      BY <1>4, <3>1, IndexFacts
  <2>3. n = IF m.rows = <<>> THEN _center_vertically(out) ELSE Placed(k, shown, i, row)
    BY <1>1, <1>4 DEF _leave_menu, Inside, Fields
  <2>4. /\ out = [f \in DOMAIN out |-> out[f]] /\ DOMAIN out = DOMAIN m
        /\ \A f \in {"user", "height", "screen", "help", "mode", "jump", "all", "rows", "scroll"} :
             out[f] = m[f]
        /\ out.menu = parent /\ out.shown = shown /\ out.sel = i
    BY <1>1 DEF Inside, Fields
  <2>5. /\ k = [f \in DOMAIN k |-> k[f]] /\ DOMAIN k = DOMAIN m
        /\ \A f \in {"user", "height", "screen", "help", "mode", "jump", "all", "scroll"} : k[f] = m[f]
        /\ k.menu = parent /\ k.rows = SubSeq(m.rows, 1, Len(m.rows) - 1)
    <3>1. PICK rows : rows = SubSeq(m.rows, 1, Len(m.rows) - 1)
      OBVIOUS
    <3>2. k = [out EXCEPT !.rows = rows] /\ "rows" \in DOMAIN m
      BY <1>1, <3>1 DEF Inside, Fields
    <3> HIDE DEF out, k
    <3>3. k = [f \in DOMAIN k |-> k[f]] /\ DOMAIN k = DOMAIN m
      BY <2>4, <3>2
    <3>4. k.menu = parent /\ k.rows = rows
      BY <2>4, <3>2
    <3>5. \A f \in DOMAIN out : f # "rows" => k[f] = out[f]
      BY <3>2
    <3>6. Fields \subseteq DOMAIN out
      BY <1>1, <2>4 DEF Inside
    <3>7. \A f \in {"user", "height", "screen", "help", "mode", "jump", "all", "scroll"} : k[f] = out[f]
      BY <3>5, <3>6 DEF Fields
    <3>8. \A f \in {"user", "height", "screen", "help", "mode", "jump", "all", "scroll"} : k[f] = m[f]
      BY <2>4, <3>7
    <3> QED
      BY <3>1, <3>3, <3>4, <3>8
  <2> HIDE DEF out, k
  <2>6. CASE m.rows = <<>>
    <3>1. Inside(out, U, P) /\ out.mode = m.mode /\ out.jump = m.jump
      BY <1>1, <2>1, <2>4, ElsewhereInside
    <3>2. Listed(out, U, P)
      BY <2>2, <2>4, <3>1 DEF Listed, Shown
    <3> QED
      BY <2>3, <2>6, <3>1, <3>2, CenterDrawn DEF Outcome
  <2>7. CASE m.rows # <<>>
    <3>1. Len(m.rows) \in Nat \ {0} /\ m.rows[Len(m.rows)] \in Nat
      BY <2>1, <2>7
    <3>2. row \in 0..(m.height - 1)
      BY <2>1, <3>1 DEF AtMost
    <3>3. k.rows \in Seq(Nat)
      BY <2>1, <2>5, <3>1
    <3>4. k.mode = m.mode /\ k.jump = m.jump /\ k.height = m.height
      BY <2>5
    <3>6. \A f \in {"user", "height", "screen", "help"} : k[f] = m[f]
      BY <2>5
    <3>7. k.menu \in P /\ k.all \in BOOLEAN /\ k.scroll \in Int
      BY <2>1, <2>5
    <3>8. Inside(k, U, P)
      BY <1>1, <2>5, <3>3, <3>6, <3>7, ElsewhereInside
    <3>5. Shown(k) = shown
      BY <2>5 DEF Shown
    <3> HIDE DEF row
    <3> QED
      BY <2>2, <2>3, <2>7, <3>2, <3>4, <3>5, <3>8, PlacedDrawn DEF Outcome
  <2> QED
    BY <2>6, <2>7
<1> QED
  <2>1. i < 0 \/ ~(i < 0)
    OBVIOUS
  <2> QED
    BY <1>2, <1>3, <1>4
\* Turning show-all off and on keeps something selected that is still shown.
LEMMA SomethingStays ==
    ASSUME NEW U, NEW P, PlacesAreKnown(w, U, P), NEW m, Listed(m, U, P), m.all = FALSE,
           NEW shown, shown = ShownIn(w, m.user, TRUE, m.menu)
    PROVE  \/ \E k \in 0..m.sel : Has(shown, m.shown[m.sel + 1 - k])
           \/ \E k \in 1..(Len(m.shown) - m.sel - 1) : Has(shown, m.shown[m.sel + 1 + k])
<1>1. /\ Inside(m, U, P) /\ m.shown = ShownIn(w, m.user, FALSE, m.menu)
      /\ m.sel \in 0..(Len(m.shown) - 1) /\ Len(m.shown) \in Nat \ {0} /\ m.sel \in Nat
  BY ListedFacts DEF Listed, Shown
<1>2. m.shown # <<>>
  <2>1. Len(<<>>) = 0
    OBVIOUS
  <2> QED
    BY <1>1, <2>1
<1>3. PICK i \in 1..Len(m.shown), j \in 1..Len(shown) : m.shown[i] = shown[j]
  <2>1. m.user \in U /\ m.menu \in P
    BY <1>1 DEF Inside
  <2>2. ShownIn(w, m.user, FALSE, m.menu) # <<>> =>
          \E i \in 1..Len(ShownIn(w, m.user, FALSE, m.menu)),
             j \in 1..Len(ShownIn(w, m.user, TRUE, m.menu)) :
               ShownIn(w, m.user, FALSE, m.menu)[i] = ShownIn(w, m.user, TRUE, m.menu)[j]
    BY <2>1 DEF PlacesAreKnown
  <2> QED
    BY <1>1, <1>2, <2>2
<1>4. Has(shown, m.shown[i])
  BY <1>3 DEF Has
<1> PICK sel \in Nat : sel = m.sel
  BY <1>1
<1> PICK len \in Nat : len = Len(m.shown)
  BY <1>1
<1>5. i \in 1..len
  BY <1>3
<1>6. CASE i <= sel + 1
  <2>1. sel + 1 - i \in 0..sel /\ sel + 1 - (sel + 1 - i) = i
    BY <1>5, <1>6
  <2> QED
    BY <1>4, <2>1
<1>7. CASE i > sel + 1
  <2>1. PICK k \in Int : k = i - sel - 1
    BY <1>5
  <2>2. k >= 1 /\ k <= len - sel - 1
    BY <1>5, <1>7, <2>1
  <2>3. sel + 1 + k = i
    BY <1>5, <2>1
  <2>4. k \in 1..(len - sel - 1)
    BY <2>2
  <2> QED
    BY <1>4, <2>3, <2>4
<1>8. i <= sel + 1 \/ i > sel + 1
  BY <1>5
<1> QED
  BY <1>6, <1>7, <1>8

LEMMA ToggledListed ==
    ASSUME NEW U, NEW P, PlacesAreKnown(w, U, P), NEW m, Listed(m, U, P), NEW n,
           n = _toggle_show_all(m)
    PROVE  /\ Listed(n, U, P) /\ n.mode = m.mode /\ n.jump = m.jump
           /\ Drawn(m, U, P) => Drawn(n, U, P)
<1> PICK all : all = ~m.all
  OBVIOUS
<1> PICK shown : shown = ShownIn(w, m.user, all, m.menu)
  OBVIOUS
<1> DEFINE back == {k \in 0..m.sel : Has(shown, m.shown[m.sel + 1 - k])}
           ahead == {k \in 1..(Len(m.shown) - m.sel - 1) : Has(shown, m.shown[m.sel + 1 + k])}
           p == IF back # {} THEN m.shown[m.sel + 1 - Least(back)]
                ELSE m.shown[m.sel + 1 + Least(ahead)]
           i == Index(shown, p)
           k == [m EXCEPT !.all = all]
<1>1. n = IF back = {} /\ ahead = {} THEN [m EXCEPT !.all = TRUE]
          ELSE Placed(k, shown, i, m.sel - m.scroll)
  BY DEF _toggle_show_all
<1>2. Inside(m, U, P) /\ all \in BOOLEAN
  BY DEF Listed, Inside
<1>3. CASE back = {} /\ ahead = {}
  <2>1. m.all # FALSE
    BY <1>3, SomethingStays
  <2>2. m.all = TRUE
    BY <1>2, <2>1 DEF Inside
  <2>3. n = m
    BY <1>1, <1>2, <1>3, <2>2 DEF Inside
  <2> QED
    BY <2>3
<1>4. CASE ~(back = {} /\ ahead = {})
  <2>1. back \in SUBSET Nat /\ ahead \in SUBSET Nat
    BY ListedFacts, <1>2
  <2>2. Has(shown, p)
    BY <1>4, <2>1, LeastFacts
  <2>3. shown \in Seq(P \ {Top})
    BY <1>2, ShownFacts DEF Inside
  <2>4. i \in 0..(Len(shown) - 1)
    BY <2>2, <2>3, IndexFacts
  <2>5. n = Placed(k, shown, i, m.sel - m.scroll)
    BY <1>1, <1>4
  <2> HIDE DEF back, ahead, p, i
  <2>6. /\ k = [f \in DOMAIN k |-> k[f]] /\ DOMAIN k = DOMAIN m
        /\ k.all = all /\ \A f \in Fields \ {"all"} : k[f] = m[f]
    BY <1>2 DEF Inside, Fields
  <2>7. /\ \A f \in {"user", "height", "screen", "help", "mode", "jump"} : k[f] = m[f]
        /\ k.menu = m.menu /\ k.rows = m.rows /\ k.scroll = m.scroll /\ k.user = m.user
    BY <2>6 DEF Fields
  <2> HIDE DEF k
  <2>8. Inside(k, U, P) /\ k.mode = m.mode /\ k.jump = m.jump /\ k.height = m.height
    BY <1>2, <2>6, <2>7, ElsewhereInside DEF Inside
  <2>9. Shown(k) = shown
    BY <2>6, <2>7 DEF Shown
  <2>10. Listed(n, U, P) /\ n.mode = m.mode /\ n.jump = m.jump
    <3> PICK to : to = AtLeast(0, i - (m.sel - m.scroll))
      OBVIOUS
    <3>1. n = Redraw(k, shown, i, to)
      BY <2>5 DEF Placed, Redraw
    <3>2. to \in Int
      <4>1. m.sel \in Nat
        BY <1>2, ListedFacts
      <4>2. m.scroll \in Int
        BY <1>2 DEF Inside
      <4> QED
        BY <2>4, <4>1, <4>2 DEF AtLeast
    <3>3. /\ Inside(n, U, P) /\ Shown(n) = Shown(k) /\ n.shown = shown /\ n.sel = i
          /\ n.mode = k.mode /\ n.jump = k.jump
      BY <2>8, <3>1, <3>2, Redrawn
    <3> QED
      BY <2>4, <2>8, <2>9, <3>3 DEF Listed
  <2>11. ASSUME Drawn(m, U, P) PROVE Drawn(n, U, P)
    <3>1. m.sel - m.scroll \in 0..(k.height - 1)
      BY <2>8, <2>11 DEF Drawn, NodeOnScreen, OnScreen
    <3> QED
      BY <2>4, <2>5, <2>8, <2>9, <3>1, PlacedDrawn
  <2> QED
    BY <2>10, <2>11
<1> QED
  BY <1>3, <1>4

----------------------------------------------------------------------------
(* Changing nodes, jumping to them, and loading files.                      *)

LEMMA LeftUser ==
    ASSUME NEW m, Fields \subseteq DOMAIN m PROVE _leave_menu(m).user = m.user
<1> PICK parent, shown, i : /\ parent = MenuOf(w, m.menu) /\ i = Index(shown, m.menu)
                            /\ shown = ShownIn(w, m.user, m.all, parent)
  OBVIOUS
<1> DEFINE out == [m EXCEPT !.shown = shown, !.sel = i, !.menu = parent]
           k == [out EXCEPT !.rows = SubSeq(@, 1, Len(@) - 1)]
<1>1. \/ _leave_menu(m) = m \/ _leave_menu(m) = Raised(m)
      \/ _leave_menu(m) = _center_vertically(out)
      \/ _leave_menu(m) = Placed(k, shown, i, AtMost(m.height - 1, m.rows[Len(m.rows)]))
  BY DEF _leave_menu
<1>2. out.user = m.user /\ k.user = m.user /\ "user" \in DOMAIN out /\ "user" \in DOMAIN k
  BY DEF Fields
<1> HIDE DEF out, k
<1>3. Raised(m).user = m.user /\ _center_vertically(out).user = out.user
  BY <1>2 DEF Raised, Fields, _center_vertically
<1>4. \A a, b, c : Placed(k, a, b, c).user = k.user
  BY <1>2 DEF Placed
<1> QED
  BY <1>1, <1>2, <1>3, <1>4

LEMMA OutcomeOfOutcome ==
    ASSUME NEW U, NEW P, NEW m, NEW k, NEW n, Outcome(k, m, U, P), k.mode # "raised",
           Outcome(n, k, U, P)
    PROVE  Outcome(n, m, U, P)
BY DEF Outcome

\* Every string that may be entered, and every value.
LEMMA ChangedDrawn ==
    ASSUME NEW U, NEW P, PlacesAreKnown(w, U, P), NEW m, Drawn(m, U, P), NEW p,
           NEW n \in _change_node(m, p), n.user \in U
    PROVE  Outcome(n, m, U, P)
<1>1. \/ n = m \/ n = Toggled(m, p) \/ n \in Entered(m, p)
      \/ n = _leave_menu(m)
      \/ Toggled(m, p).mode # "raised" /\ n = _leave_menu(Toggled(m, p))
      \/ \E k \in Entered(m, p) : k.mode # "raised" /\ n = _leave_menu(k)
  BY DEF _change_node
<1>2. Fields \subseteq DOMAIN m
  BY DEF Drawn, Listed, Inside
<1>3. ASSUME NEW k, k = Toggled(m, p) \/ k \in Entered(m, p)
      PROVE  /\ Fields \subseteq DOMAIN k
             /\ k.user \in U => Outcome(k, m, U, P)
  <2>1. k = Raised(m) \/ \E v : k = _set_val(m, p, v)
    BY <1>3 DEF Toggled, Entered
  <2>2. CASE k = Raised(m)
    BY <1>2, <2>2, RaisedOutcome DEF Raised
  <2>3. CASE \E v : k = _set_val(m, p, v)
    <3>1. PICK v : k = _set_val(m, p, v)
      BY <2>3
    <3>2. DOMAIN k = DOMAIN m
      BY <3>1 DEF _set_val, _update_menu, Showing, Reselected, Raised, Placed
    <3> QED
      BY <1>2, <3>1, <3>2, SetDrawn
  <2> QED
    BY <2>1, <2>2, <2>3
<1>4. ASSUME NEW k, k.mode # "raised", n = _leave_menu(k), Fields \subseteq DOMAIN k,
             k.user \in U => Outcome(k, m, U, P)
      PROVE  Outcome(n, m, U, P)
  <2>1. Outcome(k, m, U, P)
    BY <1>4, LeftUser
  <2>2. Drawn(k, U, P)
    BY <1>4, <2>1 DEF Outcome
  <2> QED
    BY <1>4, <2>1, <2>2, LeftDrawn, OutcomeOfOutcome
<1>5. CASE n = m
  BY <1>5 DEF Outcome
<1>6. CASE n = _leave_menu(m)
  BY <1>6, LeftDrawn
<1> QED
  BY <1>1, <1>3, <1>4, <1>5, <1>6

LEMMA JumpedDrawn ==
    ASSUME NEW U, NEW P, PlacesAreKnown(w, U, P), NEW m, Drawn(m, U, P),
           NEW node \in P \ {Top}, NEW n, n = _jump_to(m, node)
    PROVE  Outcome(n, m, U, P) /\ Fields \subseteq DOMAIN n
<1> DEFINE into == (IsChoice(NodeAt(node)) \/ ItemOf(node)[1] = "menu") /\ NodeAt(node).list # <<>>
<1> PICK menu : menu = IF into THEN node ELSE MenuOf(w, node)
  OBVIOUS
<1> PICK p : p = IF into THEN Children(node)[1] ELSE node
  OBVIOUS
<1> PICK all : all = (m.all \/ ~Has(ShownIn(w, m.user, m.all, menu), p))
  OBVIOUS
<1> PICK shown : shown = ShownIn(w, m.user, all, menu)
  OBVIOUS
<1> PICK i : i = Index(shown, p)
  OBVIOUS
<1> DEFINE there == [m EXCEPT !.rows = <<>>, !.menu = menu, !.all = all, !.shown = shown, !.sel = i]
           picked == IF into /\ ~m.all /\ all THEN _toggle_show_all(there) ELSE there
           seen == _center_vertically(picked)
<1>1. n = IF there.sel < 0 THEN Raised(m)
          ELSE IF into /\ IsChoice(NodeAt(menu)) THEN _select_selected_choice_sym(seen) ELSE seen
  BY DEF _jump_to
<1>2. Inside(m, U, P)
  BY DEF Drawn, Listed
<1>3. menu \in P /\ all \in BOOLEAN
  BY <1>2 DEF PlacesAreKnown, Inside
<1>4. /\ there = [f \in DOMAIN there |-> there[f]] /\ DOMAIN there = DOMAIN m
      /\ there.menu = menu /\ there.rows = <<>> /\ there.all = all /\ there.shown = shown
      /\ there.sel = i
      /\ \A f \in {"user", "height", "screen", "help", "mode", "jump", "scroll"} : there[f] = m[f]
  <2>1. there = [f \in DOMAIN there |-> there[f]] /\ DOMAIN there = DOMAIN m
    BY <1>2 DEF Inside
  <2>2. {"rows", "menu", "all", "shown", "sel"} \subseteq DOMAIN m
    BY <1>2 DEF Inside, Fields
  <2>3. there.menu = menu /\ there.rows = <<>> /\ there.all = all
    BY <2>2
  <2>4. there.shown = shown /\ there.sel = i
    BY <2>2
  <2>5. \A f \in {"user", "height", "screen", "help", "mode", "jump", "scroll"} : there[f] = m[f]
    <3>1. \A f \in DOMAIN m : f \notin {"rows", "menu", "all", "shown", "sel"} => there[f] = m[f]
      OBVIOUS
    <3>2. Fields \subseteq DOMAIN m
      BY <1>2 DEF Inside
    <3> HIDE DEF there
    <3> QED
      BY <3>1, <3>2 DEF Fields
  <2> QED
    BY <2>1, <2>3, <2>4, <2>5
<1> HIDE DEF there, into
<1>5. CASE i < 0
  <2>1. n = Raised(m)
    BY <1>1, <1>4, <1>5
  <2>2. DOMAIN n = DOMAIN m
    BY <2>1 DEF Raised
  <2> QED
    BY <1>2, <2>1, <2>2, RaisedOutcome DEF Inside
<1>6. CASE ~(i < 0)
  <2>1. Inside(there, U, P) /\ there.mode = m.mode /\ there.jump = m.jump
    <3>1. there.rows \in Seq(Nat) /\ there.scroll \in Int
      BY <1>2, <1>4 DEF Inside
    <3> QED
      BY <1>2, <1>3, <1>4, <3>1, ElsewhereInside
  <2>2. Shown(there) = shown
    BY <1>4 DEF Shown
  <2>3. i \in 0..(Len(shown) - 1)
    <3>1. shown \in Seq(P \ {Top})
      BY <1>2, <1>3, ShownFacts DEF Inside
    <3> QED
      BY <1>6, <3>1, IndexFacts
  <2>4. Listed(there, U, P)
    BY <1>4, <2>1, <2>2, <2>3 DEF Listed
  <2>5. Listed(picked, U, P) /\ picked.mode = m.mode /\ picked.jump = m.jump
    BY <2>1, <2>4, ToggledListed
  <2> HIDE DEF picked
  <2>6. Drawn(seen, U, P) /\ seen.mode = m.mode /\ seen.jump = m.jump
    BY <2>5, CenterDrawn
  <2> HIDE DEF seen
  <2>7. n = seen \/ n = _select_selected_choice_sym(seen)
    BY <1>1, <1>4, <1>6
  <2>8. Drawn(n, U, P) /\ n.mode = m.mode /\ n.jump = m.jump
    BY <2>6, <2>7, ChosenDrawn
  <2> QED
    BY <2>8 DEF Outcome, Drawn, Listed, Inside
<1> QED
  BY <1>5, <1>6
----------------------------------------------------------------------------
(* Sessions.                                                                *)

\* The invariant: what is true of the interface while it runs.
Jumping(m, P) == MatchFine(m) /\ m.jump.matches \in Seq(P \ {Top})
Right(m, U, P) ==
    /\ m.mode \in {"menu", "jump"} => Drawn(m, U, P)
    /\ m.mode = "jump" => Jumping(m, P)

ScreenInv(U, P) == Fields \ {"user"} \subseteq DOMAIN ui /\ Right(m0, U, P)

LEMMA SameDrawn ==
    ASSUME NEW U, NEW P, NEW n, Drawn(n, U, P), NEW k, k = [f \in DOMAIN k |-> k[f]],
           Fields \subseteq DOMAIN k, \A f \in Fields \ {"mode", "jump", "screen"} : k[f] = n[f],
           k.screen \in Nat
    PROVE  Drawn(k, U, P)
<1>1. /\ k.menu = n.menu /\ k.user = n.user /\ k.all = n.all /\ k.rows = n.rows
      /\ k.shown = n.shown /\ k.sel = n.sel /\ k.scroll = n.scroll /\ k.height = n.height
      /\ k.help = n.help
  BY DEF Fields
<1>2. Inside(k, U, P)
  BY <1>1 DEF Drawn, Listed, Inside
<1> QED
  BY <1>1, <1>2 DEF Drawn, Listed, NodeOnScreen, Shown

LEMMA SameJumping ==
    ASSUME NEW P, NEW n, Jumping(n, P), NEW k, k = [f \in DOMAIN k |-> k[f]],
           "jump" \in DOMAIN k, k.jump = n.jump
    PROVE  Jumping(k, P)
BY DEF Jumping, MatchFine, Dialog, MatchOnScreen, MatchesHeight

LEMMA StateFacts ==
    /\ m0 = [f \in DOMAIN m0 |-> m0[f]] /\ DOMAIN m0 = DOMAIN ui \cup {"user"}
    /\ m0.user = user /\ \A f \in DOMAIN ui \ {"user"} : m0[f] = ui[f]
    /\ m0' = [f \in DOMAIN m0' |-> m0'[f]] /\ DOMAIN m0' = DOMAIN ui' \cup {"user"}
    /\ m0'.user = user' /\ \A f \in DOMAIN ui' \ {"user"} : m0'[f] = ui'[f]
BY DEF m0

\* A state that has become what n is.
LEMMA BecomeRight ==
    ASSUME NEW CONSTANT U, NEW CONSTANT P, w' = w, NEW n, Right(n, U, P),
           \A f \in Fields \ {"user"} : f \in DOMAIN ui' /\ ui'[f] = n[f], user' = n.user
    PROVE  ScreenInv(U, P)'
<1> PICK k : k = m0'
  OBVIOUS
<1>1. /\ k = [f \in DOMAIN k |-> k[f]] /\ Fields \subseteq DOMAIN k
      /\ \A f \in Fields : k[f] = n[f]
  BY StateFacts
<1>2. k.mode = n.mode /\ k.jump = n.jump /\ k.screen = n.screen
  BY <1>1 DEF Fields
<1>3. Right(k, U, P)
  <2>1. ASSUME Drawn(n, U, P) PROVE Drawn(k, U, P)
    <3>1. k.screen \in Nat
      BY <1>2, <2>1 DEF Drawn, Listed, Inside
    <3> QED
      BY <1>1, <2>1, <3>1, SameDrawn
  <2>2. ASSUME Jumping(n, P) PROVE Jumping(k, P)
    <3>1. "jump" \in DOMAIN k
      BY <1>1 DEF Fields
    <3> QED
      BY <1>1, <1>2, <2>2, <3>1, SameJumping
  <2> QED
    BY <1>2, <2>1, <2>2 DEF Right
<1>4. Drawn(m0, U, P)' <=> Drawn(k, U, P)
  BY DEF Drawn, Listed, Inside, Shown, NodeOnScreen, OnScreen
<1>5. Jumping(m0, P)' <=> Jumping(k, P)
  BY DEF Jumping, MatchFine, Dialog, MatchOnScreen, MatchesHeight, OnScreen
<1>6. (Fields \ {"user"} \subseteq DOMAIN ui)'
  OBVIOUS
<1> QED
  BY <1>3, <1>4, <1>5, <1>6 DEF Right, ScreenInv

\* The operations of a menu.
LEMMA OutcomeRight ==
    ASSUME NEW CONSTANT U, NEW CONSTANT P, w' = w,
           Fields \ {"user"} \subseteq DOMAIN ui, m0.mode = "menu",
           NEW n, Outcome(n, m0, U, P), ui' = [f \in DOMAIN ui |-> n[f]], user' = n.user
    PROVE  ScreenInv(U, P)'
<1>1. Right(n, U, P)
  BY DEF Outcome, Right
<1> QED
  BY <1>1, BecomeRight

LEMMA BecomeFacts ==
    ASSUME NEW n, Become(n) PROVE ui' = [f \in DOMAIN ui |-> n[f]] /\ user' = n.user
BY DEF Become, user

\* What the invariant says of a state.
LEMMA MenuFacts ==
    ASSUME NEW CONSTANT U, NEW CONSTANT P, PlacesAreKnown(w, U, P), ScreenInv(U, P)
    PROVE  /\ m0.mode = ui.mode /\ m0.jump = ui.jump /\ m0.screen = ui.screen
           /\ In("menu") \/ In("jump") =>
                Drawn(m0, U, P) /\ Selected_(ui) \in P \ {Top} /\ Selected_(m0) = Selected_(ui)
           /\ In("jump") => Jumping(m0, P)
<1>1. \A f \in Fields \ {"user"} : m0[f] = ui[f]
  BY StateFacts DEF ScreenInv
<1>2. /\ m0.mode = ui.mode /\ m0.jump = ui.jump /\ m0.screen = ui.screen
      /\ m0.shown = ui.shown /\ m0.sel = ui.sel
  BY <1>1 DEF Fields
<1>3. ASSUME In("menu") \/ In("jump")
      PROVE  Drawn(m0, U, P) /\ Selected_(ui) \in P \ {Top} /\ Selected_(m0) = Selected_(ui)
  <2>1. Drawn(m0, U, P)
    BY <1>2, <1>3 DEF ScreenInv, Right, In
  <2>2. Selected_(m0) = Selected_(ui)
    BY <1>2 DEF Selected_
  <2>3. Selected_(m0) \in P \ {Top}
    BY <2>1, DrawnFine, ListedFacts
  <2> QED
    BY <2>1, <2>2, <2>3
<1> QED
  BY <1>2, <1>3 DEF ScreenInv, Right, In
\* The keys of a menu.
LEMMA MenuKeysRight ==
    ASSUME NEW CONSTANT U, NEW CONSTANT P, PlacesAreKnown(w, U, P), ScreenInv(U, P), user' \in U,
           \/ MoveKey \/ SpaceKey \/ ReturnKey \/ TriKey \/ LeaveKey
           \/ ShowAllKey \/ ShowHelpKey \/ ResizeKey \/ _load_dialog
    PROVE  ScreenInv(U, P)'
<1>1. In("menu") /\ w' = w
  BY DEF MoveKey, SpaceKey, ReturnKey, TriKey, LeaveKey, ShowAllKey, ShowHelpKey, ResizeKey,
         _load_dialog
<1>2. /\ Drawn(m0, U, P) /\ m0.mode = "menu" /\ Fields \subseteq DOMAIN m0 /\ Inside(m0, U, P)
      /\ Fields \ {"user"} \subseteq DOMAIN ui
      /\ Selected_(ui) \in P
  BY <1>1, MenuFacts DEF In, ScreenInv, Drawn, Listed, Inside
<1>3. ASSUME NEW n, Become(n), n.user \in U => Outcome(n, m0, U, P)
      PROVE  ScreenInv(U, P)'
  BY <1>1, <1>2, <1>3, BecomeFacts, OutcomeRight
<1>4. CASE MoveKey
  <2>1. PICK n : /\ Become(n)
                 /\ \/ n = _select_next_menu_entry(m0) \/ n = _select_prev_menu_entry(m0)
                    \/ n = Page(_select_next_menu_entry, m0) \/ n = Page(_select_prev_menu_entry, m0)
                    \/ n = _select_last_menu_entry(m0) \/ n = _select_first_menu_entry(m0)
    BY <1>4 DEF MoveKey
  <2>2. Drawn(n, U, P) /\ n.mode = m0.mode /\ n.jump = m0.jump
    <3>1. CASE \/ n = _select_next_menu_entry(m0) \/ n = _select_prev_menu_entry(m0)
               \/ n = _select_last_menu_entry(m0) \/ n = _select_first_menu_entry(m0)
      BY <1>2, <3>1, MovesDrawn
    <3>2. CASE n = Page(_select_next_menu_entry, m0) \/ n = Page(_select_prev_menu_entry, m0)
      BY <1>2, <3>2, PagesDrawn
    <3> QED
      BY <2>1, <3>1, <3>2
  <2> QED
    BY <1>3, <2>1, <2>2 DEF Outcome
<1>5. ASSUME NEW n, Become(n), n = _enter_menu(m0, Selected_(ui)) PROVE ScreenInv(U, P)'
  BY <1>2, <1>3, <1>5, EnteredDrawn DEF Outcome
<1>6. ASSUME NEW n, Become(n), n \in _change_node(m0, Selected_(ui)) PROVE ScreenInv(U, P)'
  BY <1>2, <1>3, <1>6, ChangedDrawn
<1>7. CASE SpaceKey
  BY <1>5, <1>6, <1>7 DEF SpaceKey
<1>8. CASE ReturnKey
  BY <1>5, <1>6, <1>8 DEF ReturnKey
<1>9. CASE TriKey
  <2>1. PICK v : Become(_set_sel_node_tri_val(m0, v))
    BY <1>9 DEF TriKey
  <2>2. PICK n : n = _set_sel_node_tri_val(m0, v)
    OBVIOUS
  <2>3. n = m0 \/ \E p : n = _set_val(m0, p, v)
    BY <2>2 DEF _set_sel_node_tri_val
  <2>4. n.user \in U => Outcome(n, m0, U, P)
    BY <1>2, <2>3, SetDrawn DEF Outcome
  <2> QED
    BY <1>3, <2>1, <2>2, <2>4
<1>10. CASE LeaveKey
  BY <1>2, <1>3, <1>10, LeftDrawn DEF LeaveKey
<1>11. CASE ShowAllKey
  <2>1. PICK n : n = _toggle_show_all(m0)
    OBVIOUS
  <2>2. Outcome(n, m0, U, P)
    BY <1>2, <2>1, ToggledListed DEF Drawn, Outcome
  <2> QED
    BY <1>3, <1>11, <2>1, <2>2 DEF ShowAllKey
<1>12. ASSUME NEW k, k = [f \in DOMAIN k |-> k[f]], DOMAIN k = DOMAIN m0,
              \A f \in Fields \ {"screen", "help"} : k[f] = m0[f],
              k.screen \in Nat, k.help \in BOOLEAN, Become(_resize_main(k))
       PROVE  ScreenInv(U, P)'
  <2>1. PICK n : n = _resize_main(k)
    OBVIOUS
  <2>2. /\ k.menu = m0.menu /\ k.user = m0.user /\ k.all = m0.all /\ k.rows = m0.rows
        /\ k.shown = m0.shown /\ k.sel = m0.sel /\ k.scroll = m0.scroll /\ k.height = m0.height
        /\ k.mode = m0.mode /\ k.jump = m0.jump
    BY <1>12 DEF Fields
  <2>3. Drawn(k, U, P)
    BY <1>2, <1>12, <2>2 DEF Drawn, Listed, Inside, Shown, NodeOnScreen
  <2>4. Drawn(n, U, P) /\ n.mode = k.mode /\ n.jump = k.jump
    BY <1>12, <2>1, <2>3, ResizedDrawn
  <2> QED
    BY <1>3, <1>12, <2>1, <2>2, <2>4 DEF Outcome
<1>13. CASE ShowHelpKey
  <2> DEFINE k == [m0 EXCEPT !.help = ~m0.help, !.done = m0.done + 1]
  <2>1. Become(_resize_main(k))
    BY <1>13 DEF ShowHelpKey
  <2>2. k = [f \in DOMAIN k |-> k[f]] /\ DOMAIN k = DOMAIN m0
    OBVIOUS
  <2>3. /\ \A f \in Fields \ {"screen", "help"} : k[f] = m0[f]
        /\ k.screen \in Nat /\ k.help \in BOOLEAN
    BY <1>2 DEF Inside, Fields
  <2> HIDE DEF k
  <2> QED
    BY <1>12, <2>1, <2>2, <2>3
<1>14. CASE ResizeKey
  <2>1. PICK screen \in Screens : Become(_resize_main([m0 EXCEPT !.screen = screen, !.done = @ + 1]))
    BY <1>14 DEF ResizeKey
  <2> DEFINE k == [m0 EXCEPT !.screen = screen, !.done = m0.done + 1]
  <2>2. Become(_resize_main(k)) /\ k = [f \in DOMAIN k |-> k[f]] /\ DOMAIN k = DOMAIN m0
    BY <2>1
  <2>3. /\ \A f \in Fields \ {"screen", "help"} : k[f] = m0[f]
        /\ k.screen \in Nat /\ k.help \in BOOLEAN
    BY <1>2, ScreensAssumption DEF Inside, Fields
  <2> HIDE DEF k
  <2> QED
    BY <1>12, <2>2, <2>3
<1>15. CASE _load_dialog
  <2>1. PICK name, object : /\ ui' = [f \in DOMAIN ui |-> AfterLoad(object, name)[f]]
                            /\ kconf' = object
    BY <1>15 DEF _load_dialog
  <2> PICK changed : changed = Unsaved(w, object)
    OBVIOUS
  <2> DEFINE m == [m0 EXCEPT !.user = object.user, !.conf = name, !.done = m0.done + 1,
                             !.changed = changed]
  <2> PICK all : all = (ui.all \/ ~Has(Shown(m), Selected_(ui)))
    OBVIOUS
  <2> PICK n : n = AfterLoad(object, name)
    OBVIOUS
  <2>2. all \in BOOLEAN /\ n = _update_menu([m EXCEPT !.all = all])
    BY DEF AfterLoad
  <2> DEFINE k == [m0 EXCEPT !.user = object.user, !.conf = name, !.done = m0.done + 1,
                             !.changed = changed, !.all = all]
  <2>3. n = _update_menu(k) /\ k = [f \in DOMAIN k |-> k[f]] /\ DOMAIN k = DOMAIN m0
    BY <2>2
  <2>4. \A f \in Fields \ {"user", "all"} : k[f] = m0[f]
    BY <1>2 DEF Fields
  <2>5. k.user = object.user /\ k.all = all
    BY <1>2 DEF Fields
  <2> HIDE DEF k
  <2>6. user' = object.user
    BY <2>1 DEF user
  <2>7. /\ Inside(k, U, P) /\ k.sel - k.scroll \in 0..(k.height - 1)
        /\ k.mode = m0.mode /\ k.jump = m0.jump
    <3>1. k.user \in U /\ k.all \in BOOLEAN /\ DOMAIN m0 \subseteq DOMAIN k
      BY <2>2, <2>3, <2>5, <2>6
    <3> QED
      BY <1>2, <2>3, <2>4, <3>1, RevaluedInside
  <2>8. Outcome(n, k, U, P) /\ n.user = k.user
    BY <2>3, <2>7, UpdatedDrawn
  <2>9. Outcome(n, m0, U, P) /\ user' = n.user
    BY <2>5, <2>6, <2>7, <2>8 DEF Outcome
  <2> QED
    BY <1>1, <1>2, <2>1, <2>2, <2>9, OutcomeRight
<1> QED
  BY <1>4, <1>7, <1>8, <1>9, <1>10, <1>11, <1>13, <1>14, <1>15
\* The dialog for jumps.
LEMMA NewJumpFine ==
    ASSUME NEW P, NEW matches \in Seq(P \ {Top}), NEW screen \in Nat, NEW n,
           n = [f \in DOMAIN n |-> n[f]], "jump" \in DOMAIN n,
           n.jump = [NoJump EXCEPT !.matches = matches, !.screen = screen]
    PROVE  Jumping(n, P)
<1>1. /\ n.jump = [f \in DOMAIN n.jump |-> n.jump[f]]
      /\ {"matches", "sel", "scroll", "screen"} \subseteq DOMAIN n.jump
      /\ n.jump.matches = matches /\ n.jump.sel = 0 /\ n.jump.scroll = 0 /\ n.jump.screen = screen
  BY DEF NoJump
<1>2. Len(matches) \in Nat /\ (matches # <<>> => Len(matches) \in Nat \ {0})
  OBVIOUS
<1>3. Dialog(n)
  BY <1>1, <1>2 DEF Dialog
<1>4. MatchesHeight(n) \in Nat \ {0}
  BY <1>1 DEF MatchesHeight, AtLeast, JumpHelpHeight
<1>5. matches # <<>> => OnScreen(matches, 0, 0, MatchesHeight(n))
  BY <1>2, <1>4, EndsOnScreen
<1>6. MatchOnScreen(n)
  BY <1>1, <1>5 DEF MatchOnScreen
<1> QED
  BY <1>1, <1>3, <1>6 DEF Jumping, MatchFine

\* The keys of the dialog leave the menu behind it alone.
Selecting(n, m) ==
    /\ MatchFine(n) /\ DOMAIN n = DOMAIN m /\ \A f \in DOMAIN m \ {"jump"} : n[f] = m[f]
    /\ n.jump.matches = m.jump.matches

LEMMA SelectingMoves ==
    ASSUME NEW m, NEW k, Selecting(k, m), NEW n,
           \/ n = select_next_match(k) \/ n = select_prev_match(k)
           \/ n = select_last_match(k) \/ n = select_first_match(k)
    PROVE  Selecting(n, m)
<1>1. MatchFine(k) /\ Dialog(k) /\ DOMAIN k = DOMAIN m /\ k.jump.matches = m.jump.matches
      /\ \A f \in DOMAIN m \ {"jump"} : k[f] = m[f]
  BY DEF Selecting, MatchFine
<1>2. MatchFine(n)
  BY <1>1, NextMatchFine, PrevMatchFine, EndMatchesFine
<1>3. /\ DOMAIN n = DOMAIN k /\ \A f \in DOMAIN k \ {"jump"} : n[f] = k[f]
      /\ n.jump.matches = k.jump.matches
  <2>1. n = k \/ \E a, b : n = [k EXCEPT !.jump.sel = a, !.jump.scroll = b]
    BY DEF select_next_match, select_prev_match, select_last_match, select_first_match
  <2>2. ASSUME NEW a, NEW b, n = [k EXCEPT !.jump.sel = a, !.jump.scroll = b]
        PROVE  /\ DOMAIN n = DOMAIN k /\ \A f \in DOMAIN k \ {"jump"} : n[f] = k[f]
               /\ n.jump.matches = k.jump.matches
    BY <1>1, <2>2 DEF Dialog
  <2> QED
    BY <2>1, <2>2
<1> QED
  BY <1>1, <1>2, <1>3 DEF Selecting

LEMMA JumpMovesSelecting ==
    ASSUME NEW m, MatchFine(m), NEW n,
           \/ n = select_next_match(m) \/ n = select_prev_match(m)
           \/ n = Page(select_next_match, m) \/ n = Page(select_prev_match, m)
           \/ n = select_last_match(m) \/ n = select_first_match(m)
    PROVE  Selecting(n, m)
<1>1. Selecting(m, m)
  BY DEF Selecting
<1>2. \A k : Selecting(k, m) => Selecting(select_next_match(k), m)
  BY SelectingMoves
<1>3. \A k : Selecting(k, m) => Selecting(select_prev_match(k), m)
  BY SelectingMoves
<1>4. Selecting(Page(select_next_match, m), m) /\ Selecting(Page(select_prev_match, m), m)
  BY <1>1, <1>2, <1>3 DEF Page
<1>5. CASE \/ n = select_next_match(m) \/ n = select_prev_match(m)
           \/ n = select_last_match(m) \/ n = select_first_match(m)
  BY <1>1, <1>5, SelectingMoves
<1> QED
  BY <1>4, <1>5

LEMMA JumpKeysRight ==
    ASSUME NEW CONSTANT U, NEW CONSTANT P, PlacesAreKnown(w, U, P), ScreenInv(U, P),
           JumpMove \/ JumpSearch \/ JumpResize
    PROVE  ScreenInv(U, P)'
<1>1. In("jump") /\ w' = w
  BY DEF JumpMove, JumpSearch, JumpResize, storeVars
<1>2. /\ Drawn(m0, U, P) /\ Jumping(m0, P) /\ m0.mode = "jump" /\ m0.jump = ui.jump
      /\ Fields \subseteq DOMAIN m0 /\ Fields \ {"user"} \subseteq DOMAIN ui
  BY <1>1, MenuFacts DEF In, ScreenInv, Drawn, Listed, Inside
<1>3. /\ ui.jump.screen \in Nat /\ MatchFine(m0) /\ m0 = [f \in DOMAIN m0 |-> m0[f]]
      /\ m0.screen \in Nat
  BY <1>2 DEF Jumping, MatchFine, Dialog, Drawn, Listed, Inside
<1>4. ASSUME NEW n, n = [f \in DOMAIN n |-> n[f]], DOMAIN n = DOMAIN m0,
             \A f \in Fields \ {"jump"} : n[f] = m0[f], Jumping(n, P),
             \A f \in Fields \ {"user"} : f \in DOMAIN ui' /\ ui'[f] = n[f], user' = n.user
      PROVE  ScreenInv(U, P)'
  <2>1. n.mode = "jump" /\ n.screen \in Nat
    BY <1>2, <1>3, <1>4 DEF Fields
  <2>2. Drawn(n, U, P)
    BY <1>2, <1>4, <2>1, SameDrawn
  <2>3. Right(n, U, P)
    BY <1>4, <2>2 DEF Right
  <2> QED
    BY <1>1, <1>4, <2>3, BecomeRight
<1>5. ASSUME NEW n, Selecting(n, m0), Become(n) PROVE ScreenInv(U, P)'
  <2>1. /\ n = [f \in DOMAIN n |-> n[f]] /\ DOMAIN n = DOMAIN m0 /\ MatchFine(n)
        /\ \A f \in Fields \ {"jump"} : n[f] = m0[f]
        /\ n.jump.matches = m0.jump.matches
    BY <1>2, <1>5 DEF Selecting, MatchFine, Dialog
  <2>2. Jumping(n, P)
    BY <1>2, <2>1 DEF Jumping
  <2>3. (\A f \in Fields \ {"user"} : f \in DOMAIN ui' /\ ui'[f] = n[f]) /\ user' = n.user
    BY <1>2, <1>5, BecomeFacts
  <2> QED
    BY <1>4, <2>1, <2>2, <2>3
<1>6. CASE JumpMove
  <2>1. PICK n : /\ Become(n)
                 /\ \/ n = select_next_match(m0) \/ n = select_prev_match(m0)
                    \/ n = Page(select_next_match, m0) \/ n = Page(select_prev_match, m0)
                    \/ n = select_last_match(m0) \/ n = select_first_match(m0)
    BY <1>6 DEF JumpMove
  <2> QED
    BY <1>3, <1>5, <2>1, JumpMovesSelecting
<1>7. CASE JumpResize
  <2>1. PICK screen \in Screens : Become(_resize_jump_to_dialog([m0 EXCEPT !.jump.screen = screen]))
    BY <1>7 DEF JumpResize
  <2>2. PICK n : n = _resize_jump_to_dialog([m0 EXCEPT !.jump.screen = screen])
    OBVIOUS
  <2>3. MatchFine(n)
    BY <1>3, <2>2, ResizedMatchFine, ScreensAssumption
  <2>4. /\ DOMAIN n = DOMAIN m0 /\ \A f \in DOMAIN m0 \ {"jump"} : n[f] = m0[f]
        /\ n.jump.matches = m0.jump.matches
    BY <1>3, <2>2 DEF _resize_jump_to_dialog, MatchFine, Dialog
  <2> QED
    BY <1>5, <2>1, <2>2, <2>3, <2>4 DEF Selecting
<1>8. CASE JumpSearch
  <2>1. PICK matches \in Searched :
          ui' = [ui EXCEPT !.jump = [NoJump EXCEPT !.matches = matches, !.screen = ui.jump.screen]]
    BY <1>8 DEF JumpSearch
  <2>2. matches \in Seq(P \ {Top})
    BY <2>1 DEF Searched, PlacesAreKnown
  <2>3. user' = user
    BY <1>8 DEF JumpSearch, storeVars, user
  <2> DEFINE n == [m0 EXCEPT !.jump = [NoJump EXCEPT !.matches = matches, !.screen = ui.jump.screen]]
  <2>4. /\ n = [f \in DOMAIN n |-> n[f]] /\ DOMAIN n = DOMAIN m0
        /\ n.jump = [NoJump EXCEPT !.matches = matches, !.screen = ui.jump.screen]
        /\ \A f \in Fields \ {"jump"} : n[f] = m0[f]
    BY <1>2 DEF Fields
  <2>5. \A f \in Fields \ {"user"} : f \in DOMAIN ui' /\ ui'[f] = n[f]
    <3>1. \A f \in Fields \ {"user"} : m0[f] = ui[f] /\ f \in DOMAIN m0
      BY <1>2, StateFacts
    <3> QED
      BY <1>2, <2>1, <3>1
  <2> HIDE DEF n
  <2>6. n.user = user
    BY <2>4, StateFacts DEF Fields
  <2>7. "jump" \in DOMAIN n
    BY <1>2, <2>4 DEF Fields
  <2>8. Jumping(n, P)
    BY <1>3, <2>2, <2>4, <2>7, NewJumpFine
  <2> QED
    BY <1>4, <2>3, <2>4, <2>5, <2>6, <2>8
<1> QED
  BY <1>6, <1>7, <1>8
\* The size that the dialog has learnt of is the size of the menu when it is left.
LEMMA LeaveJumpDrawn ==
    ASSUME NEW U, NEW P, PlacesAreKnown(w, U, P), NEW m, Fields \subseteq DOMAIN m,
           m.mode = "raised" \/ Drawn(m, U, P), ui.jump.screen \in Nat, NEW n, n = LeaveJump(m)
    PROVE  /\ n.user = m.user /\ Fields \subseteq DOMAIN n
           /\ n.mode = "raised" \/ (n.mode = "menu" /\ Drawn(n, U, P))
<1> DEFINE closed == [m EXCEPT !.screen = ui.jump.screen, !.jump = NoJump]
           k == [closed EXCEPT !.mode = "menu"]
<1>1. n = IF m.mode = "raised" THEN closed ELSE _resize_main(k)
  BY DEF LeaveJump
<1>2. CASE m.mode = "raised"
  BY <1>1, <1>2 DEF Fields
<1>3. CASE m.mode # "raised"
  <2>1. Drawn(m, U, P)
    BY <1>3
  <2>2. /\ k = [f \in DOMAIN k |-> k[f]] /\ DOMAIN k = DOMAIN m
        /\ \A f \in Fields \ {"mode", "jump", "screen"} : k[f] = m[f]
        /\ k.mode = "menu" /\ k.screen = ui.jump.screen
    BY DEF Fields
  <2> HIDE DEF k
  <2>3. Drawn(k, U, P) /\ k.user = m.user
    BY <2>1, <2>2, SameDrawn DEF Fields
  <2>4. n = _resize_main(k)
    BY <1>1, <1>3
  <2>5. Drawn(n, U, P) /\ n.mode = "menu"
    BY <2>2, <2>3, <2>4, ResizedDrawn
  <2>6. n.user = k.user /\ DOMAIN n = DOMAIN k
    BY <2>2, <2>4 DEF _resize_main, Fields
  <2> QED
    BY <2>2, <2>3, <2>5, <2>6
<1> QED
  BY <1>2, <1>3

LEMMA LeaveJumpRight ==
    ASSUME NEW CONSTANT U, NEW CONSTANT P, PlacesAreKnown(w, U, P), ScreenInv(U, P), user' \in U,
           JumpTo \/ JumpCancel
    PROVE  ScreenInv(U, P)'
<1>1. In("jump") /\ w' = w
  BY DEF JumpTo, JumpCancel
<1>2. /\ Drawn(m0, U, P) /\ Jumping(m0, P) /\ m0.mode = "jump" /\ m0.jump = ui.jump
      /\ Fields \subseteq DOMAIN m0 /\ Fields \ {"user"} \subseteq DOMAIN ui
  BY <1>1, MenuFacts DEF In, ScreenInv, Drawn, Listed, Inside
<1>3. ui.jump.screen \in Nat
  BY <1>2 DEF Jumping, MatchFine, Dialog
<1>4. ASSUME NEW m, Fields \subseteq DOMAIN m, m.mode = "raised" \/ Drawn(m, U, P),
             Become(LeaveJump(m))
      PROVE  ScreenInv(U, P)'
  <2>1. PICK n : n = LeaveJump(m)
    OBVIOUS
  <2>2. /\ Fields \subseteq DOMAIN n
        /\ n.mode = "raised" \/ (n.mode = "menu" /\ Drawn(n, U, P))
    BY <1>3, <1>4, <2>1, LeaveJumpDrawn
  <2>3. Right(n, U, P)
    BY <2>2 DEF Right
  <2>4. (\A f \in Fields \ {"user"} : f \in DOMAIN ui' /\ ui'[f] = n[f]) /\ user' = n.user
    BY <1>2, <1>4, <2>1, BecomeFacts
  <2> QED
    BY <1>1, <2>3, <2>4, BecomeRight
<1>5. CASE JumpCancel
  BY <1>2, <1>4, <1>5 DEF JumpCancel
<1>6. CASE JumpTo
  <2>1. PICK node : node = ui.jump.matches[ui.jump.sel + 1]
    OBVIOUS
  <2>2. ui.jump.matches # <<>> /\ Become(LeaveJump(_jump_to(m0, node)))
    BY <1>6, <2>1 DEF JumpTo
  <2>3. node \in P \ {Top}
    <3>1. /\ ui.jump.matches \in Seq(P \ {Top})
          /\ ui.jump.sel \in 0..(Len(ui.jump.matches) - 1)
      BY <1>2, <2>2 DEF Jumping, MatchFine, MatchOnScreen, OnScreen
    <3>2. ui.jump.sel + 1 \in 1..Len(ui.jump.matches)
      BY <3>1
    <3> QED
      BY <2>1, <3>1, <3>2, ElementOfSeq
  <2>4. PICK m : m = _jump_to(m0, node)
    OBVIOUS
  <2>5. Outcome(m, m0, U, P) /\ Fields \subseteq DOMAIN m
    BY <1>2, <2>3, <2>4, JumpedDrawn
  <2> QED
    BY <1>4, <2>2, <2>4, <2>5 DEF Outcome
<1> QED
  BY <1>5, <1>6

\* What leaves the display alone, or ends the program.
LEMMA FileKeysRight ==
    ASSUME NEW CONSTANT U, NEW CONSTANT P, PlacesAreKnown(w, U, P), ScreenInv(U, P), user' \in U,
           SaveKey \/ SaveMinimalKey \/ _quit_dialog \/ UNCHANGED <<storeVars, ui>>
    PROVE  ScreenInv(U, P)'
<1>1. w' = w /\ user' = user /\ Fields \ {"user"} \subseteq DOMAIN ui
  BY DEF SaveKey, SaveMinimalKey, _quit_dialog, storeVars, user, ScreenInv
<1>2. ASSUME \A f \in Fields \ {"user"} : f \in DOMAIN ui' /\ ui'[f] = ui[f] PROVE ScreenInv(U, P)'
  <2>1. \A f \in Fields \ {"user"} : f \in DOMAIN ui' /\ ui'[f] = m0[f]
    BY <1>1, <1>2, StateFacts
  <2>2. user' = m0.user /\ Right(m0, U, P)
    BY <1>1, StateFacts DEF ScreenInv
  <2>3. PICK n : n = m0
    OBVIOUS
  <2> QED
    BY <1>1, <2>1, <2>2, <2>3, BecomeRight
<1>3. ASSUME NEW mode \in {"unchanged", "saved", "not saved"},
             ui' = [Closed(mode) EXCEPT !.conf = ui.conf]
      PROVE  ScreenInv(U, P)'
  <2>1. Fields \ {"user"} \subseteq DOMAIN ui' /\ ui'.mode = mode
    BY <1>3 DEF Closed, Fields
  <2>2. m0'.mode = mode
    BY <2>1, StateFacts DEF Fields
  <2> QED
    BY <2>1, <2>2 DEF ScreenInv, Right
<1>4. CASE UNCHANGED <<storeVars, ui>>
  BY <1>1, <1>2, <1>4
<1>5. CASE SaveKey
  BY <1>1, <1>2, <1>5 DEF SaveKey, Fields
<1>6. CASE SaveMinimalKey
  BY <1>1, <1>2, <1>6 DEF SaveMinimalKey, Fields
<1>7. CASE _quit_dialog
  <2>1. \/ \E mode \in {"unchanged", "saved", "not saved"} :
             ui' = [Closed(mode) EXCEPT !.conf = ui.conf]
        \/ ui' = [ui EXCEPT !.done = @ + 1]
    BY <1>7 DEF _quit_dialog
  <2>2. CASE ui' = [ui EXCEPT !.done = @ + 1]
    BY <1>1, <1>2, <2>2 DEF Fields
  <2> QED
    BY <1>3, <2>1, <2>2
<1> QED
  BY <1>4, <1>5, <1>6, <1>7

LEMMA JumpDialogRight ==
    ASSUME NEW CONSTANT U, NEW CONSTANT P, PlacesAreKnown(w, U, P), ScreenInv(U, P), JumpDialog
    PROVE  ScreenInv(U, P)'
<1>1. In("menu") /\ w' = w /\ user' = user
  BY DEF JumpDialog, storeVars, user
<1>2. /\ Drawn(m0, U, P) /\ m0.screen = ui.screen /\ Fields \subseteq DOMAIN m0
      /\ Fields \ {"user"} \subseteq DOMAIN ui /\ m0 = [f \in DOMAIN m0 |-> m0[f]]
      /\ ui.screen \in Nat
  BY <1>1, MenuFacts DEF ScreenInv, Drawn, Listed, Inside
<1>3. PICK matches \in Searched :
        ui' = [ui EXCEPT !.mode = "jump", !.done = ui.done + 1,
                         !.jump = [NoJump EXCEPT !.matches = matches, !.screen = ui.screen]]
  BY DEF JumpDialog
<1>4. matches \in Seq(P \ {Top})
  BY <1>3 DEF Searched, PlacesAreKnown
<1> DEFINE n == [m0 EXCEPT !.mode = "jump",
                           !.jump = [NoJump EXCEPT !.matches = matches, !.screen = ui.screen]]
<1>5. /\ n = [f \in DOMAIN n |-> n[f]] /\ DOMAIN n = DOMAIN m0 /\ n.mode = "jump"
      /\ n.jump = [NoJump EXCEPT !.matches = matches, !.screen = ui.screen]
      /\ \A f \in Fields \ {"mode", "jump"} : n[f] = m0[f]
  BY <1>2 DEF Fields
<1>6. \A f \in Fields \ {"user"} : f \in DOMAIN ui' /\ ui'[f] = n[f]
  <2>1. \A f \in Fields \ {"user"} : m0[f] = ui[f] /\ f \in DOMAIN m0
    BY <1>2, StateFacts
  <2> QED
    BY <1>2, <1>3, <2>1 DEF Fields
<1> HIDE DEF n
<1>7. n.user = user /\ n.screen \in Nat /\ "jump" \in DOMAIN n
  BY <1>2, <1>5, StateFacts DEF Fields
<1>8. Drawn(n, U, P)
  BY <1>2, <1>5, <1>7, SameDrawn
<1>9. Jumping(n, P)
  BY <1>2, <1>4, <1>5, <1>7, NewJumpFine
<1>10. Right(n, U, P)
  BY <1>8, <1>9 DEF Right
<1> QED
  BY <1>1, <1>6, <1>7, <1>10, BecomeRight

LEMMA StartFacts ==
    ASSUME MenuStart
    PROVE  /\ w' = w /\ disk' = disk
           /\ \E object \in {Loaded(Made(w), ".config")}, screen \in Screens :
              \E all \in {ShownIn(w, object.user, FALSE, Top) = <<>>} :
                /\ ShownIn(w, object.user, all, Top) # <<>>
                /\ kconf' = object
                /\ ui' = _resize_main([Closed("menu") EXCEPT
                           !.shown = ShownIn(w, object.user, all, Top), !.all = all,
                           !.screen = screen, !.changed = Outdated(".config", object)])
<1>1. w' = w /\ disk' = disk
  BY DEF MenuStart
<1> QED
  BY Zenon, <1>1 DEF MenuStart

LEMMA MenuStartRight ==
    ASSUME NEW CONSTANT U, NEW CONSTANT P, PlacesAreKnown(w, U, P), user' \in U, MenuStart
    PROVE  ScreenInv(U, P)'
<1>1. PICK object, all, shown, screen, changed :
        /\ all \in BOOLEAN /\ screen \in Screens /\ shown = ShownIn(w, object.user, all, Top) /\ shown # <<>> /\ kconf' = object
        /\ ui' = _resize_main([Closed("menu") EXCEPT !.shown = shown, !.all = all,
                                 !.screen = screen, !.changed = changed])
        /\ w' = w
  <2>1. PICK object, screen, all :
          /\ all \in {ShownIn(w, object.user, FALSE, Top) = <<>>} /\ screen \in Screens
          /\ ShownIn(w, object.user, all, Top) # <<>> /\ kconf' = object
          /\ ui' = _resize_main([Closed("menu") EXCEPT
                      !.shown = ShownIn(w, object.user, all, Top), !.all = all,
                      !.screen = screen, !.changed = Outdated(".config", object)])
    BY ZenonT(30), StartFacts
  <2>2. all \in BOOLEAN /\ w' = w
    BY <2>1, StartFacts
  <2> QED
    BY <2>1, <2>2
<1>2. user' = object.user
  BY <1>1 DEF user
<1> DEFINE k == [Closed("menu") EXCEPT !.shown = shown, !.all = all, !.screen = screen,
                                       !.changed = changed]
<1>3. /\ Fields \ {"user"} \subseteq DOMAIN k /\ k = [f \in DOMAIN k |-> k[f]]
      /\ k.menu = Top /\ k.shown = shown /\ k.sel = 0 /\ k.scroll = 0 /\ k.rows = <<>>
      /\ k.all = all /\ k.help = FALSE /\ k.help \in BOOLEAN /\ k.screen = screen
      /\ k.mode = "menu"
  <2>1. k = [f \in DOMAIN k |-> k[f]] /\ Fields \ {"user"} \subseteq DOMAIN k
    <3>1. PICK c : c = Closed("menu")
      OBVIOUS
    <3>2. c = [f \in DOMAIN c |-> c[f]] /\ Fields \ {"user"} \subseteq DOMAIN c
      BY <3>1 DEF Closed, Fields
    <3>3. k = [c EXCEPT !.shown = shown, !.all = all, !.screen = screen, !.changed = changed]
      BY <3>1
    <3> HIDE DEF k
    <3> QED
      BY <3>2, <3>3
  <2>2. k.shown = shown /\ k.all = all /\ k.screen = screen
    BY DEF Closed
  <2>3. k.menu = Top /\ k.sel = 0 /\ k.scroll = 0 /\ k.rows = <<>> /\ k.mode = "menu"
    BY DEF Closed
  <2>4. k.help = FALSE /\ k.help \in BOOLEAN
    BY DEF Closed
  <2> QED
    BY <2>1, <2>2, <2>3, <2>4
<1>4. ui' = _resize_main(k)
  BY <1>1
<1> HIDE DEF k
<1> PICK height : height = MenuHeight(k)
  OBVIOUS
<1>5. screen \in Nat /\ height \in Nat \ {0}
  BY <1>1, <1>3, ScreensAssumption DEF MenuHeight, AtLeast, MainHelpHeight, _SHOW_HELP_HEIGHT
<1>6. ui' = [k EXCEPT !.height = height, !.scroll = 0]
  <2>1. k.sel - k.scroll = 0 /\ ~(0 >= height)
    BY <1>3, <1>5
  <2>2. ui' = [k EXCEPT !.height = height,
                        !.scroll = IF k.sel - k.scroll >= height THEN k.sel - height + 1 ELSE k.scroll]
    BY <1>4 DEF _resize_main
  <2> QED
    BY <1>3, <2>1, <2>2
<1> DEFINE n == [f \in DOMAIN ui' \cup {"user"} |-> IF f = "user" THEN user' ELSE ui'[f]]
<1>16. n = [f \in DOMAIN n |-> n[f]]
  OBVIOUS
<1>7. /\ Fields \subseteq DOMAIN n
      /\ n.menu = Top /\ n.shown = shown /\ n.sel = 0 /\ n.scroll = 0 /\ n.rows = <<>>
      /\ n.all = all /\ n.help = k.help /\ n.screen = screen /\ n.mode = "menu"
      /\ n.height = height /\ n.user = user'
  BY <1>3, <1>6 DEF Fields
<1>15. \A f \in Fields \ {"user"} : f \in DOMAIN ui' /\ ui'[f] = n[f]
  BY <1>3, <1>6
<1> HIDE DEF n
<1>8. Top \in P
  BY DEF PlacesAreKnown
<1>9. Inside(n, U, P)
  <2>1. n.rows \in Seq(Nat) /\ n.menu \in P /\ n.user \in U /\ n.all \in BOOLEAN
    BY <1>1, <1>7, <1>8
  <2>2. n.height \in Nat \ {0} /\ n.screen \in Nat /\ n.help \in BOOLEAN /\ n.scroll \in Int
    BY <1>3, <1>5, <1>7
  <2> QED
    BY <1>7, <1>16, <2>1, <2>2 DEF Inside
<1>10. shown = Shown(n)
  BY <1>1, <1>2, <1>7 DEF Shown
<1>11. Len(shown) \in Nat \ {0}
  BY <1>1, <1>2, <1>8, ShownFacts
<1>12. OnScreen(shown, 0, 0, height)
  BY <1>5, <1>11, EndsOnScreen
<1>13. Drawn(n, U, P)
  BY <1>7, <1>9, <1>10, <1>11, <1>12 DEF Drawn, Listed, NodeOnScreen
<1>14. Right(n, U, P)
  BY <1>7, <1>13 DEF Right
<1> QED
  BY <1>1, <1>7, <1>14, <1>15, BecomeRight

\* In any session, for any files and whatever kconfiglib computes: the nodes on display
\* are the ones that the values call for, and the selected node and the selected match
\* are on the screen.  U has the user values that occur, P the places.  That turning
\* show-all off never empties a menu, and that what is found and shown are places
\* other than the top, is PlacesAreKnown.
THEOREM TheScreenIsRight ==
    ASSUME NEW CONSTANT U, NEW CONSTANT P
    PROVE  MenuSpec /\ [](user \in U /\ PlacesAreKnown(w, U, P)) => []ScreenIsRight
<1>1. ui = Closed("start") => ScreenInv(U, P)
  <2> SUFFICES ASSUME ui = Closed("start") PROVE ScreenInv(U, P)
    OBVIOUS
  <2>1. Fields \ {"user"} \subseteq DOMAIN ui /\ ui.mode = "start"
    BY DEF Closed, Fields
  <2>2. m0.mode = "start"
    BY <2>1, StateFacts DEF Fields
  <2> QED
    BY <2>1, <2>2 DEF ScreenInv, Right
<1>2. user \in U /\ PlacesAreKnown(w, U, P) /\ (user \in U)' /\ ScreenInv(U, P)
        /\ [MenuNext]_<<storeVars, ui>> => ScreenInv(U, P)'
  <2> SUFFICES ASSUME PlacesAreKnown(w, U, P), (user \in U)', ScreenInv(U, P),
                      [MenuNext]_<<storeVars, ui>>
               PROVE  ScreenInv(U, P)'
    OBVIOUS
  <2> user' \in U
    BY DEF user
  <2>1. CASE \/ MoveKey \/ SpaceKey \/ ReturnKey \/ TriKey \/ LeaveKey
             \/ ShowAllKey \/ ShowHelpKey \/ ResizeKey \/ _load_dialog
    BY <2>1, MenuKeysRight
  <2>2. CASE JumpMove \/ JumpSearch \/ JumpResize
    BY <2>2, JumpKeysRight
  <2>3. CASE JumpTo \/ JumpCancel
    BY <2>3, LeaveJumpRight
  <2>4. CASE SaveKey \/ SaveMinimalKey \/ _quit_dialog \/ UNCHANGED <<storeVars, ui>>
    BY <2>4, FileKeysRight
  <2>5. CASE JumpDialog
    BY <2>5, JumpDialogRight
  <2>6. CASE MenuStart
    BY <2>6, MenuStartRight
  <2> QED
    BY <2>1, <2>2, <2>3, <2>4, <2>5, <2>6 DEF MenuNext
<1>3. user \in U /\ PlacesAreKnown(w, U, P) /\ ScreenInv(U, P) => ScreenIsRight
  <2> SUFFICES ASSUME PlacesAreKnown(w, U, P), ScreenInv(U, P) PROVE ScreenIsRight
    OBVIOUS
  <2>1. \A f \in Fields \ {"user"} : m0[f] = ui[f]
    BY StateFacts DEF ScreenInv
  <2>2. /\ m0.shown = ui.shown /\ m0.all = ui.all /\ m0.menu = ui.menu /\ m0.sel = ui.sel
        /\ m0.scroll = ui.scroll /\ m0.height = ui.height /\ m0.jump = ui.jump /\ m0.user = user
    BY <2>1, StateFacts DEF Fields
  <2>3. ASSUME In("menu") PROVE ui.shown = ShownIn(w, user, ui.all, ui.menu) /\ NodeOnScreen(ui)
    BY <2>2, <2>3, MenuFacts DEF Drawn, Listed, Shown, NodeOnScreen
  <2>4. ASSUME In("jump") PROVE MatchOnScreen(ui)
    BY <2>2, <2>4, MenuFacts DEF Jumping, MatchFine, MatchOnScreen, MatchesHeight
  <2> QED
    BY <2>3, <2>4 DEF ScreenIsRight
<1> QED
  BY <1>1, <1>2, <1>3, PTL DEF MenuSpec
----------------------------------------------------------------------------
(* The interface: what is in the files when it is left.                     *)

\* What is known of a file d: the values u are in it, under the name or the old one.
Holds(d, name, u) == name \in DOMAIN d /\ Values(Read(w, Made(w), d[name]).user) = Values(u)
Place(d, name) == IF name \in DOMAIN d THEN name ELSE Old(name)
Names == FileNames \cup {".config"}

LEMMA SavedHolds ==
    ASSUME NEW K, NEW L, FilesAreFaithful(w, K, L), NEW k \in K, NEW d, NEW name
    PROVE  Holds(Saved(d, name, ConfigOf(w, k.user)), name, k.user)
<1> PICK lines : lines = ConfigOf(w, k.user)
  OBVIOUS
<1>1. name \in DOMAIN Saved(d, name, lines) /\ Saved(d, name, lines)[name] = lines
  BY DEF Saved, _contents_eq, Put
<1>2. Values(Read(w, Made(w), lines).user) = Values(k.user)
  BY DEF FilesAreFaithful, RoundTrips, Values
<1> QED
  BY <1>1, <1>2 DEF Holds

\* A save that fails may rename the file, or another one.
LEMMA FailedHolds ==
    ASSUME NEW d, NEW a \in Names, NEW name \in Names, NEW lines, NEW u,
           Holds(d, Place(d, a), u), NEW e, e = SaveFailed(d, name, lines)
    PROVE  Holds(e, Place(e, a), u)
<1>1. Old(a) # a /\ Old(name) # a /\ Old(a) # name /\ (Old(a) = Old(name) => a = name)
  BY FileNamesAssumption DEF Names
<1>2. CASE e = d
  BY <1>2
<1>3. CASE name \in DOMAIN d /\ e = SaveOld(d, name)
  <2>1. /\ DOMAIN e = (DOMAIN d \cup {Old(name)}) \ {name}
        /\ \A f \in DOMAIN e : e[f] = IF f = Old(name) THEN d[name] ELSE d[f]
    BY <1>3 DEF SaveOld
  <2>2. CASE a = name
    BY <1>1, <1>3, <2>1, <2>2 DEF Holds, Place
  <2>3. CASE a # name
    BY <1>1, <1>3, <2>1, <2>3 DEF Holds, Place
  <2> QED
    BY <2>2, <2>3
<1> QED
  BY <1>2, <1>3 DEF SaveFailed, SaveOld

\* A minimal configuration may be written over it.
LEMMA MinimalHolds ==
    ASSUME NEW K, NEW L, FilesAreFaithful(w, K, L), NEW k \in K, NEW d, NEW a \in Names,
           NEW name \in Names, Holds(d, Place(d, a), k.user), NEW e,
           e = Put(d, name, MinConfigOf(w, k.user))
    PROVE  Holds(e, Place(e, a), k.user)
<1> PICK lines : lines = MinConfigOf(w, k.user)
  OBVIOUS
<1>1. Old(a) # a /\ Old(a) # name
  BY FileNamesAssumption DEF Names
<1>2. /\ DOMAIN e = DOMAIN d \cup {name}
      /\ e[name] = lines /\ \A f \in DOMAIN d \ {name} : e[f] = d[f]
  BY DEF Put
<1>3. Values(Read(w, Made(w), lines).user) = Values(k.user)
  BY DEF FilesAreFaithful, RoundTrips, Values
<1>4. CASE a = name
  BY <1>2, <1>3, <1>4 DEF Holds, Place
<1>5. CASE a # name
  BY <1>1, <1>2, <1>5 DEF Holds, Place
<1> QED
  BY <1>4, <1>5

\* What an operation leaves alone: the name of the file, the values, and whether they
\* are saved.
Tracked == {"mode", "conf", "changed", "user"}
Untouched(n, m) ==
    /\ Tracked \subseteq DOMAIN n
    /\ n.conf = m.conf /\ n.changed = m.changed /\ n.user = m.user
    /\ n.mode = m.mode \/ n.mode = "raised"

\* A change of the values counts as one.
Keeps(n, m) ==
    /\ Tracked \subseteq DOMAIN n
    /\ n.conf = m.conf /\ n.mode \in {m.mode, "menu", "raised"}
    /\ n.changed = TRUE \/ (n.changed = m.changed /\ n.user = m.user)

LEMMA UntouchedIsKept == ASSUME NEW m, NEW n, Untouched(n, m) PROVE Keeps(n, m)
BY DEF Untouched, Keeps

LEMMA UntouchedTwice ==
    ASSUME NEW m, NEW k, NEW n, Untouched(k, m), Untouched(n, k) PROVE Untouched(n, m)
BY DEF Untouched

LEMMA PlacedUntouched ==
    ASSUME NEW m, Tracked \subseteq DOMAIN m, NEW shown, NEW i, NEW row
    PROVE  Untouched(Placed(m, shown, i, row), m)
BY DEF Untouched, Tracked, Placed

LEMMA DisplayUntouched ==
    ASSUME NEW m, Tracked \subseteq DOMAIN m
    PROVE  /\ Untouched(m, m) /\ Untouched(Raised(m), m) /\ Untouched(_center_vertically(m), m)
           /\ Untouched(_resize_main(m), m)
           /\ \A shown, i : Untouched(Reselected(m, shown, i), m)
<1>1. Untouched(m, m) /\ Untouched(Raised(m), m) /\ Untouched(_center_vertically(m), m)
  BY DEF Untouched, Tracked, Raised, _center_vertically
<1>2. Untouched(_resize_main(m), m)
  BY DEF Untouched, Tracked, _resize_main
<1> QED
  BY <1>1, <1>2, PlacedUntouched DEF Reselected

LEMMA MovesUntouched ==
    ASSUME NEW m, Tracked \subseteq DOMAIN m
    PROVE  /\ Untouched(_select_next_menu_entry(m), m) /\ Untouched(_select_prev_menu_entry(m), m)
           /\ Untouched(_select_last_menu_entry(m), m) /\ Untouched(_select_first_menu_entry(m), m)
           /\ Untouched(select_next_match(m), m) /\ Untouched(select_prev_match(m), m)
           /\ Untouched(select_last_match(m), m) /\ Untouched(select_first_match(m), m)
           /\ Untouched(_resize_jump_to_dialog(m), m)
BY DEF Untouched, Tracked, _select_next_menu_entry, _select_prev_menu_entry,
       _select_last_menu_entry, _select_first_menu_entry, select_next_match, select_prev_match,
       select_last_match, select_first_match, _resize_jump_to_dialog

LEMMA PagesUntouched ==
    ASSUME NEW m, Tracked \subseteq DOMAIN m
    PROVE  /\ Untouched(Page(_select_next_menu_entry, m), m)
           /\ Untouched(Page(_select_prev_menu_entry, m), m)
           /\ Untouched(Page(select_next_match, m), m) /\ Untouched(Page(select_prev_match, m), m)
<1> DEFINE Stays(k) == Untouched(k, m)
<1>1. Stays(m)
  BY DisplayUntouched
<1>2. \A k : Stays(k) => Tracked \subseteq DOMAIN k
  BY DEF Untouched
<1>3. /\ \A k : Stays(k) => Stays(_select_next_menu_entry(k))
      /\ \A k : Stays(k) => Stays(_select_prev_menu_entry(k))
  BY <1>2, MovesUntouched, UntouchedTwice
<1>4. /\ \A k : Stays(k) => Stays(select_next_match(k))
      /\ \A k : Stays(k) => Stays(select_prev_match(k))
  BY <1>2, MovesUntouched, UntouchedTwice
<1> HIDE DEF Stays
<1>5. Stays(Page(_select_next_menu_entry, m)) /\ Stays(Page(_select_prev_menu_entry, m))
  BY <1>1, <1>3 DEF Page
<1>6. Stays(Page(select_next_match, m)) /\ Stays(Page(select_prev_match, m))
  BY <1>1, <1>4 DEF Page
<1> QED
  BY <1>5, <1>6 DEF Stays
LEMMA KeptThenUntouched ==
    ASSUME NEW m, NEW k, NEW n, Keeps(k, m), Untouched(n, k) PROVE Keeps(n, m)
BY DEF Untouched, Keeps

LEMMA MenusUntouched ==
    ASSUME NEW m, Tracked \subseteq DOMAIN m
    PROVE  /\ Untouched(_select_selected_choice_sym(m), m)
           /\ \A p : Untouched(_enter_menu(m, p), m)
           /\ Untouched(_leave_menu(m), m) /\ Untouched(_toggle_show_all(m), m)
           /\ Untouched(_update_menu(m), m)
<1>1. ASSUME NEW k, Tracked \subseteq DOMAIN k PROVE Untouched(_select_selected_choice_sym(k), k)
  <2>1. Untouched(k, k)
    BY <1>1, DisplayUntouched
  <2>2. ASSUME NEW i PROVE Untouched(_center_vertically([k EXCEPT !.sel = i]), k)
    <3> PICK e : e = [k EXCEPT !.sel = i]
      OBVIOUS
    <3>1. Untouched(e, k) /\ Tracked \subseteq DOMAIN e
      BY <1>1 DEF Untouched, Tracked
    <3>2. Untouched(_center_vertically(e), e)
      BY <3>1, DisplayUntouched
    <3> QED
      BY <3>1, <3>2, UntouchedTwice
  <2> QED
    BY <2>1, <2>2 DEF _select_selected_choice_sym
<1>2. ASSUME NEW p PROVE Untouched(_enter_menu(m, p), m)
  <2> PICK in : in = [m EXCEPT !.rows = Append(@, m.sel - m.scroll), !.menu = p,
                               !.shown = ShownIn(w, m.user, m.all, p), !.sel = 0, !.scroll = 0]
    OBVIOUS
  <2>1. Untouched(m, m) /\ Untouched(in, m) /\ Tracked \subseteq DOMAIN in
    BY DisplayUntouched DEF Untouched, Tracked
  <2>2. Untouched(_select_selected_choice_sym(in), m)
    BY <1>1, <2>1, UntouchedTwice
  <2> QED
    BY <2>1, <2>2 DEF _enter_menu
<1>3. Untouched(_leave_menu(m), m)
  <2>1. PICK parent, shown, i, out :
          /\ parent = MenuOf(w, m.menu) /\ shown = ShownIn(w, m.user, m.all, parent)
          /\ i = Index(shown, m.menu)
          /\ out = [m EXCEPT !.shown = shown, !.sel = i, !.menu = parent]
    OBVIOUS
  <2>2. PICK back : back = [out EXCEPT !.rows = SubSeq(@, 1, Len(@) - 1)]
    OBVIOUS
  <2>3. Untouched(out, m) /\ Untouched(back, m)
    BY <2>1, <2>2 DEF Untouched, Tracked
  <2>4. Tracked \subseteq DOMAIN out /\ Tracked \subseteq DOMAIN back
    BY <2>3 DEF Untouched
  <2>5. Untouched(_center_vertically(out), m)
    BY <2>3, <2>4, DisplayUntouched, UntouchedTwice
  <2>6. \A row : Untouched(Placed(back, shown, i, row), m)
    BY <2>3, <2>4, PlacedUntouched, UntouchedTwice
  <2>7. Untouched(m, m) /\ Untouched(Raised(m), m)
    BY DisplayUntouched
  <2> QED
    BY <2>1, <2>2, <2>5, <2>6, <2>7 DEF _leave_menu
<1>4. Untouched(_toggle_show_all(m), m)
  <2>1. ASSUME NEW all PROVE \A shown, i, row : Untouched(Placed([m EXCEPT !.all = all], shown, i, row), m)
    <3> PICK e : e = [m EXCEPT !.all = all]
      OBVIOUS
    <3>1. Untouched(e, m) /\ Tracked \subseteq DOMAIN e
      BY DEF Untouched, Tracked
    <3>2. \A shown, i, row : Untouched(Placed(e, shown, i, row), e)
      BY <3>1, PlacedUntouched
    <3> QED
      BY <3>1, <3>2, UntouchedTwice
  <2>2. Untouched([m EXCEPT !.all = TRUE], m)
    BY DEF Untouched, Tracked
  <2> QED
    BY <2>1, <2>2 DEF _toggle_show_all
<1>5. Untouched(_update_menu(m), m)
  BY DisplayUntouched DEF _update_menu, Showing
<1> QED
  BY <1>1, <1>2, <1>3, <1>4, <1>5

LEMMA ValuesKept ==
    ASSUME NEW m, Tracked \subseteq DOMAIN m, NEW p
    PROVE  /\ \A v : Keeps(_set_val(m, p, v), m)
           /\ \A v : Keeps(_set_sel_node_tri_val(m, v), m)
           /\ Keeps(Toggled(m, p), m) /\ \A n \in _change_node(m, p) : Keeps(n, m)
<1>1. Keeps(m, m) /\ Keeps(Raised(m), m)
  BY DisplayUntouched, UntouchedIsKept
<1>2. ASSUME NEW q, NEW v PROVE Keeps(_set_val(m, q, v), m)
  <2> PICK e : e = [m EXCEPT !.user = SetIn(w, @, NameAt(q), v), !.changed = TRUE, !.done = @ + 1]
    OBVIOUS
  <2>1. Keeps(e, m) /\ Tracked \subseteq DOMAIN e
    BY DEF Keeps, Tracked
  <2>2. Keeps(_update_menu(e), m)
    BY <2>1, MenusUntouched, KeptThenUntouched
  <2> QED
    BY <1>1, <2>2 DEF _set_val
<1>3. \A v : Keeps(_set_sel_node_tri_val(m, v), m)
  BY <1>1, <1>2 DEF _set_sel_node_tri_val
<1>4. Keeps(Toggled(m, p), m)
  BY <1>1, <1>2 DEF Toggled
<1>5. ASSUME NEW n, Keeps(n, m) PROVE Keeps(_leave_menu(n), m)
  <2>1. Tracked \subseteq DOMAIN n
    BY <1>5 DEF Keeps
  <2> QED
    BY <1>5, <2>1, MenusUntouched, KeptThenUntouched
<1>6. ASSUME NEW n \in _change_node(m, p) PROVE Keeps(n, m)
  <2>1. \A k \in Entered(m, p) : Keeps(k, m)
    BY <1>2 DEF Entered
  <2>2. n = m \/ (\E k \in ({Toggled(m, p), m} \cup Entered(m, p)) : n = k \/ n = _leave_menu(k))
    BY <1>6 DEF _change_node
  <2> QED
    BY <1>1, <1>4, <1>5, <2>1, <2>2
<1> QED
  BY <1>2, <1>3, <1>4, <1>6

LEMMA JumpsUntouched ==
    ASSUME NEW m, Tracked \subseteq DOMAIN m, NEW node
    PROVE  Untouched(_jump_to(m, node), m)
<1> PICK into, menu, p, all, shown, there :
      /\ into = ((IsChoice(NodeAt(node)) \/ ItemOf(node)[1] = "menu") /\ NodeAt(node).list # <<>>)
      /\ menu = IF into THEN node ELSE MenuOf(w, node)
      /\ p = IF into THEN Children(node)[1] ELSE node
      /\ all = (m.all \/ ~Has(ShownIn(w, m.user, m.all, menu), p))
      /\ shown = ShownIn(w, m.user, all, menu)
      /\ there = [m EXCEPT !.rows = <<>>, !.menu = menu, !.all = all, !.shown = shown,
                           !.sel = Index(shown, p)]
  OBVIOUS
<1> PICK chosen : chosen = IF into /\ ~m.all /\ all THEN _toggle_show_all(there) ELSE there
  OBVIOUS
<1> PICK seen : seen = _center_vertically(chosen)
  OBVIOUS
<1>1. Untouched(there, m) /\ Tracked \subseteq DOMAIN there
  BY DEF Untouched, Tracked
<1>2. Untouched(chosen, m) /\ Tracked \subseteq DOMAIN chosen
  <2>1. Untouched(chosen, m)
    <3>1. Untouched(_toggle_show_all(there), there)
      BY <1>1, MenusUntouched
    <3> QED
      BY <1>1, <3>1, UntouchedTwice
  <2> QED
    BY <2>1 DEF Untouched
<1>3. Untouched(seen, m) /\ Tracked \subseteq DOMAIN seen
  <2>1. Untouched(seen, m)
    <3>1. Untouched(_center_vertically(chosen), chosen)
      BY <1>2, DisplayUntouched
    <3> QED
      BY <1>2, <3>1, UntouchedTwice
  <2> QED
    BY <2>1 DEF Untouched
<1>4. Untouched(_select_selected_choice_sym(seen), m)
  BY <1>3, MenusUntouched, UntouchedTwice
<1>5. Untouched(Raised(m), m)
  BY DisplayUntouched
<1>6. _jump_to(m, node) \in {Raised(m), seen, _select_selected_choice_sym(seen)}
  BY DEF _jump_to
<1> QED
  BY <1>3, <1>4, <1>5, <1>6
LEMMA LeaveJumpKeeps ==
    ASSUME NEW m, Tracked \subseteq DOMAIN m, NEW k, Untouched(k, m)
    PROVE  Keeps(LeaveJump(k), m)
<1> PICK closed : closed = [k EXCEPT !.screen = ui.jump.screen, !.jump = NoJump]
  OBVIOUS
<1> PICK open : open = [closed EXCEPT !.mode = "menu"]
  OBVIOUS
<1>1. Keeps(closed, m) /\ Keeps(open, m) /\ Tracked \subseteq DOMAIN open
  BY DEF Untouched, Keeps, Tracked
<1>2. Untouched(_resize_main(open), open)
  BY <1>1, DisplayUntouched
<1>3. Keeps(_resize_main(open), m)
  BY <1>1, <1>2, KeptThenUntouched
<1> QED
  BY <1>1, <1>3 DEF LeaveJump

\* The inductive invariant: while values may be changed, they are in the file unless
\* that is known to be open, and the name of the file is one that is entered.
KeptInv ==
    /\ Tracked \ {"user"} \subseteq DOMAIN ui
    /\ ui.mode \in {"menu", "jump"} =>
         ui.conf \in Names /\ (ui.changed \/ Holds(disk, Place(disk, ui.conf), user))
    /\ MenuLosesNothing

LEMMA KeptBecause ==
    ASSUME w' = w, Tracked \ {"user"} \subseteq DOMAIN ui',
           ui'.mode \in {"menu", "jump"} =>
             ui'.conf \in Names /\ (ui'.changed \/ Holds(disk', Place(disk', ui'.conf), user')),
           ui'.mode = "unchanged" => Holds(disk', Place(disk', ui'.conf), user'),
           ui'.mode = "saved" => Holds(disk', ui'.conf, user')
    PROVE  KeptInv'
<1>1. Values(user)' = Values(user')
  BY DEF Values, user
<1>2. \A name : ReadsAs(name, user)' <=> Holds(disk', name, user')
  BY DEF ReadsAs, Holds, Exists, Values, user
<1>3. KeptUnder(ui.conf)' = Place(disk', ui'.conf)
  BY DEF KeptUnder, Place, Exists
<1>4. Holds(disk, Place(disk, ui.conf), user)' <=> Holds(disk', Place(disk', ui'.conf), user')
  BY DEF Holds, Place, Values, user
<1> QED
  BY <1>2, <1>3, <1>4 DEF KeptInv, MenuLosesNothing, ReadsAs

LEMMA BecomeKeeps ==
    ASSUME KeptInv, ui.mode \in {"menu", "jump"}, w' = w, disk' = disk, NEW n, Keeps(n, m0),
           Become(n)
    PROVE  KeptInv'
<1>1. ui' = [f \in DOMAIN ui |-> n[f]] /\ user' = n.user
  BY DEF Become, user
<1>2. m0.mode = ui.mode /\ m0.conf = ui.conf /\ m0.changed = ui.changed /\ m0.user = user
  BY DEF m0, KeptInv, Tracked
<1>3. /\ Tracked \ {"user"} \subseteq DOMAIN ui'
      /\ ui'.mode = n.mode /\ ui'.conf = n.conf /\ ui'.changed = n.changed
  BY <1>1 DEF KeptInv, Tracked
<1>4. ui'.mode \in {"menu", "jump", "raised"} /\ ui'.conf \in Names
  BY <1>2, <1>3 DEF Keeps, KeptInv
<1>5. ui'.changed \/ Holds(disk', Place(disk', ui'.conf), user')
  BY <1>1, <1>2, <1>3 DEF Keeps, KeptInv
<1> QED
  BY <1>3, <1>4, <1>5, KeptBecause

LEMMA MenuKeysKeep ==
    ASSUME KeptInv,
           \/ MoveKey \/ SpaceKey \/ ReturnKey \/ TriKey \/ LeaveKey
           \/ ShowAllKey \/ ShowHelpKey \/ ResizeKey
    PROVE  KeptInv'
<1>1. ui.mode \in {"menu", "jump"} /\ w' = w /\ disk' = disk
  BY DEF MoveKey, SpaceKey, ReturnKey, TriKey, LeaveKey, ShowAllKey, ShowHelpKey, ResizeKey, In
<1>2. Tracked \subseteq DOMAIN m0
  BY DEF m0, KeptInv, Tracked
<1>3. ASSUME NEW n, Keeps(n, m0), Become(n) PROVE KeptInv'
  BY <1>1, <1>3, BecomeKeeps
<1>4. ASSUME NEW n, Untouched(n, m0), Become(n) PROVE KeptInv'
  BY <1>3, <1>4, UntouchedIsKept
<1>5. \A p : \A n \in _change_node(m0, p) : Keeps(n, m0)
  BY <1>2, ValuesKept
<1>6. CASE MoveKey
  <2>1. PICK n : /\ Become(n)
                 /\ \/ n = _select_next_menu_entry(m0) \/ n = _select_prev_menu_entry(m0)
                    \/ n = Page(_select_next_menu_entry, m0) \/ n = Page(_select_prev_menu_entry, m0)
                    \/ n = _select_last_menu_entry(m0) \/ n = _select_first_menu_entry(m0)
    BY <1>6 DEF MoveKey
  <2> QED
    BY <1>2, <1>4, <2>1, MovesUntouched, PagesUntouched
<1>7. CASE SpaceKey \/ ReturnKey
  <2> PICK p : p = Selected_(ui)
    OBVIOUS
  <2>1. (\E m \in _change_node(m0, p) : Become(m)) \/ Become(_enter_menu(m0, p))
    BY <1>7 DEF SpaceKey, ReturnKey
  <2> QED
    BY <1>2, <1>3, <1>4, <1>5, <2>1, MenusUntouched
<1>8. CASE TriKey
  <2>1. PICK v \in {0, 1, 2} : Become(_set_sel_node_tri_val(m0, v))
    BY <1>8 DEF TriKey
  <2> QED
    BY <1>2, <1>3, <2>1, ValuesKept
<1>9. CASE LeaveKey \/ ShowAllKey
  BY <1>2, <1>4, <1>9, MenusUntouched DEF LeaveKey, ShowAllKey
<1>10. CASE ShowHelpKey \/ ResizeKey
  <2>1. PICK k : /\ Become(_resize_main(k))
                 /\ \/ k = [m0 EXCEPT !.help = ~@, !.done = @ + 1]
                    \/ \E screen \in Screens : k = [m0 EXCEPT !.screen = screen, !.done = @ + 1]
    BY <1>10 DEF ShowHelpKey, ResizeKey
  <2>2. Untouched(k, m0) /\ Tracked \subseteq DOMAIN k
    BY <1>2, <2>1 DEF Untouched, Tracked
  <2>3. Untouched(_resize_main(k), k)
    BY <2>2, DisplayUntouched
  <2> QED
    BY <1>4, <2>1, <2>2, <2>3, UntouchedTwice
<1> QED
  BY <1>6, <1>7, <1>8, <1>9, <1>10

LEMMA JumpKeysKeep ==
    ASSUME KeptInv,
           JumpDialog \/ JumpMove \/ JumpSearch \/ JumpResize \/ JumpTo \/ JumpCancel
    PROVE  KeptInv'
<1>1. ui.mode \in {"menu", "jump"} /\ w' = w /\ disk' = disk
  BY DEF JumpDialog, JumpMove, JumpSearch, JumpResize, JumpTo, JumpCancel, In, storeVars
<1>2. Tracked \subseteq DOMAIN m0
  BY DEF m0, KeptInv, Tracked
<1>3. ASSUME NEW n, Untouched(n, m0), Become(n) PROVE KeptInv'
  BY <1>1, <1>3, BecomeKeeps, UntouchedIsKept
<1>4. CASE JumpDialog \/ JumpSearch
  <2>1. user' = user
    BY <1>4 DEF JumpDialog, JumpSearch, storeVars, user
  <2>2. /\ DOMAIN ui' = DOMAIN ui /\ ui'.mode = "jump"
        /\ ui'.conf = ui.conf /\ ui'.changed = ui.changed
    BY <1>4 DEF JumpDialog, JumpSearch, KeptInv, Tracked, In
  <2> QED
    BY <1>1, <2>1, <2>2, KeptBecause DEF KeptInv
<1>5. CASE JumpMove
  <2>1. PICK n : /\ Become(n)
                 /\ \/ n = select_next_match(m0) \/ n = select_prev_match(m0)
                    \/ n = Page(select_next_match, m0) \/ n = Page(select_prev_match, m0)
                    \/ n = select_last_match(m0) \/ n = select_first_match(m0)
    BY <1>5 DEF JumpMove
  <2> QED
    BY <1>2, <1>3, <2>1, MovesUntouched, PagesUntouched
<1>6. CASE JumpResize
  <2>1. PICK screen, k : k = [m0 EXCEPT !.jump.screen = screen] /\ Become(_resize_jump_to_dialog(k))
    BY <1>6 DEF JumpResize
  <2>2. Untouched(k, m0) /\ Tracked \subseteq DOMAIN k
    BY <1>2, <2>1 DEF Untouched, Tracked
  <2>3. Untouched(_resize_jump_to_dialog(k), k)
    BY <2>2, MovesUntouched
  <2> QED
    BY <1>3, <2>1, <2>2, <2>3, UntouchedTwice
<1>7. CASE JumpTo \/ JumpCancel
  <2>1. PICK k : Become(LeaveJump(k)) /\ (k = m0 \/ \E node : k = _jump_to(m0, node))
    BY <1>7 DEF JumpTo, JumpCancel
  <2>2. Untouched(k, m0)
    BY <1>2, <2>1, DisplayUntouched, JumpsUntouched
  <2> QED
    BY <1>1, <1>2, <2>1, <2>2, LeaveJumpKeeps, BecomeKeeps
<1> QED
  BY <1>4, <1>5, <1>6, <1>7
\* What is loaded is in its file, if it is told from a change of the file.
LEMMA LoadKeeps ==
    ASSUME NEW K, NEW L, FilesAreFaithful(w, K, L), kconf \in K, \A name \in DOMAIN disk : disk[name] \in L,
           KeptInv, _load_dialog
    PROVE  KeptInv'
<1>1. In("menu") /\ w' = w /\ disk' = disk
  BY DEF _load_dialog
<1>2. PICK name, object, n :
        /\ name \in FileNames \cap DOMAIN disk /\ object = Read(w, kconf, disk[name])
        /\ n = AfterLoad(object, name) /\ ui' = [f \in DOMAIN ui |-> n[f]] /\ kconf' = object
  BY DEF _load_dialog
<1>3. Tracked \subseteq DOMAIN m0 /\ m0.mode = "menu"
  BY <1>1 DEF m0, KeptInv, Tracked, In
<1>4. PICK e : /\ Tracked \subseteq DOMAIN e /\ n = _update_menu(e)
               /\ e.user = object.user /\ e.conf = name /\ e.mode = "menu"
               /\ e.changed = Unsaved(w, object)
  <2>1. PICK m : m = [m0 EXCEPT !.user = object.user, !.conf = name, !.done = @ + 1,
                                !.changed = Unsaved(w, object)]
    OBVIOUS
  <2>2. PICK all : all = (ui.all \/ ~Has(Shown(m), Selected_(ui)))
    OBVIOUS
  <2>3. n = _update_menu([m EXCEPT !.all = all])
    BY <1>2, <2>1, <2>2 DEF AfterLoad
  <2>4. /\ Tracked \subseteq DOMAIN m /\ m.user = object.user /\ m.conf = name
        /\ m.mode = "menu" /\ m.changed = Unsaved(w, object)
    BY <1>3, <2>1 DEF Tracked
  <2>5. PICK k : k = [m EXCEPT !.all = all]
    OBVIOUS
  <2>6. /\ Tracked \subseteq DOMAIN k /\ k.user = object.user /\ k.conf = name
        /\ k.mode = "menu" /\ k.changed = Unsaved(w, object)
    BY <2>4, <2>5 DEF Tracked
  <2> QED
    BY <2>3, <2>5, <2>6
<1>5. Untouched(n, e)
  BY <1>4, MenusUntouched
<1>6. /\ Tracked \ {"user"} \subseteq DOMAIN ui' /\ ui'.mode \in {"menu", "raised"}
      /\ ui'.conf = name /\ ui'.changed = Unsaved(w, object) /\ user' = object.user
  BY <1>2, <1>4, <1>5 DEF Untouched, KeptInv, Tracked, user
<1>7. ~Unsaved(w, object) => Holds(disk, name, object.user)
  BY <1>2 DEF FilesAreFaithful, Holds, Values
<1>8. Place(disk, name) = name /\ name \in Names
  BY <1>2 DEF Place, Names
<1> QED
  BY <1>1, <1>6, <1>7, <1>8, KeptBecause

LEMMA StartKeeps == ASSUME MenuStart PROVE KeptInv'
<1>1. PICK object, k :
        /\ object = Loaded(Made(w), ".config") /\ kconf' = object /\ ui' = _resize_main(k)
        /\ Tracked \ {"user"} \subseteq DOMAIN k
        /\ k.mode = "menu" /\ k.conf = ".config" /\ k.changed = Outdated(".config", object)
  <2>2. PICK object, screen, all :
          /\ object \in {Loaded(Made(w), ".config")} /\ kconf' = object
          /\ ui' = _resize_main([Closed("menu") EXCEPT
                      !.shown = ShownIn(w, object.user, all, Top), !.all = all,
                      !.screen = screen, !.changed = Outdated(".config", object)])
    BY ZenonT(30), StartFacts
  <2>3. PICK k : k = [Closed("menu") EXCEPT
                      !.shown = ShownIn(w, object.user, all, Top), !.all = all,
                      !.screen = screen, !.changed = Outdated(".config", object)]
    OBVIOUS
  <2>4. /\ Tracked \ {"user"} \subseteq DOMAIN k
        /\ k.mode = "menu" /\ k.conf = ".config" /\ k.changed = Outdated(".config", object)
    BY <2>3 DEF Closed, Tracked
  <2>5. object = Loaded(Made(w), ".config") /\ ui' = _resize_main(k)
    BY Zenon, <2>2, <2>3
  <2> QED
    BY Zenon, <2>2, <2>4, <2>5
<1>2. w' = w /\ disk' = disk /\ user' = object.user
  BY <1>1, StartFacts DEF user
<1>3. PICK name : name = ".config"
  OBVIOUS
<1>4. /\ Tracked \ {"user"} \subseteq DOMAIN ui'
      /\ ui'.mode = "menu" /\ ui'.conf = name /\ ui'.changed = Outdated(name, object)
  BY <1>1, <1>3 DEF _resize_main, Tracked
<1>5. ~Outdated(name, object) => Holds(disk, Place(disk, name), object.user)
  BY <1>1, <1>3 DEF Outdated, Exists, Loaded, Holds, Place
<1>6. name \in Names
  BY <1>3 DEF Names
<1> QED
  BY <1>2, <1>4, <1>5, <1>6, KeptBecause

LEMMA FileKeysKeep ==
    ASSUME NEW K, NEW L, FilesAreFaithful(w, K, L), kconf \in K, KeptInv,
           SaveKey \/ SaveMinimalKey \/ _quit_dialog \/ UNCHANGED <<storeVars, ui>>
    PROVE  KeptInv'
<1>1. w' = w /\ user' = user /\ kconf.user = user
  BY DEF SaveKey, SaveMinimalKey, _quit_dialog, storeVars, user
<1>2. CASE SaveKey
  <2>1. PICK name \in FileNames, lines \in {ConfigOf(w, user)} :
          \/ /\ disk' = Saved(disk, name, lines)
             /\ ui' = [ui EXCEPT !.conf = name, !.changed = FALSE, !.done = @ + 1]
          \/ /\ disk' = SaveFailed(disk, name, lines)
             /\ ui' = [ui EXCEPT !.done = @ + 1]
    BY <1>2 DEF SaveKey
  <2>2. name \in Names /\ ui.mode = "menu"
    BY <1>2 DEF Names, SaveKey, In
  <2>3. CASE /\ disk' = Saved(disk, name, lines)
             /\ ui' = [ui EXCEPT !.conf = name, !.changed = FALSE, !.done = @ + 1]
    <3>1. Holds(disk', name, user)
      BY <1>1, <2>1, <2>3, SavedHolds
    <3>2. Place(disk', name) = name
      BY <3>1 DEF Place, Holds
    <3>3. /\ Tracked \ {"user"} \subseteq DOMAIN ui'
          /\ ui'.mode = "menu" /\ ui'.conf = name
      BY <2>2, <2>3 DEF KeptInv, Tracked
    <3> QED
      BY <1>1, <2>2, <3>1, <3>2, <3>3, KeptBecause
  <2>4. CASE disk' = SaveFailed(disk, name, lines) /\ ui' = [ui EXCEPT !.done = @ + 1]
    <3>1. /\ Tracked \ {"user"} \subseteq DOMAIN ui'
          /\ ui'.mode = "menu" /\ ui'.conf = ui.conf /\ ui'.changed = ui.changed
      BY <2>2, <2>4 DEF KeptInv, Tracked
    <3>2. ui.conf \in Names /\ (ui.changed \/ Holds(disk, Place(disk, ui.conf), user))
      BY <2>2 DEF KeptInv
    <3>3. ui.changed \/ Holds(disk', Place(disk', ui.conf), user)
      BY <2>2, <2>4, <3>2, FailedHolds
    <3> QED
      BY <1>1, <3>1, <3>2, <3>3, KeptBecause
  <2> QED
    BY <2>1, <2>3, <2>4
<1>3. CASE SaveMinimalKey
  <2>1. PICK name \in FileNames :
          /\ disk' = Put(disk, name, MinConfigOf(w, user))
          /\ ui' = [ui EXCEPT !.minconf = name, !.done = @ + 1]
    BY <1>3 DEF SaveMinimalKey
  <2>2. name \in Names /\ ui.mode = "menu"
    BY <1>3 DEF Names, SaveMinimalKey, In
  <2>3. /\ Tracked \ {"user"} \subseteq DOMAIN ui'
        /\ ui'.mode = "menu" /\ ui'.conf = ui.conf /\ ui'.changed = ui.changed
    BY <2>1, <2>2 DEF KeptInv, Tracked
  <2>4. ui.conf \in Names /\ (ui.changed \/ Holds(disk, Place(disk, ui.conf), user))
    BY <2>2 DEF KeptInv
  <2>5. ui.changed \/ Holds(disk', Place(disk', ui.conf), user)
    BY <1>1, <2>1, <2>2, <2>4, MinimalHolds
  <2> QED
    BY <1>1, <2>3, <2>4, <2>5, KeptBecause
<1>4. CASE _quit_dialog
  <2>1. PICK lines : lines = ConfigOf(w, user)
    OBVIOUS
  <2>2. /\ ui.mode = "menu" /\ ui.conf \in Names
        /\ ui.changed \/ Holds(disk, Place(disk, ui.conf), user)
    BY <1>4 DEF KeptInv, _quit_dialog, In
  <2>3. \/ ~ui.changed /\ disk' = disk /\ ui' = [Closed("unchanged") EXCEPT !.conf = ui.conf]
        \/ ui' = [Closed("not saved") EXCEPT !.conf = ui.conf]
        \/ /\ ui' = [Closed("saved") EXCEPT !.conf = ui.conf]
           /\ disk' = Saved(disk, ui.conf, lines)
        \/ /\ ui' = [ui EXCEPT !.done = @ + 1]
           /\ disk' = SaveFailed(disk, ui.conf, lines)
    BY <1>4, <2>1 DEF _quit_dialog
  <2>4. ASSUME NEW mode, ui' = [Closed(mode) EXCEPT !.conf = ui.conf]
        PROVE  Tracked \ {"user"} \subseteq DOMAIN ui' /\ ui'.mode = mode /\ ui'.conf = ui.conf
    BY <2>4 DEF Closed, Tracked
  <2>5. CASE ~ui.changed /\ disk' = disk /\ ui' = [Closed("unchanged") EXCEPT !.conf = ui.conf]
    BY <1>1, <2>2, <2>4, <2>5, KeptBecause
  <2>6. CASE ui' = [Closed("not saved") EXCEPT !.conf = ui.conf]
    <3>1. Tracked \ {"user"} \subseteq DOMAIN ui' /\ ui'.mode = "not saved"
      BY <2>4, <2>6
    <3>2. ui'.mode \notin {"menu", "jump", "unchanged", "saved"}
      BY <3>1
    <3> QED
      BY <1>1, <3>1, <3>2, KeptBecause
  <2>7. CASE /\ ui' = [Closed("saved") EXCEPT !.conf = ui.conf]
             /\ disk' = Saved(disk, ui.conf, lines)
    <3>1. Holds(disk', ui.conf, user)
      BY <1>1, <2>1, <2>7, SavedHolds
    <3> QED
      BY <1>1, <2>4, <2>7, <3>1, KeptBecause
  <2>8. CASE ui' = [ui EXCEPT !.done = @ + 1] /\ disk' = SaveFailed(disk, ui.conf, lines)
    <3>1. /\ Tracked \ {"user"} \subseteq DOMAIN ui'
          /\ ui'.mode = "menu" /\ ui'.conf = ui.conf /\ ui'.changed = ui.changed
      BY <2>2, <2>8 DEF KeptInv, Tracked
    <3>2. ui.changed \/ Holds(disk', Place(disk', ui.conf), user)
      BY <2>2, <2>8, FailedHolds
    <3> QED
      BY <1>1, <2>2, <3>1, <3>2, KeptBecause
  <2> QED
    BY <2>3, <2>5, <2>6, <2>7, <2>8
<1>5. CASE UNCHANGED <<storeVars, ui>>
  BY <1>5, KeptBecause DEF KeptInv, MenuLosesNothing, ReadsAs, KeptUnder, Holds, Place, Exists,
                           storeVars, user
<1> QED
  BY <1>2, <1>3, <1>4, <1>5

\* In any session, for any files and whatever kconfiglib computes: when the menu is left
\* without a question, the values are in the file that was loaded or saved last, or in
\* the old one under its name; when it saves them on the way out, they are in the file
\* itself.  K has the Kconfig objects that occur, L the contents of files.  That a
\* written file reads as the values it was written for, and that loading a file which
\* says something else is told, is FilesAreFaithful.
THEOREM TheMenuLosesNothing ==
    ASSUME NEW CONSTANT K, NEW CONSTANT L
    PROVE  MenuSpec /\ [](kconf \in K /\ (\A name \in DOMAIN disk : disk[name] \in L)
                          /\ FilesAreFaithful(w, K, L)) => []MenuLosesNothing
<1> DEFINE Files == kconf \in K /\ (\A name \in DOMAIN disk : disk[name] \in L)
                    /\ FilesAreFaithful(w, K, L)
<1>1. ui = Closed("start") => KeptInv
  BY DEF Closed, KeptInv, Tracked, MenuLosesNothing
<1>2. Files /\ KeptInv /\ [MenuNext]_<<storeVars, ui>> => KeptInv'
  <2> SUFFICES ASSUME Files, KeptInv, [MenuNext]_<<storeVars, ui>> PROVE KeptInv'
    OBVIOUS
  <2>1. CASE \/ MoveKey \/ SpaceKey \/ ReturnKey \/ TriKey \/ LeaveKey
             \/ ShowAllKey \/ ShowHelpKey \/ ResizeKey
    BY <2>1, MenuKeysKeep
  <2>2. CASE JumpDialog \/ JumpMove \/ JumpSearch \/ JumpResize \/ JumpTo \/ JumpCancel
    BY <2>2, JumpKeysKeep
  <2>3. CASE _load_dialog
    BY <2>3, LoadKeeps
  <2>4. CASE SaveKey \/ SaveMinimalKey \/ _quit_dialog \/ UNCHANGED <<storeVars, ui>>
    BY <2>4, FileKeysKeep
  <2>5. CASE MenuStart
    BY <2>5, StartKeeps
  <2> QED
    BY <2>1, <2>2, <2>3, <2>4, <2>5 DEF MenuNext
<1>3. KeptInv => MenuLosesNothing
  BY DEF KeptInv
<1> QED
  BY <1>1, <1>2, <1>3, PTL DEF MenuSpec
=============================================================================
