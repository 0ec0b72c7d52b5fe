------------------------------ MODULE MCKconfig ------------------------------
(***************************************************************************)
(* The instance of Kconfig that is checked: every text that TLC starts     *)
(* from is parsed, searched for loops and, if it is accepted and can be    *)
(* evaluated, used.                                                        *)
(***************************************************************************)
EXTENDS Kconfig, KFiles

MCTexts == {"select", "choice", "numbers", "menus", "select_loop", "choice_loop", "self", "endless",
            "imply", "offers", "nested", "siblings", "modules"}
MCWorlds == LET made == [t \in MCTexts |-> World(t)] IN made
MCEnvironment == [x \in {} |-> ""]
MCWords == <<"x", "z">>

\* The user values after up to two assignments.
MCUsers(x) ==
    LET after(users) == users \cup UNION {EditedUsers(x, u) : u \in users}
    IN  after(after({NoUser(x)}))

\* No file is left unused that could be evaluated.
ASSUME SearchedOnlyRecurse ==
    \A t \in SearchedOnly : t \in MCTexts /\ ~EvaluationEndsIn(World(t))

\* The hypothesis of EveryChangeIsMade, which compares the values of two builds.
ASSUME ComparisonWorks ==
    LET x == World("files")
    IN  ChangesAreTouched(x, MCUsers(x), Seen, OldValsContents, ToTouch)
=============================================================================
