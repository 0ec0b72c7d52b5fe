-------------------------------- MODULE Plugin --------------------------------
(***************************************************************************)
(* The entry points of the plugin, metamod_plugin/src/root_.cxx, over the  *)
(* core of module Core.  The engine and Metamod call them one at a time,   *)
(* in any order, and each answers Metamod yes or no.  What they hand over  *)
(* is kept in core_.api for the modules: the tables of the engine, which   *)
(* stay, and those of Metamod and of the game, which go with Meta_Detach.  *)
(* Only Meta_Attach and Meta_Detach load and unload the core here.         *)
(*                                                                         *)
(* A call with a null pointer, or with another version of the interface,   *)
(* answers no and changes nothing; such calls are left out.                *)
(*                                                                         *)
(* A definition marked as a slip is a plausible mistake in the definition  *)
(* after it.  No action uses it: it replaces that definition when the      *)
(* properties are tested for being able to fail.                           *)
(***************************************************************************)
EXTENDS Core

VARIABLES
    engine,     \* api.engine.globals is set, and its functions with it
    utilities,  \* api.meta.functions is set
    globals,    \* api.meta.globals is set
    game,       \* api.game.functions is set
    entry,      \* the entry point that is running
    threw,      \* the call of load or unload it made has ended by an exception
    answer      \* which entry point has answered last, and what

api == <<engine, utilities, globals, game>>
pvars == <<api, entry, threw, answer>>
allVars == <<vars, pvars>>

PInit ==
    /\ Init
    /\ engine = FALSE
    /\ utilities = FALSE
    /\ globals = FALSE
    /\ game = FALSE
    /\ entry = "none"
    /\ threw = FALSE
    /\ answer = "none"

Idle == entry = "none" /\ ~Within

----------------------------------------------------------------------------
(* GiveFnptrsToDll and Meta_Query.                                          *)

GiveFnptrsToDll ==
    /\ Idle
    /\ engine' = TRUE
    /\ UNCHANGED <<vars, utilities, globals, game, entry, threw, answer>>

Query ==
    /\ Idle
    /\ engine
    /\ utilities' = TRUE
    /\ UNCHANGED <<vars, engine, globals, game, entry, threw, answer>>

----------------------------------------------------------------------------
(* Meta_Attach and Meta_Detach.                                             *)

\* The tables are kept before the core is loaded, and also when it refuses.
Attach ==
    /\ Idle
    /\ engine
    /\ globals' = TRUE
    /\ game' = TRUE
    /\ entry' = "attach"
    /\ IF bad \/ container THEN threw' = TRUE /\ UNCHANGED vars
                           ELSE Load /\ UNCHANGED threw
    /\ UNCHANGED <<engine, utilities, answer>>

AttachReturns ==
    /\ entry = "attach"
    /\ ~Within
    /\ entry' = "none"
    /\ threw' = FALSE
    /\ answer' = IF threw THEN "not attached" ELSE "attached"
    /\ UNCHANGED <<vars, api>>

Detach ==
    /\ Idle
    /\ entry' = "detach"
    /\ IF container THEN Unload /\ UNCHANGED threw
                    ELSE threw' = TRUE /\ UNCHANGED vars
    /\ UNCHANGED <<api, answer>>

\* Slip: the tables are kept when unload throws.
DetachKeepsTables ==
    /\ entry = "detach"
    /\ ~Within
    /\ globals' = (globals /\ threw)
    /\ game' = (game /\ threw)
    /\ entry' = "none"
    /\ threw' = FALSE
    /\ answer' = IF threw THEN "not detached" ELSE "detached"
    /\ UNCHANGED <<vars, engine, utilities>>

\* The tables go, whether unload has returned or thrown.
DetachReturns ==
    /\ entry = "detach"
    /\ ~Within
    /\ globals' = FALSE
    /\ game' = FALSE
    /\ entry' = "none"
    /\ threw' = FALSE
    /\ answer' = IF threw THEN "not detached" ELSE "detached"
    /\ UNCHANGED <<vars, engine, utilities>>

----------------------------------------------------------------------------
(* The core.  Load throws when it comes down again; unload when one of the  *)
(* unloaders did.                                                           *)

CallEnds ==
    /\ LoadSucceeds \/ TeardownEnds
    /\ threw' = (Here.at = "teardown" /\ (Here.op = "load" \/ Here.failed))
    /\ UNCHANGED <<api, entry, answer>>

\* The code of the core, and the code of the modules that it calls.
PLibrary ==
    /\ CallLoader \/ LoadFails \/ StopTask \/ AllStopped \/ CallUnloader \/ TearDown
    /\ UNCHANGED pvars

PCallback ==
    /\ \/ \E o \in Outcomes : LoaderReturns(o)
       \/ UnwindingEnds
       \/ \E throws \in BOOLEAN : UnloaderReturns(throws)
    /\ UNCHANGED pvars

CoreRuns ==
    /\ \/ Inject \/ Invalidate
       \/ CallLoader \/ LoadFails \/ StopTask \/ AllStopped
       \/ CallUnloader \/ TearDown
       \/ \E o \in Outcomes : LoaderReturns(o)
       \/ UnwindingEnds
       \/ \E throws \in BOOLEAN : UnloaderReturns(throws)
       \/ Completion
    /\ UNCHANGED pvars

PNext ==
    \/ GiveFnptrsToDll \/ Query
    \/ Attach \/ AttachReturns
    \/ Detach \/ DetachReturns
    \/ CallEnds \/ CoreRuns

PSpec == PInit /\ [][PNext]_allVars

(* As for the core: its own code runs on, and the code it calls returns.    *)
PFairSpec ==
    PSpec /\ WF_allVars(PLibrary) /\ WF_allVars(PCallback) /\ WF_allVars(CallEnds)

----------------------------------------------------------------------------
(* Properties.                                                              *)

\* Types of the tables and of the entry points.
PTypeOK ==
    /\ TypeOK
    /\ engine \in BOOLEAN
    /\ utilities \in BOOLEAN
    /\ globals \in BOOLEAN
    /\ game \in BOOLEAN
    /\ entry \in {"none", "attach", "detach"}
    /\ threw \in BOOLEAN
    /\ answer \in {"none", "attached", "not attached", "detached", "not detached"}

\* While the core is up, and while it comes up and goes down, its modules find
\* the tables of the engine, of the game and of Metamod.
TablesServeCore == container \/ Within => engine /\ globals /\ game

\* What Meta_Attach and Meta_Detach answered stays true until the next call:
\* attached means that the core is up with all the modules; after Meta_Detach,
\* whatever it has answered, the core is down and no table is kept.
AnswersHold ==
    entry = "none" =>
        /\ answer = "attached" =>
             /\ container
             /\ Len(loaded) = injected
        /\ answer \in {"detached", "not detached"} =>
             ~container /\ ~globals /\ ~game

\* Metamod and the modules are never told what is not so: the tables are there
\* whenever a module may use them, and the last answer is still true.
EntryPointsAreTrue == TablesServeCore /\ AnswersHold
=============================================================================
