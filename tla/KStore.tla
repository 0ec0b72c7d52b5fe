-------------------------------- MODULE KStore -------------------------------
(***************************************************************************)
(* What the tools share: the Kconfig object they work on, and the files of *)
(* the directory they are called in.  What kconfiglib.py computes from a   *)
(* file or writes into one are parameters here; they are defined in KFiles *)
(* and given by the instance.                                              *)
(***************************************************************************)
EXTENDS KWorld

CONSTANTS
    Old(_),             \* the name that a file is kept under: OldName of KFiles
    Made(_),            \* a new object: NewObject
    Read(_, _, _),      \* load_config: LoadReplacing
    ConfigOf(_, _),     \* the lines of .config: ConfigContents
    ValuesIn(_, _)      \* the values of all symbols: ValuesOf

VARIABLES
    kconf,              \* the user values, and the assignments to missing symbols
    disk                \* the files that exist, with their lines

storeVars == <<w, kconf, disk>>

user == kconf.user
Exists(name) == name \in DOMAIN disk
Values(u) == ValuesIn(w, u)

\* load_config: the default configuration if there is no file, none if there is
\* no default either.  No symbol of the instances is a defconfig_list.
Loaded(object, name) == IF Exists(name) THEN Read(w, object, disk[name]) ELSE object

Put(d, name, lines) == [f \in DOMAIN d \cup {name} |-> IF f = name THEN lines ELSE d[f]]

\* Slip: a file that is there is taken for unchanged.
SomeContents(d, name, lines) == name \in DOMAIN d

\* An unchanged file is left alone.
_contents_eq(d, name, lines) == name \in DOMAIN d /\ d[name] = lines

\* Slip: the old file is not kept.
SaveOldForgotten(d, name) == d

\* _save_old: the file that is about to be replaced is renamed.
SaveOld(d, name) ==
    IF name \notin DOMAIN d THEN d
    ELSE [f \in (DOMAIN d \cup {Old(name)}) \ {name} |-> IF f = Old(name) THEN d[name] ELSE d[f]]

\* write_config with nobody interrupting it.
Saved(d, name, lines) ==
    IF _contents_eq(d, name, lines) THEN d ELSE Put(SaveOld(d, name), name, lines)

\* write_config when the new file cannot be opened: the old one is renamed already.
SaveFailed(d, name, lines) ==
    IF _contents_eq(d, name, lines) THEN d ELSE SaveOld(d, name)

\* Where a program leaves the configuration that it takes for saved under this name:
\* there, or in the old file if saving failed after the renaming.
KeptUnder(name) == IF Exists(name) THEN name ELSE Old(name)

\* A file holds these user values, when a new object reads it.
ReadsAs(name, u) == Exists(name) /\ Values(Read(w, Made(w), disk[name]).user) = Values(u)
=============================================================================
