------------------------------- MODULE KUtility ------------------------------
(***************************************************************************)
(* utils/kconfig.py, which calls one of the tools and exports the values   *)
(* as JSON; setconfig.py called by hand; and a build that follows the      *)
(* recipe of sync_deps.  Any of them may be killed between two steps, or   *)
(* in the middle of writing a file, which then holds a part of its lines.  *)
(*                                                                         *)
(* The tools with an interface are modelled in KMenu and KGui.  Here they  *)
(* are any assignments, followed by a save or not.                         *)
(***************************************************************************)
EXTENDS KStore

CONSTANTS           \* what kconfiglib.py and setconfig.py compute, in KFiles:
    Edits(_, _),        \* the user values after an assignment: EditedUsers
    SetBy(_, _, _),     \* those after a list of them, if it is accepted: Apply
    JsonOf(_, _),       \* of the JSON file: JsonLines
    HeaderOf(_, _),     \* of autoconf.h: AutoconfContents
    AutoOf(_, _),       \* of auto.conf: OldValsContents
    SeenOf(_, _),       \* what source files see of the symbols: Seen
    TouchedOf(_, _, _)  \* the symbols that differ from auto.conf: ToTouch

CONSTANTS
    MaxRuns,            \* bound: how often a program is started
    MaxCrashes,         \* bound: how often one is killed
    Arguments           \* the lists of assignments that setconfig is called with

VARIABLES
    proc,               \* the program that runs
    build               \* what the object files were made from

utilityVars == <<proc, build>>

Config == ".config"
Json == ".config.json"
AutoConf == "auto.conf"
Header == "autoconf.h"

ASSUME OldAssumption == Old(Config) \notin {Config, Json, AutoConf, Header}

Idle == [pc |-> "idle", file |-> "", lines |-> <<>>, then |-> "", edited |-> FALSE,
         seen |-> <<>>, previous |-> <<>>]

WholeJson(lines) == lines # <<>> /\ lines[Len(lines)] = <<"}">>

At_(pc) == proc.pc = pc
Goto(pc) == proc' = [proc EXCEPT !.pc = pc]
Started == build' = [build EXCEPT !.runs = @ + 1]

\* A file is opened for writing, which empties it.  It is complete when it is
\* closed, and until then a part of it may be there.
OpenFor(d, name, lines, then) ==
    /\ disk' = Put(d, name, <<>>)
    /\ proc' = [proc EXCEPT !.pc = "writing", !.file = name, !.lines = lines, !.then = then]

\* _write_if_changed.
WriteIfChanged(name, contents, then) ==
    \E lines \in {contents} :
      IF _contents_eq(disk, name, lines) THEN Goto(then) /\ UNCHANGED disk
      ELSE OpenFor(disk, name, lines, then)

Close ==
    /\ At_("writing")
    /\ disk' = Put(disk, proc.file, proc.lines)
    /\ proc' = IF proc.then = "idle" THEN Idle
               ELSE [proc EXCEPT !.pc = proc.then, !.file = "", !.lines = <<>>]
    /\ build' = IF proc.file = Config THEN [build EXCEPT !.kept = proc.lines] ELSE build
    /\ UNCHANGED <<w, kconf>>

----------------------------------------------------------------------------
(* The utility.                                                             *)

\* JSON that cannot be read is an error, and nothing is done.
StartUtility ==
    /\ At_("idle") /\ build.runs < MaxRuns
    /\ Exists(Json) => WholeJson(disk[Json])
    /\ kconf' = Loaded(Made(w), Config)
    /\ proc' = [Idle EXCEPT !.pc = "tool", !.previous = IF Exists(Json) THEN disk[Json] ELSE <<>>]
    /\ Started
    /\ UNCHANGED <<w, disk>>

Edit ==
    /\ At_("tool") /\ ~proc.edited
    /\ \E u \in Edits(w, user) : kconf' = [kconf EXCEPT !.user = u]
    /\ proc' = [proc EXCEPT !.edited = TRUE]
    /\ UNCHANGED <<w, disk, build>>

\* The tool must leave a .config behind.
QuitTool ==
    /\ At_("tool")
    /\ proc' = IF Exists(Config) THEN [proc EXCEPT !.pc = "export"] ELSE Idle
    /\ UNCHANGED <<w, kconf, disk, build>>

\* write_config, up to the point where the file is opened.
WriteConfig(u, then) ==
    \E lines \in {ConfigOf(w, u)} :
      IF _contents_eq(disk, Config, lines)
      THEN /\ proc' = [proc EXCEPT !.pc = then, !.seen = Values(u)]
           /\ build' = [build EXCEPT !.kept = lines]
           /\ UNCHANGED disk
      ELSE /\ disk' = SaveOld(disk, Config)
           /\ proc' = [proc EXCEPT !.pc = "open", !.lines = lines, !.then = then, !.seen = Values(u)]
           /\ UNCHANGED build

Save ==
    /\ At_("tool")
    /\ WriteConfig(user, "export")
    /\ UNCHANGED <<w, kconf>>

OpenConfig ==
    /\ At_("open")
    /\ OpenFor(disk, Config, proc.lines, proc.then)
    /\ UNCHANGED <<w, kconf, build>>

\* The object of the utility itself loads what the tool has left, and the values
\* are exported unless they are the ones of the last time.
Export ==
    /\ At_("export")
    /\ kconf' = Read(w, Made(w), disk[Config])
    /\ \E lines \in {JsonOf(w, kconf'.user)} :
         IF lines = proc.previous THEN proc' = Idle /\ UNCHANGED disk
         ELSE OpenFor(disk, Json, lines, "idle")
    /\ UNCHANGED <<w, build>>

----------------------------------------------------------------------------
(* setconfig.py.                                                            *)

Setconfig ==
    /\ At_("idle") /\ build.runs < MaxRuns
    /\ \E arguments \in {a \in Arguments : \A i \in DOMAIN a : a[i][1] \in DOMAIN w.syms},
          object \in {Loaded(Made(w), Config)} :
       \E r \in {SetBy(w, object.user, arguments)} :
         IF r.ok
         THEN /\ kconf' = [object EXCEPT !.user = r.user]
              /\ proc' = [Idle EXCEPT !.pc = "set"]
         ELSE UNCHANGED <<kconf, proc>>
    /\ Started
    /\ UNCHANGED <<w, disk>>

SaveSet ==
    /\ At_("set")
    /\ WriteConfig(user, "idle")
    /\ UNCHANGED <<w, kconf>>

----------------------------------------------------------------------------
(* A build.                                                                 *)

ToBeTouched == TouchedOf(w, user, IF Exists(AutoConf) THEN disk[AutoConf] ELSE <<>>)
FirstTouched(n) == {ToBeTouched[i] : i \in 1..n}

StartBuild ==
    /\ At_("idle") /\ build.runs < MaxRuns /\ Exists(Config)
    /\ kconf' = Read(w, Made(w), disk[Config])
    /\ proc' = [Idle EXCEPT !.pc = "header"]
    /\ Started
    /\ UNCHANGED <<w, disk>>

WriteAutoconf ==
    /\ At_("header")
    /\ WriteIfChanged(Header, HeaderOf(w, user), "sync")
    /\ UNCHANGED <<w, kconf, build>>

\* sync_deps: the files of the symbols that changed are touched, and then
\* auto.conf is written.
SyncDeps ==
    /\ At_("sync")
    /\ build' = [build EXCEPT !.touched = @ \cup FirstTouched(Len(ToBeTouched))]
    /\ WriteIfChanged(AutoConf, AutoOf(w, user), "compile")
    /\ UNCHANGED <<w, kconf>>

\* The first build compiles everything, a later one what was touched.
Compile ==
    /\ At_("compile")
    /\ build' = [build EXCEPT !.touched = {}, !.made =
                   [s \in Defined(w) |->
                      IF @ = <<>> \/ s \in build.touched THEN SeenOf(w, user)[s] ELSE @[s]]]
    /\ proc' = Idle
    /\ UNCHANGED storeVars

----------------------------------------------------------------------------
(* A crash.                                                                 *)

Crash ==
    /\ ~At_("idle") /\ build.crashes < MaxCrashes
    /\ proc' = Idle
    /\ kconf' = Made(w)
    /\ \E part \in {p \in 0..Len(proc.lines) : At_("writing") \/ p = 0} :
         disk' = IF At_("writing") THEN Put(disk, proc.file, SubSeq(proc.lines, 1, part)) ELSE disk
    /\ \E part \in 0..(IF At_("sync") THEN Len(ToBeTouched) ELSE 0) :
         build' = [build EXCEPT !.crashes = @ + 1,
                                !.torn = @ \/ (At_("writing") /\ proc.file = AutoConf),
                                !.touched = IF At_("sync")
                                            THEN @ \cup FirstTouched(part) ELSE @]
    /\ UNCHANGED w

UtilityNext ==
    \/ StartUtility \/ Edit \/ QuitTool \/ Save \/ OpenConfig \/ Export
    \/ Setconfig \/ SaveSet
    \/ StartBuild \/ WriteAutoconf \/ SyncDeps \/ Compile
    \/ Close \/ Crash

----------------------------------------------------------------------------
(* The directory is empty, or the default configuration was saved, exported *)
(* and built.                                                               *)

NewBuild == [runs |-> 0, crashes |-> 0, kept |-> <<>>, made |-> <<>>, touched |-> {},
             torn |-> FALSE]

DefaultFiles ==
    LET u == Made(w).user IN
    [name \in {Config, Json, Header, AutoConf} |->
       CASE name = Config -> ConfigOf(w, u)
         [] name = Json -> JsonOf(w, u)
         [] name = Header -> HeaderOf(w, u)
         [] name = AutoConf -> AutoOf(w, u)]

UtilityInit ==
    /\ kconf = Made(w)
    /\ proc = Idle
    /\ \/ disk = [name \in {} |-> <<>>] /\ build = NewBuild
       \/ /\ disk = DefaultFiles
          /\ build = [NewBuild EXCEPT !.kept = disk[Config], !.made = SeenOf(w, Made(w).user)]

UtilitySpec ==
    /\ UtilityInit /\ \E t \in DOMAIN Worlds : w = Worlds[t]
    /\ [][UtilityNext]_<<storeVars, utilityVars>>

----------------------------------------------------------------------------
(* Properties.                                                              *)

\* The configuration that was last saved is there, in .config or in .config.old,
\* after one crash at any point.
OneCrashIsSurvived ==
    At_("idle") /\ build.crashes <= 1 /\ build.kept # <<>> =>
      \/ Exists(Config) /\ disk[Config] = build.kept
      \/ Exists(Old(Config)) /\ disk[Old(Config)] = build.kept

\* When the utility has ended after a save, the JSON file holds the values that
\* the tool had in memory, although they have gone through .config.
JsonShowsWhatWasSaved ==
    At_("export") /\ proc.seen # <<>> =>
      Values(Read(w, Made(w), disk[Config]).user) = proc.seen

\* Once a build is through, every object file is made from the values of today,
\* although sync_deps may have been interrupted and run again.
\* "putting it last means _sync_deps() can be safely rerun if it fails before this
\* point": a torn auto.conf is not claimed to be safe.
NoChangeIsMissed == [][Compile /\ ~build.torn => build'.made = SeenOf(w, user)]_<<storeVars, utilityVars>>
=============================================================================
