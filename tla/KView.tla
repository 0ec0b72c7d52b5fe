-------------------------------- MODULE KView --------------------------------
(***************************************************************************)
(* The Kconfig object as the menu in a terminal and the window see it.     *)
(* What they ask of kconfiglib.py, or compute from the tree of nodes and   *)
(* the user values, are parameters here; they are defined in KNodes and    *)
(* given by the instance.  x is a world, u the user values, p a place.     *)
(***************************************************************************)
EXTENDS KStore, KTypes

CONSTANTS
    NodeOf(_, _),           \* the node at a place: NodeIn
    MenuOf(_, _),           \* the place of the menu that it is in: ParentMenu
    PlacesOf(_, _),         \* the places of a symbol or choice: NodesOf
    FoundBy(_, _),          \* the places that a search finds: Matches
    ShownIn(_, _, _, _),    \* the places that are shown in a menu: _shown_nodes
    SelectedIn(_, _, _),    \* the symbol that a choice selects, or "": SelectionOf
    CondIn(_, _, _),        \* the value of an expression: ValueOf
    StrIn(_, _, _),         \* the value of an item as a string: StrOf
    TriIn(_, _, _),         \* and as a number: TriAt
    OfferedIn(_, _, _),     \* the values that can be assigned to it: AssignableAt
    YModeIn(_, _, _),       \* whether it is in a choice in y mode: InYModeChoice
    EntriesIn(_, _, _),     \* the strings that can be entered for it: EntriesAt
    SetIn(_, _, _, _),      \* the user values after an assignment: ItemAssigned
    Unsaved(_, _),          \* whether what was loaded is not what was in the file: NeedsSave
    MinConfigOf(_, _)       \* the lines of a minimal configuration: MinConfigContents

CONSTANTS
    FileNames,          \* the names that are entered in dialogs
    Searches,           \* the names that are found by a search
    MaxDone             \* bound, for each text: how often a value, a file or the display
                        \* is changed, and how often something is searched for

\* Another name for each file, that is not entered in a dialog.
ASSUME FileNamesAssumption ==
    \A a, b \in FileNames \cup {".config"} :
      Old(a) \notin FileNames \cup {".config"} /\ (Old(a) = Old(b) => a = b)

NodeAt(p) == NodeOf(w, p)
ItemOf(p) == NodeAt(p).item
NameAt(p) == NodeAt(p).item[2]
Children(p) == [i \in DOMAIN NodeAt(p).list |-> Append(p, i)]
IsItem(p) == IsSymbol(NodeAt(p)) \/ IsChoice(NodeAt(p))
TypeAt(p) == IF IsChoice(NodeAt(p)) THEN w.choices[NameAt(p)].type ELSE w.syms[NameAt(p)].type

\* Whether quitting must ask first: the file is missing or would change.
Outdated(name, k) == ~Exists(name) \/ Unsaved(w, k)

\* P has all places that are shown, found or entered, for the user values in U; and
\* show-all never hides everything that is shown.
PlacesAreKnown(x, U, P) ==
    /\ Top \in P /\ \A p \in P \ {Top} : MenuOf(x, p) \in P
    /\ \A names \in Searches : FoundBy(x, names) \in Seq(P \ {Top})
    /\ \A u \in U, p \in P :
         LET less == ShownIn(x, u, FALSE, p)
             more == ShownIn(x, u, TRUE, p)
         IN  /\ less \in Seq(P \ {Top}) /\ more \in Seq(P \ {Top})
             /\ less # <<>> => \E i \in 1..Len(less), j \in 1..Len(more) : less[i] = more[j]

\* Files hold the values that they are written for, and loading is told from a change of
\* the file: for the objects in K and the files in L.
FilesAreFaithful(x, K, L) ==
    LET users == {k.user : k \in K} IN
    /\ RoundTrips(x, users, Made, Read, ConfigOf, ValuesIn)
    /\ RoundTrips(x, users, Made, Read, MinConfigOf, ValuesIn)
    /\ \A k \in K, lines \in L :
         LET loaded == Read(x, k, lines) IN
         ~Unsaved(x, loaded) =>
           ValuesIn(x, loaded.user) = ValuesIn(x, Read(x, Made(x), lines).user)
=============================================================================
