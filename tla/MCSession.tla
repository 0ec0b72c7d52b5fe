------------------------------ MODULE MCSession ------------------------------
(***************************************************************************)
(* The instance of Session that is checked: one text for the utility, two  *)
(* for the menu in a terminal and one for the window.                      *)
(***************************************************************************)
EXTENDS Session

MCToolFor == [files |-> "utility", screen |-> "menu", picks |-> "menu", window |-> "window"]
MCWorlds == LET made == [t \in DOMAIN MCToolFor |-> World(t)] IN made
MCEnvironment == [x \in {} |-> ""]
MCWords == <<"x", "z">>
MCArguments == {<< <<"A", "n">> >>, << <<"N", "3">>, <<"C1", "m">> >>}
MCSearches == {{"G", "m1", "C1", "CH", "H", "K", "O"}, {}}
MCMaxDone == [t \in DOMAIN MCToolFor |-> IF t = "screen" THEN 2 ELSE 1]

\* The user values after up to one assignment, and up to two.
MCAfter(x, users) == users \cup UNION {EditedUsers(x, u) : u \in users}
MCUsers1(x) == MCAfter(x, {NoUser(x)})
MCUsers(x) == MCAfter(x, MCUsers1(x))

\* The hypothesis of TheScreenIsRight, for every place below the top.
ASSUME PlacesKnown ==
    \A t \in {"screen", "picks"} :
      LET x == World(t)
          places == {Below(x)[i] : i \in 1..Len(Below(x))}
      IN  PlacesAreKnown(x, MCUsers(x), {Top} \cup places)

\* The hypothesis of ExportIsWhatWasSaved.
ASSUME FilesHoldTheValues ==
    \A t \in DOMAIN MCToolFor :
      LET x == World(t)
      IN  RoundTrips(x, MCUsers(x), NewObject, LoadReplacing, ConfigContents, ValuesOf)

\* The hypothesis of TheMenuLosesNothing, for the files that are written after up to one
\* assignment and the ones that are there at first.
ASSUME FilesReadBack ==
    \A t \in {"screen", "picks"} :
      LET x == World(t)
          users == MCUsers1(x)
          objects == [user : users, missing : {<<>>, << <<"GONE", "y">> >>}]
          files == UNION {{ConfigContents(x, u), MinConfigContents(x, u)} : u \in users}
                     \cup {d[".config"] : d \in {e \in FilesAtStart(x) : DOMAIN e # {}}}
      IN  FilesAreFaithful(x, objects, files)
=============================================================================
