------------------------------- MODULE KTexts --------------------------------
(***************************************************************************)
(* The Kconfig files of the instances that are checked.  A line is written *)
(* as a sequence of words; Lexed makes lexemes of them.                    *)
(***************************************************************************)
EXTENDS Naturals, Sequences, TLC

LOCAL Ops == {"=", "!=", "<", "<=", ">", ">=", "&&", "||", "!", "(", ")", "#"}
LOCAL Lexeme(word) ==
    CASE word \in Ops -> <<"op", word>>
      [] word = "help text" -> <<"more", word>>
      [] word \in {"x", "z"} -> <<"quoted", word>>
      [] OTHER -> <<"word", word>>
LOCAL Lexed(lines) == [i \in DOMAIN lines |-> [j \in DOMAIN lines[i] |-> Lexeme(lines[i][j])]]

\* Selects and implies, of a symbol whose dependencies may not be met.
SelectText == Lexed(<<
    <<"config", "MODULES">>, <<"bool", "p">>,
    <<"config", "A">>, <<"tristate", "p">>, <<"select", "B">>, <<"imply", "C", "if", "!", "D">>,
    <<"config", "D">>, <<"bool", "p">>,
    <<"config", "B">>, <<"tristate", "p", "if", "MODULES">>, <<"depends", "on", "D">>,
    <<"config", "C">>, <<"tristate", "p">>, <<"depends", "on", "MODULES", "||", "D">> >>)

\* A tristate choice with a bool and a tristate symbol, and a default.
ChoiceText == Lexed(<<
    <<"config", "MODULES">>, <<"def_bool", "y">>,
    <<"config", "X">>, <<"bool", "p">>,
    <<"choice">>, <<"tristate", "p">>, <<"default", "C2">>, <<"optional">>,
    <<"config", "C1">>, <<"bool", "p">>,
    <<"config", "C2">>, <<"tristate", "p">>, <<"depends", "on", "X">>,
    <<"endchoice">>,
    <<"config", "R">>, <<"bool">>, <<"default", "y", "if", "C2", "=", "m", "||", "C1">> >>)

\* Ranges, strings and relations.
NumberText == Lexed(<<
    <<"config", "LOW">>, <<"int", "p">>, <<"range", "0", "2">>, <<"default", "1">>,
    <<"config", "N">>, <<"int", "p">>, <<"range", "LOW", "3", "if", "B">>, <<"range", "2", "5">>,
    <<"default", "4">>,
    <<"config", "B">>, <<"bool", "p">>,
    <<"config", "NAME">>, <<"string", "p", "if", "N", "<=", "LOW">>,
    <<"default", "x", "if", "N", ">", "LOW">>, <<"default", "z">>,
    <<"config", "IS">>, <<"bool">>, <<"default", "y", "if", "NAME", "=", "x", "&&", "B", "!=", "y">> >>)

\* Menus, blocks that depend on a condition, implicit menus and a sourced file.
MenuText == Lexed(<<
    <<"mainmenu", "title">>,
    <<"menu", "m1">>, <<"visible", "if", "V">>, <<"depends", "on", "E">>,
    <<"if", "F">>,
    <<"config", "G">>, <<"bool", "p">>, <<"default", "y">>,
    <<"menuconfig", "H">>, <<"bool", "p">>, <<"depends", "on", "(", "E", "||", "V", ")", "&&", "G">>,
    <<"comment", "note">>, <<"depends", "on", "H">>,
    <<"endif">>,
    <<"endmenu">>,
    <<"config", "V">>, <<"bool", "p">>, <<"default", "E">>, <<"#", "ignored">>,
    <<"config", "E">>, <<"def_bool", "y">>, <<"prompt", "p">>, <<"help">>, <<"help text">>,
    <<"help text">>,
    <<"source", "sub">>, <<"osource", "missing">> >>)

SubText == Lexed(<<
    <<"config", "F">>, <<"bool", "p">>, <<>>,
    <<"if", "F">>, <<"config", "K">>, <<"def_bool", "y">>, <<"endif">> >>)

\* Files that cannot be read: a loop through a select, one through a choice, one
\* file that includes itself, a menu that never ends.
SelectLoopText == Lexed(<<
    <<"config", "A">>, <<"bool", "p">>, <<"select", "B", "if", "C">>,
    <<"config", "B">>, <<"bool">>,
    <<"config", "C">>, <<"bool", "p">>, <<"depends", "on", "B">> >>)

ChoiceLoopText == Lexed(<<
    <<"choice">>, <<"prompt", "p">>,
    <<"config", "A">>, <<"bool", "p">>,
    <<"config", "B">>, <<"bool", "p", "if", "!", "Z">>,
    <<"endchoice">>,
    <<"config", "Z">>, <<"bool">>, <<"default", "y", "if", "A">> >>)

SelfText == Lexed(<< <<"source", "self">> >>)
EndlessText == Lexed(<< <<"menu", "m">>, <<"config", "A">>, <<"bool">> >>)

\* What a configuration file is about: values of several types, a choice in m mode.
FilesText == Lexed(<<
    <<"config", "MODULES">>, <<"def_bool", "y">>,
    <<"config", "A">>, <<"bool", "p">>, <<"default", "y">>,
    <<"if", "A">>,
    <<"config", "N">>, <<"int", "p">>, <<"default", "1">>,
    <<"choice">>, <<"tristate", "p">>,
    <<"config", "C1">>, <<"tristate", "p">>,
    <<"config", "C2">>, <<"tristate", "p">>,
    <<"endchoice">>,
    <<"endif">> >>)

\* What is shown of a tree: a menu that is sometimes invisible, a menu symbol, and an
\* invisible symbol with something visible below it.
ScreenText == Lexed(<<
    <<"config", "E">>, <<"bool", "p">>,
    <<"menu", "m1">>, <<"visible", "if", "E">>, <<"comment", "note">>,
    <<"config", "G">>, <<"int", "p">>, <<"default", "1">>, <<"endmenu">>,
    <<"menuconfig", "H">>, <<"bool", "p">>, <<"default", "y">>,
    <<"config", "K">>, <<"bool", "p">>, <<"depends", "on", "H">>,
    <<"config", "L">>, <<"bool", "p", "if", "!", "E">>, <<"default", "y">>,
    <<"config", "O">>, <<"bool", "p">>, <<"depends", "on", "L">> >>)

\* A choice with two places, and a symbol below one of those that it selects.
PicksText == Lexed(<<
    <<"config", "MODULES">>, <<"def_bool", "y">>,
    <<"choice", "CH">>, <<"tristate", "p">>, <<"default", "C2">>,
    <<"config", "C1">>, <<"tristate", "p">>,
    <<"config", "C2">>, <<"tristate", "p">>,
    <<"config", "R">>, <<"bool", "p">>, <<"depends", "on", "C2">>, <<"endchoice">>,
    <<"choice", "CH">>, <<"prompt", "q">>, <<"config", "C3">>, <<"tristate", "p">>,
    <<"endchoice">> >>)

\* A choice in a menu that is sometimes invisible, a menu symbol, and a number.
WindowText == Lexed(<<
    <<"menuconfig", "H">>, <<"bool", "p">>, <<"default", "y">>,
    <<"config", "K">>, <<"int", "p">>, <<"default", "1">>, <<"depends", "on", "H">>,
    <<"menu", "m1">>, <<"visible", "if", "H">>,
    <<"choice", "CH">>, <<"bool", "p">>, <<"config", "C1">>, <<"bool", "p">>,
    <<"config", "C2">>, <<"bool", "p">>, <<"endchoice">>, <<"endmenu">> >>)

\* A symbol in a menu in a choice, on which the prompt of the choice depends.
NestedText == Lexed(<<
    <<"choice">>, <<"prompt", "p", "if", "Z">>,
    <<"config", "A">>, <<"bool", "p">>,
    <<"menu", "m">>, <<"config", "Z">>, <<"bool", "p">>, <<"endmenu">>,
    <<"endchoice">> >>)

\* A choice whose second symbol depends on its third.
SiblingsText == Lexed(<<
    <<"choice">>, <<"prompt", "p">>, <<"default", "S1">>,
    <<"config", "S3">>, <<"bool", "p">>,
    <<"config", "S1">>, <<"bool", "p">>, <<"depends", "on", "S2">>,
    <<"config", "S2">>, <<"bool", "p">>,
    <<"endchoice">> >>)

\* MODULES depends on a tristate symbol, whose type depends on MODULES.
ModulesText == Lexed(<<
    <<"config", "T">>, <<"tristate", "p">>, <<"default", "m">>,
    <<"config", "MODULES">>, <<"bool">>, <<"default", "T">> >>)

\* A symbol that is visible in m, selected to m, and implied to y.
ImplyText == Lexed(<<
    <<"config", "MODULES">>, <<"def_bool", "y">>, <<"imply", "B">>,
    <<"config", "A">>, <<"tristate", "p">>, <<"default", "m">>, <<"select", "B">>,
    <<"config", "B">>, <<"tristate", "p", "if", "A">> >>)

\* A choice with a symbol that is implied and one that has a place outside.
OffersText == Lexed(<<
    <<"config", "MODULES">>, <<"def_bool", "y">>, <<"imply", "C1">>,
    <<"choice">>, <<"tristate", "p">>,
    <<"config", "C1">>, <<"tristate", "p">>,
    <<"config", "C2">>, <<"tristate", "p">>,
    <<"endchoice">>,
    <<"config", "C2">>, <<"tristate", "q">> >>)

AllFiles == [select |-> SelectText, siblings |-> SiblingsText, modules |-> ModulesText,
             imply |-> ImplyText, offers |-> OffersText, choice |-> ChoiceText, numbers |-> NumberText,
             menus |-> MenuText, sub |-> SubText, select_loop |-> SelectLoopText,
             choice_loop |-> ChoiceLoopText, self |-> SelfText, endless |-> EndlessText,
             nested |-> NestedText, files |-> FilesText, screen |-> ScreenText, picks |-> PicksText,
             window |-> WindowText]

LOCAL Digits == [s \in {ToString(n) : n \in 0..9} |-> CHOOSE n \in 0..9 : ToString(n) = s]
AllNumerals == [type \in {"int", "any"} |-> Digits] @@ [hex |-> [s \in {} |-> 0]]
=============================================================================
