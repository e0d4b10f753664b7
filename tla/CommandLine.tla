---------------------------- MODULE CommandLine ----------------------------
(***************************************************************************)
(* The command line of the client: params_parser.c, and how main (client.c)*)
(* chooses what to do from the list of options it returns.                 *)
(*                                                                         *)
(* An argument is what its first characters make of it: an option, when it *)
(* begins with "-", of a name ("" if there is nothing behind the dash), or *)
(* an input.  argv[0], the name of the program, is the first input.        *)
(***************************************************************************)
EXTENDS Integers, Sequences, SequencesExt

\* client.c: the options of which is_command says they are commands, and those
\* parse_params is told to take a value: the first five of the same array.
Commands == {"r", "R", "a", "A", "d", "t"}
TakesValue == Commands \ {"t"}

Argument == [dash : BOOLEAN, text : STRING]
Option(name) == [dash |-> TRUE, text |-> name]
Input(text) == [dash |-> FALSE, text |-> text]

\* isalpha of the first character of a name; these are the names that fail it.
NotAlpha == {"", "1"}

Item(isParam, name, value) == [isParam |-> isParam, name |-> name, value |-> value]
NoValue == "no value"
Refused == <<Item(FALSE, "refused", NoValue)>>

Then(item, rest) == IF rest = Refused THEN Refused ELSE <<item>> \o rest

\* parse_params from argument i on, and opt: the list of items, or Refused.
ParseParams(args) ==
  LET n == Len(args)
      from[i \in 1..(n + 2)] ==
        IF i > n THEN <<>>
        ELSE IF ~args[i].dash
        THEN Then(Item(FALSE, NoValue, args[i].text), from[i + 1])
        ELSE IF args[i].text \in NotAlpha THEN Refused
        ELSE IF args[i].text \notin TakesValue
        THEN Then(Item(TRUE, args[i].text, NoValue), from[i + 1])
        ELSE IF i = n \/ args[i + 1].dash THEN Refused
        ELSE Then(Item(TRUE, args[i].text, args[i + 1].text), from[i + 2])
  IN  from[1]

NoCommand == "none"
Choice(command, value, wait) == [command |-> command, value |-> value, wait |-> wait]
Exit == Choice("exit", NoValue, FALSE)

LastCommand(items) == \* mutant: c is not tested, a later command replaces it
  LET named == {k \in DOMAIN items : items[k].name \in Commands}
  IN  IF named = {} THEN Item(TRUE, NoCommand, NoValue)
      ELSE items[CHOOSE k \in named : \A j \in named : j <= k]

\* The first of the items that is a command.
FirstCommand(items) ==
  LET named == {k \in DOMAIN items : items[k].name \in Commands}
  IN  IF named = {} THEN Item(TRUE, NoCommand, NoValue)
      ELSE items[CHOOSE k \in named : \A j \in named : k <= j]

\* main: one or two options and nothing else, or the client ends.
Choose(args) ==
  LET list == ParseParams(<<Input("client")>> \o args)
      items == Tail(list)
      command == FirstCommand(items)
  IN  IF list = Refused \/ Len(list) \notin 2..3 \/ \E i \in Range(items) : ~i.isParam
      THEN Exit
      ELSE Choice(command.name, command.value, \E i \in Range(items) : i.name = "w")

-----------------------------------------------------------------------------
(* What the user means, said without the parser: the grammar of            *)
(* params_parser.h, cut into groups of an option and its value.            *)

\* "OPT -> -PNAME PVALUE | -PNAME", "PNAME must begin with an aplha char, PVALUE an
\* PNAME have no restrictions" (params_parser.h:7): a value is any argument, and the
\* options of client.c:8, "the set of options that requires a value", have one.
IsGroup(g) ==
  \/ Len(g) = 1 /\ g[1].dash /\ g[1].text \notin NotAlpha \cup Commands
  \/ Len(g) = 2 /\ g[1].dash /\ g[1].text \in Commands

Cuts(args) ==
  {<<SubSeq(args, 1, i), SubSeq(args, i + 1, Len(args))>> : i \in 1..(Len(args) - 1)}
Groups(args) == {g \in {<<args>>} \cup Cuts(args) : \A k \in DOMAIN g : IsGroup(g[k])}

\* "the following lines get the first valid command and check for the -w option"
\* (client.c:212): the first group that holds a command is executed with the value in
\* it, and the client waits if one of them is "-w".
Stands(choice, g) ==
  LET Name(k) == g[k][1].text
      commands == {k \in DOMAIN g : Name(k) \in Commands}
  IN  /\ choice.wait = \E k \in DOMAIN g : Name(k) = "w"
      /\ IF commands = {} THEN choice.command = NoCommand
         ELSE \E k \in commands :
                /\ \A j \in commands : k <= j
                /\ choice.command = Name(k)
                /\ choice.value = g[k][2].text

\* The choice made of args is the one the user means.  Arguments that mean something
\* are refused only for a value that begins with a dash.
UnderstoodAs(args, choice) ==
  IF choice = Exit
  THEN \A g \in Groups(args) : \E k \in DOMAIN g : Len(g[k]) = 2 /\ g[k][2].dash
  ELSE \E g \in Groups(args) : Stands(choice, g)
=============================================================================
