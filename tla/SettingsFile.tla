---------------------------- MODULE SettingsFile ----------------------------
(***************************************************************************)
(* settings_parser.c, which reads ClientSettings.txt for the client and    *)
(* settings.txt for the server.  A file is a sequence of characters, of    *)
(* which "a" and "b" stand for those of words and "?" for those no token   *)
(* may begin with.                                                         *)
(***************************************************************************)
EXTENDS Integers, Sequences, SequencesExt

InWord == {"a", "b"}  \* isalnum, or ':'
Blank == {" "}

\* The first place from p on where the file has none of these characters.
Past(file, p, characters) ==
  CHOOSE q \in p..(Len(file) + 1) :
    /\ q > Len(file) \/ file[q] \notin characters
    /\ \A k \in p..(q - 1) : file[k] \in characters

Token(kind, value, next) == [kind |-> kind, value |-> value, next |-> next]

\* __get_next_token at place p: the token and the place behind it.  A comment ends
\* before the end of its line, which is the token.
NextToken(file, p) ==
  LET n == Len(file)
      first == Past(file, p, Blank)
      q == IF first <= n /\ file[first] = "#"
           THEN CHOOSE k \in first..(n + 1) :
                  /\ k > n \/ file[k] = "\n"
                  /\ \A j \in first..(k - 1) : file[j] # "\n"
           ELSE first
      end == Past(file, q, InWord \cup {"."})
  IN  IF q > n THEN Token("end", <<>>, q)
      ELSE IF file[q] = ">" THEN Token("separator", <<>>, q + 1)
      ELSE IF file[q] = "\n" THEN Token("endline", <<>>, q + 1)
      ELSE IF file[q] \in InWord THEN Token("word", SubSeq(file, q, end - 1), end)
      ELSE Token("error", <<>>, n + 1)

Setting(name, value) == [name |-> name, value |-> value]
Accepted(list) == [ok |-> TRUE, list |-> list]
Failed == [ok |-> FALSE, list |-> <<>>]

\* parse_settings and __line: word > word, or nothing, on every line.  The loop
\* ends, as at the end of the file, when the lexer fails on the first token of a
\* line; inside a line its failure leaves the token before, which does not fit.
ParseSettings(file) ==
  LET token == [p \in 1..(Len(file) + 1) |-> NextToken(file, p)]
      from[p \in 1..(Len(file) + 1)] ==
        LET name == token[p]
            separator == token[name.next]
            value == token[separator.next]
            endline == token[value.next]
            rest == from[endline.next]
        IN  IF name.kind \in {"end", "error"} THEN Accepted(<<>>)
            ELSE IF name.kind = "endline" THEN from[name.next]
            ELSE IF /\ name.kind = "word" /\ separator.kind = "separator"
                    /\ value.kind = "word" /\ endline.kind = "endline"
                    /\ rest.ok
            THEN Accepted(<<Setting(name.value, value.value)>> \o rest.list)
            ELSE Failed
  IN  IF token[1].kind = "error" THEN Failed ELSE from[1]

LastNamed(list, name) == \* mutant: the list is searched from its end
  LET named == SelectSeq(list, LAMBDA s : s.name = name)
  IN  IF named = <<>> THEN <<>> ELSE Last(named).value

\* get_setting_by_name: the value of the first setting of that name; <<>> if none.
SettingByName(list, name) ==
  LET named == SelectSeq(list, LAMBDA s : s.name = name)
  IN  IF named = <<>> THEN <<>> ELSE Head(named).value
=============================================================================
