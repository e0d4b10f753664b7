---------------------------- MODULE PathStrings ----------------------------
(***************************************************************************)
(* Paths as the program compares them, by their strings: where it forgets  *)
(* the final separator a name counts as the beginning of a longer one.     *)
(***************************************************************************)
EXTENDS PathNames

CONSTANT NamePrefix  \* pairs of names of which the first begins the second

ASSUME NamePrefixIsTransitive ==
  \A r, s \in NamePrefix : r[2] = s[1] => <<r[1], s[2]>> \in NamePrefix

\* is_prefix on paths without a separator at the end: p begins q.
StringPrefix(p, q) ==
  \/ IsPrefix(p, q)
  \/ /\ Len(p) <= Len(q)
     /\ IsPrefix(Front(p), q)
     /\ <<Last(p), q[Len(p)]>> \in NamePrefix
=============================================================================
