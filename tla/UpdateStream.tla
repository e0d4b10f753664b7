---------------------------- MODULE UpdateStream ----------------------------
(***************************************************************************)
(* How the client cuts what it receives into updates (client_server in     *)
(* client.c).  Characters are "x" for any that the end of an update does   *)
(* not have, and those it has: CR, LF and ".".                             *)
(***************************************************************************)
EXTENDS Integers, Sequences, SequencesExt

CONSTANT UdpSize  \* UDP_BUFF_SIZE

ASSUME UdpSizeIsNat == UdpSize \in Nat \ {0}

Terminator == <<"CR", "LF", ".", "CR", "LF">>

\* The text of an update, and of a deletion, as the server sends it.
Text(body) == body \o Terminator

\* The update so far, and how much of a terminator was seen.
EmptyUpdate == [text |-> <<>>, state |-> 0]
Complete(u) == u.state = 5

NextStateDot(state, c) == \* mutant: a dot begins a terminator
  CASE c = "CR" -> (CASE state = 0 -> 1 [] state = 3 -> 4 [] OTHER -> 0)
    [] c = "LF" -> (CASE state = 1 -> 2 [] state = 4 -> 5 [] OTHER -> 0)
    [] c = "." -> IF state \in {0, 2} THEN 3 ELSE 0
    [] OTHER -> state

\* The switch: other characters leave the state as it is.
NextState(state, c) ==
  CASE c = "CR" -> (CASE state = 0 -> 1 [] state = 3 -> 4 [] OTHER -> 0)
    [] c = "LF" -> (CASE state = 1 -> 2 [] state = 4 -> 5 [] OTHER -> 0)
    [] c = "." -> IF state = 2 THEN 3 ELSE 0
    [] OTHER -> state

\* recv cuts a datagram at the size of the buffer.
Taken(datagram) == IF Len(datagram) < UdpSize THEN Len(datagram) ELSE UdpSize

\* How much of a datagram was read, and the state then.
Positions == [read : Nat, state : 0..5]

\* Character c is the k-th: it is read unless an update has ended before it.
Reads(k, c) ==
  [p \in Positions |->
     IF p.state = 5 THEN p ELSE [read |-> k, state |-> NextState(p.state, c)]]

\* after[k]: the position when k characters were looked at.
Fed(u, datagram) ==
  LET n == Taken(datagram)
      after[k \in 0..n] == IF k = 0 THEN [read |-> 0, state |-> u.state]
                           ELSE Reads(k, datagram[k])[after[k - 1]]
  IN  [text |-> u.text \o SubSeq(datagram, 1, after[n].read), state |-> after[n].state]
=============================================================================
