---------------------------- MODULE RequestStream ---------------------------
(***************************************************************************)
(* How a request handler puts a request together from what recv gives it   *)
(* (step 1 of client_request_handler in tcp_server.c).  The characters of  *)
(* a request are numbered from 1; behind them the client sends a newline   *)
(* and the '\0' that ends its string.                                      *)
(***************************************************************************)
EXTENDS Integers, Sequences, SequencesExt

CONSTANT BuffSize  \* BUFFSIZE

ASSUME BuffSizeIsNat == BuffSize \in Nat \ {0}

Newline == 0
Nul == -1
Junk == -2  \* a byte nobody wrote

RequestUnended(n) == \* mutant: the format string has no \n
  [k \in 1..(n + 2) |-> IF k <= n THEN k ELSE Nul]

\* What the client sends of a request of n characters.
Request(n) == [k \in 1..(n + 2) |-> IF k <= n THEN k ELSE IF k = n + 1 THEN Newline ELSE Nul]

\* What the handler is to make of it.
Line(n) == [k \in 1..(n + 1) |-> IF k <= n THEN k ELSE Newline]

NothingReadSkips == \* mutant: buffIndex begins at 1
  [buffer |-> [k \in 0..(BuffSize - 1) |-> Junk], index |-> 1, string |-> <<>>]

\* buffer, buffIndex, and stringReceived up to charsRead.
NothingRead == [buffer |-> [k \in 0..(BuffSize - 1) |-> Junk], index |-> 0, string |-> <<>>]

\* The byte at index k of the buffer; junk is what an unwritten one holds.
ByteAt(buffer, k, junk) ==
  LET b == IF k < BuffSize THEN buffer[k] ELSE Junk
  IN  IF b = Junk THEN junk ELSE b

\* The bytes copied with the buffer's first m received: one, and more from the
\* index on, which recv's answer does not set back, to a newline or to m.
CopiedTo(h, m, junk) ==
  CHOOSE k \in h.index..(h.index + m) :
    /\ ByteAt(h.buffer, k, junk) = Newline \/ k + 1 >= m
    /\ \A j \in h.index..(k - 1) :
         ByteAt(h.buffer, j, junk) # Newline /\ j + 1 < m

\* One recv of piece, and the loop that copies it.
Received(h, piece, junk) ==
  LET buffer == [k \in 0..(BuffSize - 1) |->
                   IF k < Len(piece) THEN piece[k + 1] ELSE h.buffer[k]]
      last == CopiedTo([h EXCEPT !.buffer = buffer], Len(piece), junk)
  IN  [buffer |-> buffer,
       index |-> last + 1,
       string |-> h.string \o [k \in 1..(last + 1 - h.index) |->
                                 ByteAt(buffer, h.index + k - 1, junk)]]

\* The newline has come.
IsLine(h) == h.string # <<>> /\ Last(h.string) = Newline
=============================================================================
