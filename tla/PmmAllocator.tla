---------------------------- MODULE PmmAllocator ----------------------------
(***************************************************************************)
(* The memory manager of the shared mapping (mem_management.c).            *)
(*                                                                         *)
(* The region is a chain of blocks, each a header and the bytes after it.  *)
(* A header says how long the block is, whether it is free, and where the  *)
(* block before it starts.  Offsets count from pmmBasePointer, in units of *)
(* which a header takes Meta.  A header that was merged away stays in the  *)
(* bytes of a free block until a caller's data overwrites it: header holds *)
(* the offsets at which an intact one can still be read.                   *)
(*                                                                         *)
(* Every call is made inside the mapping lock, so a call is one step.  The *)
(* model follows the manager up to the first call that would read a        *)
(* caller's data as a header, and until two callers own the same bytes or  *)
(* a block reaches beyond the region.                                      *)
(***************************************************************************)
EXTENDS Integers, FiniteSets

CONSTANTS
  ByteNumber,  \* length of the region
  Meta,        \* sizeof(metadata)
  ReqSizes     \* the sizes callers ask for

ASSUME RegionIsLongEnough ==
  Meta \in Nat \ {0} /\ ByteNumber \in Nat /\ ByteNumber > Meta
ASSUME ReqSizesArePositive == ReqSizes \subseteq Nat \ {0}

VARIABLES
  header,  \* the intact headers, by the offset of their block
  live     \* the blocks callers hold: where each starts, what was asked for

vars == <<header, live>>

\* pmmLastValidPointer
Last == ByteNumber - 1

\* pmm_initialize_management: one free block is the whole region.
Init ==
  /\ header = [o \in {0} |-> [size |-> ByteNumber - Meta, isFree |-> TRUE,
                              previous |-> 0]]
  /\ live = {}

\* The offset after the block that starts at o.
After(o) == o + Meta + header[o].size

\* Where a caller may write in a block it holds.
Bytes(b) == (b.start + Meta)..(b.start + Meta + b.size - 1)

\* The blocks a walk from the beginning of the region meets, with the offset
\* where it ends.
Chain ==
  LET walk[o \in Nat] ==
        IF o \notin DOMAIN header THEN {o} ELSE {o} \cup walk[After(o)]
  IN  walk[0]

-----------------------------------------------------------------------------
(* pmm_malloc.                                                             *)

\* Block o is free and has at least size bytes.
Fits(o, size) == header[o].isFree /\ header[o].size >= size

\* Block o is the first that fits, and the search for it reads no caller's data.
FirstFit(o, size) ==
  /\ o \in Chain \cap DOMAIN header /\ Fits(o, size)
  /\ \A x \in Chain : x < o => x \in DOMAIN header /\ ~Fits(x, size)

MustSplit(o, size) == header[o].size > size + Meta

SplitShrunk(o, size) == \* mutant: subtracts from the size already reduced
  [size |-> size - size - Meta, isFree |-> TRUE, previous |-> o]

SplitBlock(o, size) ==
  [size |-> header[o].size - size - Meta, isFree |-> TRUE, previous |-> o]

\* Where no header can be read any more when block o is reserved: in the bytes
\* of its caller, and where one would overlap the header that is cut off.
Overwritten(o, size) ==
  LET rest == o + Meta + size
  IN  Bytes([start |-> o, size |-> size])
        \cup {x \in DOMAIN header :
                MustSplit(o, size) /\ rest < x /\ x < rest + Meta}

\* Reserve block o and cut off what it has too much as a free block.  The
\* block that follows the free one keeps o as its previous.
Reserve(o, size) ==
  LET rest == o + Meta + size
      got == [start |-> o, size |-> size]
      kept == DOMAIN header \ Overwritten(o, size)
  IN  /\ header' =
           IF MustSplit(o, size)
           THEN [x \in kept \cup {rest} |->
                   IF x = rest THEN SplitBlock(o, size)
                   ELSE IF x = o
                   THEN [header[o] EXCEPT !.isFree = FALSE, !.size = size]
                   ELSE header[x]]
           ELSE [x \in kept |->
                   IF x = o THEN [header[o] EXCEPT !.isFree = FALSE]
                   ELSE header[x]]
      /\ live' = live \cup {got}

Malloc(size) == \E o \in Chain : FirstFit(o, size) /\ Reserve(o, size)

-----------------------------------------------------------------------------
(* pmm_free.                                                               *)

\* There is a block after o, as the code finds out.
HasNext(o) == After(o) < Last

\* h is header after the previous of the block at o, if there is one that
\* starts before the end of the region, has been set to prev.
Relink(h, o, prev) ==
  IF o < Last /\ o \in DOMAIN h THEN [h EXCEPT ![o].previous = prev] ELSE h

\* Block o takes its free next n.
FreeNext(o, n) ==
  Relink([header EXCEPT ![o].size = @ + header[n].size + Meta,
                        ![o].isFree = TRUE],
         After(n), header[n].previous)

FreeBothKeepsPrevious(o, p, n) == \* mutant: looks at the next block only
  FreeNext(o, n)

FreeBothForgetsHeader(o, p, n) == \* mutant: counts one header of the two
  Relink([header EXCEPT ![p].size = @ + header[o].size + header[n].size + Meta],
         After(n), p)

\* Block o between a free previous p and a free next n: p takes all.
FreeBoth(o, p, n) ==
  Relink([header EXCEPT ![p].size = @ + header[o].size + header[n].size
                                      + 2 * Meta],
         After(n), p)

\* A free previous p takes block o.
FreePrevious(o, p) ==
  Relink([header EXCEPT ![p].size = @ + header[o].size + Meta], After(o), p)

Freed(o) ==
  LET p == header[o].previous
      n == After(o)
      nextFree == HasNext(o) /\ header[n].isFree
  IN  CASE nextFree /\ header[p].isFree -> FreeBoth(o, p, n)
        [] nextFree /\ ~header[p].isFree -> FreeNext(o, n)
        [] ~nextFree /\ header[p].isFree -> FreePrevious(o, p)
        [] OTHER -> [header EXCEPT ![o].isFree = TRUE]

Free(b) ==
  LET o == b.start
  IN  /\ o \in DOMAIN header /\ header[o].previous \in DOMAIN header
      /\ HasNext(o) => After(o) \in DOMAIN header
      /\ header' = Freed(o)
      /\ live' = live \ {b}

\* Two callers own the same byte.
Shared == \E b, c \in live : b # c /\ Bytes(b) \cap Bytes(c) # {}

Next ==
  /\ ~Shared /\ Chain \subseteq 0..ByteNumber
  /\ \/ \E size \in ReqSizes : Malloc(size)
     \/ \E b \in live : Free(b)

Spec == Init /\ [][Next]_vars

-----------------------------------------------------------------------------
(* Properties.                                                             *)

\* Type invariant: headers and the blocks callers hold.
TypeOK ==
  /\ DOMAIN header \subseteq Nat
  /\ \A o \in DOMAIN header :
       header[o] \in [size : Nat, isFree : BOOLEAN, previous : Nat]
  /\ live \subseteq [start : Nat, size : ReqSizes]

Blocks == Chain \cap DOMAIN header

\* The walk ends exactly at the end of the region, and the blocks in use are
\* those that callers hold, one caller each, long enough for what was asked.
Tiled ==
  /\ Chain \subseteq DOMAIN header \cup {ByteNumber}
  /\ {o \in Blocks : ~header[o].isFree} = {b.start : b \in live}
  /\ \A b, c \in live : b # c => b.start # c.start
  /\ \A b \in live : header[b.start].size >= b.size

\* What the run pmm_calls explores: nothing more is claimed after this.
Followed == TypeOK /\ Tiled

\* The block before each block is the one previous names.
LinksExact ==
  \A o \in Blocks \ {0} :
    header[o].previous \in Blocks /\ After(header[o].previous) = o

\* previous names a block that comes before, and while that block is free,
\* the one just before.
LinksHarmless ==
  \A o \in Blocks \ {0} :
    LET p == header[o].previous
    IN  /\ p \in Blocks /\ p < o
        /\ header[p].isFree => After(p) = o

\* Two free blocks never lie side by side.
Coalesced ==
  \A o \in Blocks :
    header[o].isFree /\ After(o) \in Blocks => ~header[After(o)].isFree

\* As long as no block names a free block further back as its previous, every
\* call of pmm_malloc and pmm_free leaves the region tiled by blocks.
HarmlessKeepsTiled == [][Tiled /\ LinksHarmless => Tiled']_vars

\* As long as every previous is exact, pmm_free merges all it can: no two
\* free blocks come to lie side by side.
ExactKeepsCoalesced ==
  [][Tiled /\ LinksExact /\ Coalesced => Coalesced']_vars

\* As far as previous can be trusted, calls keep the blocks of the region in order.
LinksKeepBlocks == HarmlessKeepsTiled /\ ExactKeepsCoalesced

\* pmm_malloc "reserves a block" (mem_management.h:51): no byte belongs to two
\* callers at once.
BlocksReserved == ~Shared
=============================================================================
