-------------------------- MODULE MCMonitoredPaths --------------------------
(* Values for the constants of MonitoredPaths. *)
EXTENDS MonitoredPaths

Dir_a == <<"a">>
Dir_ax == <<"a", "x">>
Dir_ay == <<"a", "y">>
Dir_b == <<"b">>

MCDirs == {Dir_a, Dir_ax, Dir_ay, Dir_b}

MCNamePrefix == {<<"a", "ab">>}

\* Three servers on equal, inner and outer directories; none is asked for a
\* directory inside another of its own.
Shared ==
  [asked |-> <<{Dir_a, Dir_b}, {Dir_ax, Dir_b}, {Dir_a}>>,
   dirs |-> {Dir_a, Dir_ax, Dir_b},
   world |-> {"create"}]

\* One server monitors inside another's directory.
Nested ==
  [asked |-> <<{Dir_a}, {Dir_ax, Dir_ay}, {}>>,
   dirs |-> {Dir_a, Dir_ax, Dir_ay},
   world |-> {"create", "delete", "vanish", "interrupt"}]

\* One server is asked for inner directories and for those above them.
Single ==
  [asked |-> <<{Dir_a, Dir_ax, Dir_ay}, {}, {}>>,
   dirs |-> {Dir_a, Dir_ax, Dir_ay},
   world |-> {"create", "delete"}]

\* The directories it monitors change.
Changing ==
  [asked |-> <<{Dir_a, Dir_ax}, {}, {}>>,
   dirs |-> {Dir_a, Dir_ax},
   world |-> {"create", "delete", "attrs"}]

\* One server monitors further and further up beside another one, on a disk that
\* stays as it is; new buckets find other bytes than zeros.
Widening ==
  [asked |-> <<{Dir_a, Dir_ax, Dir_ay}, {Dir_b}, {}>>,
   dirs |-> {Dir_a, Dir_ax, Dir_ay, Dir_b},
   world |-> {"garbage"}]

MCScenarios == {Shared, Nested, Single, Changing, Widening}

\* One server monitors beside and inside directories that are deleted and made again.
Apart ==
  [asked |-> <<{Dir_a, Dir_ax, Dir_b}, {}, {}>>,
   dirs |-> {Dir_a, Dir_ax, Dir_b},
   world |-> {"create", "delete"}]

\* What other servers and SIGINT do to one that monitors from further up.
InnerShared ==
  [asked |-> <<{Dir_a, Dir_ax, Dir_ay}, {Dir_ax, Dir_ay}, {}>>,
   dirs |-> {Dir_a, Dir_ax, Dir_ay},
   world |-> {}]

InnerMade == [Nested EXCEPT !.world = {"create"}]

Interrupted == [Nested EXCEPT !.world = {"interrupt"}]

MCInnerShared == {InnerShared}
MCInnerMade == {InnerMade}
MCInterrupted == {Interrupted}
MCApart == {Apart}
=============================================================================
