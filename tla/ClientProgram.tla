---------------------------- MODULE ClientProgram ---------------------------
(***************************************************************************)
(* The client program (client.c, networking.c) and what it has to do with  *)
(* the server: its command goes through a TCP connection to a request      *)
(* handler (tcp_server.c), the updates come back by UDP, to one port of    *)
(* its host, from the server's monitor (client_node_list.c).               *)
(*                                                                         *)
(* Several runs of the program overlap on one host: a run that waits for   *)
(* updates cannot send a command, so its user starts another one.  The     *)
(* server knows the host, not the run.  What the register does is in       *)
(* ClientRegister; here no directory lies in another.  crLock is held from *)
(* the first update put in the host's queue until the last one is sent.    *)
(*                                                                         *)
(* world.may says what may happen:                                         *)
(*   "pieces"     TCP hands over what was sent in pieces                   *)
(*   "delay"      an answer may overtake a datagram, and these each other  *)
(*   "duplicate", "loss"   of a datagram, once                             *)
(*   "stop"       the server ends for reasons of its own                   *)
(*   "rude"       the user starts and ends the program at any time         *)
(*   "long"       an update may be longer than the client's buffer          *)
(*   "new"        a first run with any arguments and settings, and no other *)
(***************************************************************************)
EXTENDS CommandLine, SettingsFile, RequestStream, UpdateStream, FiniteSets

CONSTANTS
  Proc,       \* runs of the program at one time
  Dirs,       \* the directories the user names
  TextLen,    \* the length of the request that names each
  Bodies,     \* texts of updates, without the terminator
  LongBodies, \* texts that do not fit into the client's buffer with it
  CommandLines,  \* what the user may type at first, and what later
  UsualLines,
  Files,      \* ClientSettings.txt, a sequence of lines, at first, and later
  UsualFile,
  Worlds,     \* [may: what may happen, runs, notes: bounds on starts of the program
              \* and on the updates the server sends]
  None

Elsewhere == "elsewhere"  \* a directory the user did not name

\* The text that a directory was deleted; "gone" and the name are as good as "x".
GoneBody(d) == <<d, "gone">>

\* Updates are lines: no name has a carriage return; the text of a deletion is of its
\* own, and fits into the buffer.
ASSUME BodiesAreLines ==
  /\ \A b \in Bodies \cup LongBodies :
       b \in Seq(Range(b)) /\ {"CR", "gone"} \cap Range(b) = {}
  /\ "CR" \notin Dirs
ASSUME BodiesFit ==
  7 <= UdpSize /\ \A b \in Bodies : Len(Text(b)) <= UdpSize
ASSUME LinesAreArguments == CommandLines \cup UsualLines \subseteq Seq(Argument)
ASSUME UserNamesDirs ==
  \A args \in CommandLines \cup UsualLines :
    Choose(args) # Exit => \/ Choose(args).command \in {NoCommand, "t"}
                           \/ Choose(args).value \in Dirs
ASSUME RequestsHaveText == TextLen \in [Dirs -> Nat \ {0}]
ASSUME SomeBounds == \A w \in Worlds : w.runs \in Nat /\ w.notes \in Nat
ASSUME NoneIsNothing == None \notin Proc \cup Dirs \cup {Elsewhere}

VARIABLES
  world,       \* one of Worlds
  client,      \* of every run: where it is, what it read, what it is to do
  conn,        \* its connection and the handler at the other end
  port,        \* the run that has the UDP port, or None
  hearing,     \* the thread's update so far
  shown,       \* the text it printed last
  mine,        \* the directories the user has to think the host is registered for
  registered,  \* those the server has registered it for
  updates,     \* its queue in the client node list
  refused,     \* the monitor's socket was told that the port is closed
  ended,       \* whether the server has ended, and why
  net,         \* datagrams on their way
  left         \* bounds: starts, updates, and datagrams that may be lost or doubled

May(what) == what \in world.may

clientVars == <<client, port, hearing, shown, mine>>
serverVars == <<registered, updates, refused, ended>>
vars == <<world, clientVars, conn, serverVars, net, left>>

Off == [pc |-> "off", choice |-> Exit, args |-> <<>>, lines |-> <<>>,
        settings |-> Failed]
NoConnection ==
  [state |-> "none", open |-> FALSE, asked |-> <<>>, sent |-> 0, taken |-> 0,
   read |-> NothingRead, did |-> <<>>, code |-> "none", back |-> 0]

Codes == {"200", "201", "202", "300", "400", "403", "404"}
CodeLen == 4

\* The bytes of the request, and whether the handler has read what it says.
Length(p) == TextLen[conn[p].asked[2]] + 2
Understood(p) ==
  conn[p].asked # <<>> /\ conn[p].read.string = Line(TextLen[conn[p].asked[2]])

-----------------------------------------------------------------------------
(* The user.  One who is not rude has one run that waits, and has the host *)
(* registered only while it does.                                          *)

Idle(p) == client[p].pc \in {"off", "waiting"}
Waits == \E p \in Proc : client[p].pc = "waiting"

MayStart(choice) ==
  \/ May("rude")
  \/ /\ \A p \in Proc : Idle(p)
     /\ choice # Exit => /\ choice.command # "t"
                         /\ choice.wait => ~Waits
                         /\ choice.command \notin {"d", NoCommand} => Waits \/ choice.wait

MayEnd(p) == May("rude") \/ (mine = {} /\ \A q \in Proc : Idle(q))

\* A run is over: exit, or the end of main.  What waits at its port is lost.
Over(p) ==
  /\ client' = [client EXCEPT ![p] = Off]
  /\ port' = IF port = p THEN None ELSE port
  /\ hearing' = IF port = p THEN EmptyUpdate ELSE hearing
  /\ net' = IF port = p /\ ~May("delay") THEN <<>> ELSE net

-----------------------------------------------------------------------------
(* main, until it sends its command.                                       *)

Start(p) ==
  /\ client[p].pc = "off" /\ conn[p].state = "none" /\ left.runs > 0
  /\ \E args \in IF May("new") THEN CommandLines ELSE UsualLines :
       /\ MayStart(Choose(args))
       /\ client' = [client EXCEPT ![p] = [Off EXCEPT
            !.pc = "options", !.choice = Choose(args), !.args = args]]
  /\ left' = [left EXCEPT !.runs = @ - 1]
  /\ UNCHANGED <<world, conn, port, hearing, shown, mine, serverVars, net>>

ExitOnOptions(p) ==
  /\ client[p].pc = "options" /\ client[p].choice = Exit
  /\ Over(p)
  /\ UNCHANGED <<world, conn, shown, mine, serverVars, left>>

LoadSettings(p) ==
  /\ client[p].pc = "options" /\ client[p].choice # Exit
  /\ \E lines \in IF May("new") THEN Files ELSE {UsualFile} :
     \E file \in {FlattenSeq([k \in DOMAIN lines |-> lines[k].text])} :
     \E settings \in {ParseSettings(file)} :
       client' = [client EXCEPT ![p].pc = "settings", ![p].args = <<>>,
                    ![p].lines = lines, ![p].settings = settings]
  /\ UNCHANGED <<world, conn, port, hearing, shown, mine, serverVars, net, left>>

\* get_setting_by_name of the address and the ports, here one setting.
Address(p) == SettingByName(client[p].settings.list, <<"a">>)
HasSettings(p) == client[p].settings.ok /\ Address(p) # <<>>

ExitOnSettings(p) ==
  /\ client[p].pc = "settings" /\ ~HasSettings(p)
  /\ Over(p)
  /\ UNCHANGED <<world, conn, shown, mine, serverVars, left>>

Ready(p) == [Off EXCEPT !.pc = "ready", !.choice = client[p].choice]

\* create_server_socket: bind fails while another run has the port.
PortIsFree == port = None

\* The socket for the UDP port, and the thread of client_server, with -w.
OpenPort(p) ==
  /\ client[p].pc = "settings" /\ HasSettings(p)
  /\ IF client[p].choice.wait /\ ~PortIsFree
     THEN Over(p)
     ELSE /\ client' = [client EXCEPT ![p] = Ready(p)]
          /\ port' = IF client[p].choice.wait THEN p ELSE port
          /\ UNCHANGED <<hearing, net>>
  /\ UNCHANGED <<world, conn, shown, mine, serverVars, left>>

\* A run without a command waits, or is over.
NothingToDo(p) ==
  /\ client[p].pc = "ready" /\ client[p].choice.command = NoCommand
  /\ IF client[p].choice.wait
     THEN client' = [client EXCEPT ![p].pc = "waiting"] /\ UNCHANGED <<port, hearing, net>>
     ELSE Over(p)
  /\ UNCHANGED <<world, conn, shown, mine, serverVars, left>>

\* create_connection: connect fails when the server is gone.
ServerIsThere == ended = "no"

\* accept_connection, and the handler that create_thread makes of it.
NewConnection(asked) ==
  [NoConnection EXCEPT !.state = "reading", !.open = asked # <<>>, !.asked = asked]

\* "-t" has no value, which execute_command does not survive.
Connect(p) ==
  /\ client[p].pc = "ready" /\ client[p].choice.command # NoCommand
  /\ IF ~ServerIsThere
     THEN Over(p) /\ UNCHANGED conn
     ELSE IF client[p].choice.command = "t"
     THEN Over(p) /\ conn' = [conn EXCEPT ![p] = NewConnection(<<>>)]
     ELSE /\ client' = [client EXCEPT ![p].pc = "sending"]
          /\ conn' = [conn EXCEPT ![p] =
               NewConnection(<<client[p].choice.command, client[p].choice.value>>)]
          /\ UNCHANGED <<port, hearing, net>>
  /\ UNCHANGED <<world, shown, mine, serverVars, left>>

-----------------------------------------------------------------------------
(* The command and its answer.                                             *)

\* send_data: send takes all of it, or what fits.
Send(p) ==
  /\ client[p].pc = "sending"
  /\ \E n \in (conn[p].sent + 1)..Length(p) :
       /\ ~May("pieces") => n = Length(p)
       /\ conn' = [conn EXCEPT ![p].sent = n]
       /\ client' = [client EXCEPT ![p].pc = IF n = Length(p) THEN "receiving" ELSE @]
  /\ UNCHANGED <<world, port, hearing, shown, mine, serverVars, net, left>>

\* The handler receives bytes, and has the request when a newline is among them.
Receive(p) ==
  LET c == conn[p]
  IN  /\ ended = "no" /\ c.state = "reading" /\ c.taken < c.sent
      /\ \E n \in 1..(IF c.sent - c.taken < BuffSize THEN c.sent - c.taken ELSE BuffSize),
            junk \in {Junk, Newline} :
           /\ ~May("pieces") => n = c.sent - c.taken \/ n = BuffSize
           /\ \E piece \in {SubSeq(Request(Length(p) - 2), c.taken + 1, c.taken + n)} :
              \E read \in {Received(c.read, piece, junk)} :
                conn' = [conn EXCEPT ![p].taken = @ + n, ![p].read = read,
                           ![p].state = IF IsLine(read) THEN "line" ELSE @]
  /\ UNCHANGED <<world, clientVars, serverVars, net, left>>

\* The client is gone: recv answers 0 again and again, and each time a byte is
\* copied, beyond the buffer in the end, until one is a newline or cannot be read.
ReceiveNothing(p) ==
  /\ ended = "no" /\ conn[p].state = "reading" /\ ~conn[p].open
  /\ conn[p].taken = conn[p].sent
  /\ \/ /\ conn' = [conn EXCEPT ![p].state = "line",
                      ![p].read = [@ EXCEPT !.string = <<Junk, Newline>>]]
        /\ UNCHANGED ended
     \/ ended' = "own" /\ UNCHANGED conn
  /\ UNCHANGED <<world, clientVars, registered, updates, refused, net, left>>

\* What the handler does of a command for directory d under crLock: its answer, and
\* whether the host is registered for d then.  It is refused what the server does not
\* monitor ("r", "R") or cannot ("a", "A").  What is registered is so again: not
\* recursively (200), or recursively already (201) or only now (202).
Outcomes(command, d) ==
  LET here == d \in registered
      no == IF command \in {"r", "R"} THEN "400" ELSE "403"
      yes == IF here /\ command \in {"r", "a"} THEN {"201", "202"} ELSE {"200"}
  IN  IF command = "d"
      THEN {[code |-> IF here THEN "200" ELSE "400", stays |-> FALSE]}
      ELSE [code : {no}, stays : {here}] \cup [code : yes, stays : {TRUE}]

\* The requests a handler may see in what it has read: that of p, or any, of which
\* "r" stands for all that register.
Requests(p) ==
  IF Understood(p) THEN {conn[p].asked}
  ELSE {"r", "d"} \X (Dirs \cup {Elsewhere})

AnswerUnlocked(p) == \* mutant: crLock is not taken
  /\ ended = "no" /\ conn[p].state = "line"
  /\ \E request \in Requests(p) : \E o \in Outcomes(request[1], request[2]) :
       /\ conn' = [conn EXCEPT ![p].state = "answered", ![p].code = o.code,
                     ![p].did = request, ![p].read = NothingRead]
       /\ registered' = IF o.stays THEN registered \cup {request[2]}
                        ELSE registered \ {request[2]}
  /\ UNCHANGED <<world, clientVars, updates, refused, ended, net, left>>

\* The handler does what it is asked, under crLock, which it waits for while updates
\* are sent; it answers and closes.
Answer(p) ==
  /\ ended = "no" /\ conn[p].state = "line" /\ updates = <<>>
  /\ ~May("delay") => net = <<>>
  /\ \E request \in Requests(p) : \E o \in Outcomes(request[1], request[2]) :
       /\ conn' = [conn EXCEPT ![p].state = "answered", ![p].code = o.code,
                     ![p].did = request, ![p].read = NothingRead]
       /\ registered' = IF o.stays THEN registered \cup {request[2]}
                        ELSE registered \ {request[2]}
  /\ UNCHANGED <<world, clientVars, updates, refused, ended, net, left>>

\* The directory is not there, or not accessible: the handler answers and closes
\* before it takes crLock.
Refuse(p) ==
  /\ ended = "no" /\ conn[p].state = "line"
  /\ ~May("delay") => net = <<>>
  /\ \E request \in Requests(p), code \in {"403", "404"} :
       /\ request[1] # "d"
       /\ conn' = [conn EXCEPT ![p].state = "answered", ![p].code = code,
                     ![p].did = request, ![p].read = NothingRead]
  /\ UNCHANGED <<world, clientVars, serverVars, net, left>>

\* The handler finds no command in what it has read: 300, or nothing at all if
\* there is no space among its first ten characters.
AnswerUnknown(p) ==
  /\ ended = "no" /\ conn[p].state = "line" /\ ~Understood(p)
  /\ \E code \in {"300", "none"} :
       conn' = [conn EXCEPT ![p].state = "answered", ![p].code = code,
                  ![p].read = NothingRead]
  /\ UNCHANGED <<world, clientVars, serverVars, net, left>>

\* receive_data: bytes of the answer.
ReceiveAnswer(p) ==
  LET c == conn[p]
  IN  /\ client[p].pc = "receiving" /\ c.state = "answered" /\ c.code # "none"
      /\ c.back < CodeLen
      /\ \E n \in (c.back + 1)..CodeLen :
           /\ ~May("pieces") => n = CodeLen
           /\ conn' = [conn EXCEPT ![p].back = n]
  /\ UNCHANGED <<world, clientVars, serverVars, net, left>>

\* The handler closed with bytes of the request unread: the answer may be lost, and
\* recv fails.
Reset(p) ==
  /\ client[p].pc = "receiving" /\ conn[p].state = "answered"
  /\ conn[p].taken < Length(p) /\ conn[p].back < CodeLen
  /\ Over(p)
  /\ conn' = [conn EXCEPT ![p] = NoConnection]
  /\ UNCHANGED <<world, shown, mine, serverVars, left>>

\* recv answers 0 when the server has closed: receive_data calls it for ever.
Spin(p) ==
  /\ client[p].pc = "receiving" /\ conn[p].back < CodeLen
  /\ \/ conn[p].state = "answered" /\ conn[p].code = "none"
     \/ ended # "no" /\ conn[p].state # "answered"
  /\ client' = [client EXCEPT ![p].pc = "spinning"]
  /\ UNCHANGED <<world, conn, port, hearing, shown, mine, serverVars, net, left>>

\* execute_command has the answer.  The run goes on to wait after 200, 201 and 202,
\* with -w; otherwise it is over.
Finish(p) ==
  LET code == conn[p].code
      choice == client[p].choice
      success == code \in {"200", "201", "202"}
  IN  /\ client[p].pc = "receiving" /\ conn[p].back = CodeLen
      /\ mine' = IF choice.command = "d" /\ code \in {"200", "400"}
                 THEN mine \ {choice.value}
                 ELSE IF choice.command # "d" /\ success THEN mine \cup {choice.value}
                 ELSE mine
      /\ IF success /\ choice.wait
         THEN /\ client' = [client EXCEPT ![p].pc = "waiting"]
              /\ UNCHANGED <<port, hearing, net>>
         ELSE Over(p)
      /\ conn' = [conn EXCEPT ![p] = NoConnection]
  /\ UNCHANGED <<world, shown, serverVars, left>>

\* A handler whose client is gone has answered.
HandlerOver(p) ==
  /\ conn[p].state = "answered" /\ ~conn[p].open
  /\ conn' = [conn EXCEPT ![p] = NoConnection]
  /\ UNCHANGED <<world, clientVars, serverVars, net, left>>

\* The user ends a run that does not come to an end.
Interrupt(p) ==
  /\ May("rude") /\ client[p].pc \in {"sending", "receiving", "spinning"}
  /\ Over(p)
  /\ conn' = [conn EXCEPT ![p].open = FALSE]
  /\ UNCHANGED <<world, shown, mine, serverVars, left>>

\* getchar returns: the run is over.
Key(p) ==
  /\ client[p].pc = "waiting" /\ MayEnd(p)
  /\ Over(p)
  /\ UNCHANGED <<world, conn, shown, mine, serverVars, left>>

-----------------------------------------------------------------------------
(* The updates.                                                            *)

\* The monitor puts updates in the host's queue, or that a directory was deleted,
\* which ends its registration.
Queue ==
  /\ ended = "no" /\ updates = <<>> /\ registered # {}
  /\ \E n \in 1..2 :
     \E bodies \in [1..n -> Bodies \cup IF May("long") THEN LongBodies ELSE {}],
        d \in registered \cup {None} :
       LET all == IF d = None THEN bodies ELSE Append(Front(bodies), GoneBody(d))
       IN  /\ n <= left.notes
           /\ updates' = all
           /\ registered' = registered \ {d}
           /\ left' = [left EXCEPT !.notes = @ - n]
  /\ refused' = FALSE
  /\ UNCHANGED <<world, clientVars, conn, ended, net>>

\* cnl_send_notifications: one send of each update, from one socket; the first that
\* reaches a closed port may let the next one fail, and the server ends.
SendUpdate ==
  /\ ended = "no" /\ updates # <<>>
  /\ IF refused
     THEN ended' = "refused" /\ UNCHANGED <<updates, refused, net, left>>
     ELSE /\ updates' = Tail(updates)
          /\ IF port = None
             THEN refused' \in BOOLEAN /\ UNCHANGED <<net, left>>
             ELSE /\ \/ net' = Append(net, Text(Head(updates))) /\ UNCHANGED left
                     \/ /\ May("loss") /\ left.faults > 0
                        /\ left' = [left EXCEPT !.faults = @ - 1]
                        /\ UNCHANGED net
                  /\ UNCHANGED refused
          /\ UNCHANGED ended
  /\ UNCHANGED <<world, clientVars, conn, registered>>

\* The user reads that a directory was deleted.
Forgotten(text) == {d \in Dirs : text = Text(GoneBody(d))}

HearKeepingState(datagram) == \* mutant: state is not set back
  LET u == Fed(hearing, datagram)
  IN  IF Complete(u)
      THEN /\ hearing' = [u EXCEPT !.text = <<>>]
           /\ shown' = u.text /\ mine' = mine \ Forgotten(u.text)
      ELSE hearing' = u /\ UNCHANGED <<shown, mine>>

\* The thread takes in a datagram and prints the update it completes.
Hear(datagram) ==
  LET u == Fed(hearing, datagram)
  IN  IF Complete(u)
      THEN hearing' = EmptyUpdate /\ shown' = u.text /\ mine' = mine \ Forgotten(u.text)
      ELSE hearing' = u /\ UNCHANGED <<shown, mine>>

\* A datagram arrives at the port.
Arrive ==
  /\ net # <<>>
  /\ \E i \in DOMAIN net :
       /\ ~May("delay") => i = 1
       /\ \/ net' = RemoveAt(net, i) /\ UNCHANGED left
          \/ /\ May("duplicate") /\ left.faults > 0
             /\ left' = [left EXCEPT !.faults = @ - 1]
             /\ UNCHANGED net
       /\ IF port = None THEN UNCHANGED <<hearing, shown, mine>> ELSE Hear(net[i])
  /\ UNCHANGED <<world, client, port, conn, serverVars>>

StopServer ==
  /\ May("stop") /\ ended = "no"
  /\ ended' = "own"
  /\ UNCHANGED <<world, clientVars, conn, registered, updates, refused, net, left>>

-----------------------------------------------------------------------------
Init ==
  /\ world \in Worlds
  /\ client = [p \in Proc |-> Off]
  /\ conn = [p \in Proc |-> NoConnection]
  /\ port = None
  /\ hearing = EmptyUpdate
  /\ shown = <<>>
  /\ mine = {}
  /\ registered = {} /\ updates = <<>> /\ refused = FALSE /\ ended = "no"
  /\ net = <<>>
  /\ left = [runs |-> world.runs, notes |-> world.notes, faults |-> 1]

ClientStep(p) ==
  \/ ExitOnOptions(p) \/ LoadSettings(p) \/ ExitOnSettings(p) \/ OpenPort(p)
  \/ NothingToDo(p) \/ Connect(p)
  \/ Send(p) \/ ReceiveAnswer(p) \/ Reset(p) \/ Spin(p) \/ Finish(p)

HandlerStep(p) ==
  \/ Receive(p) \/ ReceiveNothing(p) \/ Answer(p) \/ Refuse(p) \/ AnswerUnknown(p)
  \/ HandlerOver(p)

Next ==
  \/ \E p \in Proc : Start(p) \/ ClientStep(p) \/ HandlerStep(p) \/ Interrupt(p) \/ Key(p)
  \/ Queue \/ SendUpdate \/ Arrive \/ StopServer

Spec == Init /\ [][Next]_vars

Fairness ==
  /\ \A p \in Proc : WF_vars(ClientStep(p)) /\ WF_vars(HandlerStep(p))
  /\ WF_vars(SendUpdate) /\ WF_vars(Arrive)

FairSpec == Spec /\ Fairness

-----------------------------------------------------------------------------
(* Properties.                                                             *)

Pc == {"off", "options", "settings", "ready", "sending", "receiving", "spinning", "waiting"}

\* Type invariant.  What the handler reads is as long as it can be.
TypeOK ==
  /\ world \in Worlds
  /\ \A p \in Proc :
       /\ client[p].pc \in Pc
       /\ conn[p].state \in {"none", "reading", "line", "answered"}
       /\ conn[p].asked # <<>> => conn[p].taken <= conn[p].sent /\ conn[p].sent <= Length(p)
       /\ conn[p].back \in 0..CodeLen /\ conn[p].code \in Codes \cup {"none"}
  /\ port \in Proc \cup {None}
  /\ hearing.state \in 0..4
  /\ mine \subseteq Dirs /\ registered \subseteq Dirs \cup {Elsewhere}
  /\ refused \in BOOLEAN /\ ended \in {"no", "own", "refused"}
  /\ left.runs \in 0..world.runs /\ left.notes \in 0..world.notes /\ left.faults \in 0..1

\* The arguments without "-t", which main takes for an option without a value
\* (client.c:175) and for a command.
UsesNoT(args) == Option("t") \notin Range(args)

\* main takes a command line without "-t" for what the grammar in params_parser.h and
\* the list in client.c:8 make of it: the client goes on with the first command and its
\* own value, and waits if the user said "-w"; it goes on with nothing that is outside
\* the grammar, and refuses nothing that is in it but values that begin with a dash.
CommandIsTheUsers ==
  \A p \in Proc :
    client[p].pc = "options" /\ UsesNoT(client[p].args)
      => UnderstoodAs(client[p].args, client[p].choice)

\* "PVALUE an PNAME have no restrictions" (params_parser.h:9): main refuses nothing
\* that the grammar makes something of.
GrammarIsAccepted ==
  \A p \in Proc :
    client[p].pc = "options" /\ UsesNoT(client[p].args) /\ client[p].choice = Exit
      => Groups(client[p].args) = {}

\* "pwv is the set of options that requires a value" (client.c:6): a command that is
\* one of them goes on with a value.
CommandsHaveValues ==
  \A p \in Proc :
    client[p].pc = "options" /\ client[p].choice.command \in Commands
      => client[p].choice.value # NoValue

\* "first, we get the entire text sent, terminated with a newline"
\* (tcp_server.c:96): what the handler goes on with is what the client sent.
RequestIsRead ==
  \A p \in Proc :
    conn[p].state = "line" /\ conn[p].asked # <<>> => Understood(p)

\* The settings a file gives, in its order, and the lines it gets wrong: those that
\* are no setting, or hold what no token begins with.
Given(lines) ==
  LET given == SelectSeq(lines, LAMBDA l : l.kind = "setting")
  IN  [k \in DOMAIN given |-> Setting(given[k].name, given[k].value)]
IsWrong(line) == line.kind \in {"malformed", "unreadable"}

\* parse_settings takes over the settings of the file, all of them and in order, and
\* the address is that of the first line to give one; it fails when a line is
\* malformed, and only when a line is wrong or has no end ("Every line must be ended
\* by a return character", settings_parser.h:25).  For files without a line that
\* holds an unreadable character.
SettingsAreTheFiles ==
  \A p \in Proc :
    LET lines == client[p].lines
        settings == client[p].settings
        addresses == SelectSeq(Given(lines), LAMBDA s : s.name = <<"a">>)
    IN  client[p].pc = "settings" /\ (\A l \in Range(lines) : l.kind # "unreadable") =>
          /\ settings.ok =>
               /\ \A l \in Range(lines) : l.kind # "malformed"
               /\ settings.list = Given(lines)
               /\ Address(p) = IF addresses = <<>> THEN <<>> ELSE Head(addresses).value
          /\ (\A l \in Range(lines) : l.kind \in {"setting", "blank"}) => settings.ok

\* "Returns 0 in case of success, -1 in case of error" (settings_parser.h:31): a file
\* with a line that is wrong is not taken for a good one.
ErrorsAreReported ==
  \A p \in Proc :
    client[p].pc = "settings" /\ client[p].settings.ok
      => \A l \in Range(client[p].lines) : ~IsWrong(l)

\* A request that comes in one piece is done as it was sent, for the directory the
\* user named and no other, whatever this run's and other runs' handlers read before.
RequestIsDone ==
  ~May("pieces") =>
    \A p \in Proc :
      conn[p].state = "answered" /\ conn[p].asked # <<>>
        /\ conn[p].sent = Length(p) /\ Length(p) <= BuffSize
      => conn[p].did = conn[p].asked

Careful == world.may \cap {"rude", "pieces", "delay", "duplicate"} = {}

\* While the server has the host registered, or anything to send it, the UDP port is
\* open: the thread of client_server is there before the command is sent, and nothing
\* is sent to a host that was told it is unregistered.  (An update to a closed port
\* can end the server.)  For a user who ends the program only when he knows of no
\* registration, and while no deletion is told after the next registration.
ClosedPortGetsNothing ==
  Careful /\ ended = "no" => (registered # {} \/ updates # <<>> => port # None)

\* Every update is printed whole, by itself, and at once, however datagrams are lost,
\* doubled and reordered, while it fits into the client's buffer.
UpdatesAreWhole ==
  ~May("long") =>
    /\ shown \in {<<>>} \cup {Text(b) : b \in Bodies \cup {GoneBody(d) : d \in Dirs \cup {Elsewhere}}}
    /\ hearing = EmptyUpdate

\* A command that reaches the handler in one piece is answered, and the run goes on
\* or is over, unless the server ends; the lock the handler waits for is released
\* though other runs of the program come and go.
CommandIsAnswered ==
  \A p \in Proc :
    (client[p].pc = "receiving" /\ ~May("pieces") /\ Length(p) <= BuffSize)
      ~> (client[p].pc \in {"off", "waiting"} \/ ended # "no")
=============================================================================
