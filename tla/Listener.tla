------------------------------ MODULE Listener ------------------------------
(***************************************************************************)
(* The control socket of a node (src/src/listener.cpp, control.cpp) inside *)
(* the loop of main(): select, doAccept, checkFds, tox_iterate, all in the *)
(* main thread, and the clients at the other ends of the connections.  A   *)
(* node without a socket has one Control on standard input, the console,   *)
(* which main reads as if it were the only connection.                     *)
(*                                                                         *)
(* A connection is read through a FILE: what a client wrote waits in the   *)
(* kernel (sock), getline moves all of it into the FILE's buffer (stdio)   *)
(* and takes one line from there.  select sees the kernel's part only.     *)
(* A line is its text, "ask" for a command that is answered and "do" for   *)
(* one that is not (bootstrap, a whitelist that succeeds, an unknown       *)
(* word), and its end, "nl".                                               *)
(*                                                                         *)
(* Sockets and stdio are external: getline waits in read for the end of a  *)
(* line, and returns the part it has at the end of the stream or when a    *)
(* signal interrupts the read (sigaction is called without SA_RESTART); a  *)
(* write to a connection whose client has closed it raises SIGPIPE, for    *)
(* which main installs no handler.                                         *)
(***************************************************************************)
EXTENDS Naturals, Sequences, SequencesExt

CONSTANTS Client,    \* connections clients may open, each once
          MaxLines   \* bound: lines each client sends on its connection

ASSUME MaxLinesAssumption == MaxLines \in [Client -> Nat]

Text == {"ask", "do"}
Symbol == Text \cup {"nl"}

VARIABLES
  keep_running,  \* the global SIGINT clears
  pc,            \* main thread: where it is
  console,       \* the Control on standard input, if the node has no socket
  pending,       \* connections accept has not returned yet, in order
  connections,   \* SocketListener::connections
  held,          \* accepted connections whose descriptor is open
  readset,       \* the listener's socket aside: what select found readable
  cursor,        \* checkFds's iterator
  client,        \* client's end: "away", "open", "half" (it has shut down
                 \* its sending side) or "closed"
  sock,          \* what a client wrote and the node has not read
  stdio,         \* what getline read and has not returned
  midline,       \* clients that began a line and have not ended it
  begun,         \* history: lines a client began
  executed       \* history: commands executed for a client

loop == <<keep_running, pc, console>>
server == <<pending, connections, held, readset, cursor>>
ends == <<client, sock, midline, begun>>
vars == <<loop, server, ends, stdio, executed>>

Stopped == pc \in {"ended", "killed"}
Finished(c) == client[c] \in {"half", "closed"}

Init ==
  /\ keep_running = TRUE
  /\ pc = "top"
  /\ pending = <<>>
  /\ \/ console = {} /\ connections = <<>>
     \/ \E c \in Client : console = {c} /\ connections = <<c>>
  /\ held = console
  /\ readset = {}
  /\ cursor = 1
  /\ client = [c \in Client |-> IF c \in console THEN "open" ELSE "away"]
  /\ sock = [c \in Client |-> <<>>]
  /\ stdio = [c \in Client |-> <<>>]
  /\ midline = {}
  /\ begun = [c \in Client |-> 0]
  /\ executed = [c \in Client |-> 0]
-----------------------------------------------------------------------------
(* The clients *)

Connect(c) ==
  /\ console = {}
  /\ client[c] = "away"
  /\ client' = [client EXCEPT ![c] = "open"]
  /\ pending' = Append(pending, c)
  /\ UNCHANGED <<loop, connections, held, readset, cursor, sock, stdio, midline, begun, executed>>

Write(c, symbol) ==
  /\ client[c] = "open"
  /\ sock' = [sock EXCEPT ![c] = Append(@, symbol)]
  /\ UNCHANGED <<loop, server, client, stdio, executed>>

BeginLine(c, text) ==
  /\ c \notin midline
  /\ begun[c] < MaxLines[c]
  /\ Write(c, text)
  /\ midline' = midline \cup {c}
  /\ begun' = [begun EXCEPT ![c] = @ + 1]

EndLine(c) ==
  /\ c \in midline
  /\ Write(c, "nl")
  /\ midline' = midline \ {c}
  /\ UNCHANGED begun

\* shutdown of the sending side, or close; in the middle of a line or not.
\* Nobody closes the console: a terminal that hangs up ends the process.
Finish(c, how) ==
  /\ how = "closed" => c \notin console
  /\ client[c] \in IF how = "half" THEN {"open"} ELSE {"open", "half"}
  /\ client' = [client EXCEPT ![c] = how]
  /\ UNCHANGED <<loop, server, sock, midline, begun, stdio, executed>>

ClientStep ==
  /\ ~Stopped
  /\ \E c \in Client :
       \/ Connect(c)
       \/ \E text \in Text : BeginLine(c, text)
       \/ EndLine(c)
       \/ \E how \in {"half", "closed"} : Finish(c, how)
-----------------------------------------------------------------------------
(* getline and handleReadData *)

\* read returns 0
AtEnd(c) == sock[c] = <<>> /\ Finished(c)

HasLine(c) == "nl" \in Range(stdio[c])

\* read would wait
Blocked(c) == ~HasLine(c) /\ sock[c] = <<>> /\ ~Finished(c)

\* the connection the iterator is at, when it is to be read
Reading(c) ==
  /\ pc = "check"
  /\ cursor <= Len(connections)
  /\ c = connections[cursor]
  /\ c \in readset

\* the command of the text at the head of stdio[c] runs; rest stays there.
\* The answer goes out in fflush: SIGPIPE if nobody is there to read it.
Run(c, rest) ==
  /\ executed' = [executed EXCEPT ![c] = @ + 1]
  /\ stdio' = [stdio EXCEPT ![c] = rest]
  /\ IF Head(stdio[c]) = "ask" /\ client[c] = "closed"
       THEN pc' = "killed" /\ UNCHANGED cursor
       ELSE cursor' = cursor + 1 /\ UNCHANGED pc
  /\ UNCHANGED <<pending, connections, held, readset, ends>>

\* getline has no whole line: read what the kernel has
FillBuffer(c) ==
  /\ Reading(c)
  /\ ~HasLine(c)
  /\ sock[c] # <<>>
  /\ stdio' = [stdio EXCEPT ![c] = @ \o sock[c]]
  /\ sock' = [sock EXCEPT ![c] = <<>>]
  /\ UNCHANGED <<loop, server, client, midline, begun, executed>>

\* mistake: read instead of getline, whatever it returns is a command
ExecuteWhatIsThere(c) ==
  /\ Reading(c)
  /\ stdio[c] # <<>>
  /\ Run(c, <<>>)
  /\ UNCHANGED <<keep_running, console>>

\* mistake: the line that ran stays in the buffer
ExecuteKeeps(c) ==
  /\ Reading(c)
  /\ stdio[c] # <<>>
  /\ HasLine(c) \/ AtEnd(c)
  /\ Run(c, stdio[c])
  /\ UNCHANGED <<keep_running, console>>

\* getline returns a whole line, or the last part of the stream
Execute(c) ==
  /\ Reading(c)
  /\ stdio[c] # <<>>
  /\ HasLine(c) \/ AtEnd(c)
  /\ Run(c, IF HasLine(c) THEN Tail(Tail(stdio[c])) ELSE <<>>)
  /\ UNCHANGED <<keep_running, console>>

\* mistake: the first connection of the list, not the one that ended
EraseFront(c) ==
  /\ Reading(c)
  /\ c \notin console
  /\ stdio[c] = <<>>
  /\ AtEnd(c)
  /\ connections' = Tail(connections)
  /\ pc' = "iterate"
  /\ UNCHANGED <<keep_running, console, pending, held, readset, cursor, ends, stdio, executed>>

\* mistake: return without erase
EraseNothing(c) ==
  /\ Reading(c)
  /\ c \notin console
  /\ stdio[c] = <<>>
  /\ AtEnd(c)
  /\ pc' = "iterate"
  /\ UNCHANGED <<keep_running, console, server, ends, stdio, executed>>

\* getline returns -1: checkFds erases the connection and returns at once.
\* Neither the Control nor its FILEs are destroyed: the descriptor stays open.
Erase(c) ==
  /\ Reading(c)
  /\ c \notin console
  /\ stdio[c] = <<>>
  /\ AtEnd(c)
  /\ connections' = RemoveAt(connections, cursor)
  /\ pc' = "iterate"
  /\ UNCHANGED <<keep_running, console, pending, held, readset, cursor, ends, stdio, executed>>

\* the end of standard input: main does not look at the -1 and will come back
ConsoleEnd(c) ==
  /\ Reading(c)
  /\ c \in console
  /\ stdio[c] = <<>>
  /\ AtEnd(c)
  /\ pc' = "iterate"
  /\ UNCHANGED <<keep_running, console, server, ends, stdio, executed>>
-----------------------------------------------------------------------------
(* The loop of main *)

\* while(keep_running)
Turn ==
  /\ pc = "top"
  /\ pc' = IF keep_running THEN "select" ELSE "ended"
  /\ UNCHANGED <<keep_running, console, server, ends, stdio, executed>>

\* what select finds readable among the connections
Readable == {c \in Range(connections) : sock[c] # <<>> \/ Finished(c)}

\* mistake: accept whenever select finds something
SelectReadyAccepts ==
  /\ pc = "select"
  /\ Readable # {} \/ pending # <<>>
  /\ readset' = Readable
  /\ cursor' = 1
  /\ pc' = "accept"
  /\ UNCHANGED <<keep_running, console, pending, connections, held, ends, stdio, executed>>

\* select finds something
SelectReady ==
  /\ pc = "select"
  /\ Readable # {} \/ pending # <<>>
  /\ readset' = Readable
  /\ cursor' = 1
  /\ pc' = IF pending # <<>> THEN "accept" ELSE "check"
  /\ UNCHANGED <<keep_running, console, pending, connections, held, ends, stdio, executed>>

\* select times out, or SIGINT interrupted it
SelectIdle ==
  /\ pc = "select"
  /\ keep_running => Readable = {} /\ pending = <<>>
  /\ pc' = "iterate"
  /\ UNCHANGED <<keep_running, console, server, ends, stdio, executed>>

\* mistake: the new connection is read at once, as if select had found it
DoAcceptReads ==
  /\ pc = "accept"
  /\ connections' = Append(connections, Head(pending))
  /\ held' = held \cup {Head(pending)}
  /\ pending' = Tail(pending)
  /\ readset' = readset \cup {Head(pending)}
  /\ pc' = "check"
  /\ UNCHANGED <<keep_running, console, cursor, ends, stdio, executed>>

\* one connection, checked in this turn but not in the readset
DoAccept ==
  /\ pc = "accept"
  /\ connections' = Append(connections, Head(pending))
  /\ held' = held \cup {Head(pending)}
  /\ pending' = Tail(pending)
  /\ pc' = "check"
  /\ UNCHANGED <<keep_running, console, readset, cursor, ends, stdio, executed>>

\* mistake: the iterator stays where it is
SkipStays ==
  /\ pc = "check"
  /\ cursor <= Len(connections)
  /\ connections[cursor] \notin readset
  /\ UNCHANGED vars

\* checkFds: a connection that is not readable
Skip ==
  /\ pc = "check"
  /\ cursor <= Len(connections)
  /\ connections[cursor] \notin readset
  /\ cursor' = cursor + 1
  /\ UNCHANGED <<loop, pending, connections, held, readset, ends, stdio, executed>>

CheckDone ==
  /\ pc = "check"
  /\ cursor > Len(connections)
  /\ pc' = "iterate"
  /\ UNCHANGED <<keep_running, console, server, ends, stdio, executed>>

\* tox_iterate, the bootstrap timer
Iterate ==
  /\ pc = "iterate"
  /\ pc' = "top"
  /\ UNCHANGED <<keep_running, console, server, ends, stdio, executed>>

MainStep ==
  \/ Turn
  \/ SelectReady
  \/ SelectIdle
  \/ DoAccept
  \/ \E c \in Client : FillBuffer(c) \/ Execute(c) \/ Erase(c) \/ ConsoleEnd(c)
  \/ Skip
  \/ CheckDone
  \/ Iterate

\* handle_int in a thread that does not wait in getline: the reader thread,
\* or main at any other place
Interrupt ==
  /\ keep_running
  /\ ~Stopped
  /\ keep_running' = FALSE
  /\ UNCHANGED <<pc, console, server, ends, stdio, executed>>

\* handle_int while main waits in getline: the read fails with EINTR and
\* getline returns the part of a line it has, which runs as a command
InterruptGetline(c) ==
  /\ keep_running
  /\ Reading(c)
  /\ Blocked(c)
  /\ stdio[c] # <<>>
  /\ keep_running' = FALSE
  /\ UNCHANGED console
  /\ Run(c, <<>>)

\* a process that has ended stays so
Ended == Stopped /\ UNCHANGED vars

Next ==
  \/ MainStep
  \/ ClientStep
  \/ Interrupt
  \/ \E c \in Client : InterruptGetline(c)
  \/ Ended

Spec == Init /\ [][Next]_vars

\* The main thread runs when it can, and clients end the lines they begin.
FairSpec ==
  /\ Spec
  /\ WF_vars(MainStep)
  /\ \A c \in Client : WF_vars(~Stopped /\ EndLine(c))
-----------------------------------------------------------------------------
(* Properties *)

TypeOK ==
  /\ keep_running \in BOOLEAN
  /\ pc \in {"top", "select", "accept", "check", "iterate", "ended", "killed"}
  /\ console \subseteq Client
  /\ pending \in Seq(Client)
  /\ connections \in Seq(Client)
  /\ held \subseteq Client
  /\ readset \subseteq Client
  /\ cursor \in Nat \ {0}
  /\ client \in [Client -> {"away", "open", "half", "closed"}]
  /\ sock \in [Client -> Seq(Symbol)]
  /\ stdio \in [Client -> Seq(Symbol)]
  /\ midline \subseteq Client
  /\ begun \in [Client -> Nat]
  /\ executed \in [Client -> Nat]
  /\ pc = "accept" => pending # <<>>

\* every command executed, and the connection off the list
Served(c) ==
  /\ sock[c] = <<>> /\ stdio[c] = <<>> /\ executed[c] = begun[c]
  /\ c \notin console => c \in held \ Range(connections)

\* A connection leaves the list only when its client has finished and each
\* of its commands was executed once: the early return after erase, the
\* stale readset and the buffers lose and repeat nothing.
ErasedAreServed ==
  \A c \in held \ Range(connections) :
    Finished(c) /\ Served(c)

\* While the node is not told to end, a client in the middle of a line has
\* that line to come: no part of it has run, however its bytes arrive.
OnlyWholeLines ==
  \A c \in Client :
    keep_running /\ client[c] = "open" /\ c \in midline => executed[c] < begun[c]

\* getline makes main wait only for the rest of a line that a client has begun:
\* no connection is read that select did not find, or twice, with nothing there.
OnlyLinesAwaited ==
  \A c \in Client : Reading(c) /\ Blocked(c) => stdio[c] # <<>>

Session(c) == INSTANCE Session WITH
  said <- begun[c],
  done <- executed[c],
  finished <- Finished(c),
  left <- c \in held \ Range(connections)

\* However lines arrive and whatever the other clients do, each client's session
\* behaves as Session: no command runs twice, early or after the connection went.
SessionsServed ==
  /\ \A c \in Client : Session(c)!Init
  /\ [][\A c \in Client : [Session(c)!Next]_(Session(c)!vars)]_vars

\* Every client that finishes, and a console at the end of its input, is served
\* to the last command and a client's connection taken off the list, unless the
\* node ends first.
FinishedAreServed == \A c \in Client : Finished(c) ~> (Served(c) \/ Stopped)

\* SIGINT ends the loop, whatever main was doing, if clients end their lines.
InterruptEndsLoop == ~keep_running ~> Stopped

\* "Control the instance using the socket" says the ACL user guide, with one
\* nc per command: a client that leaves does not end the node.
NodeSurvivesClients == pc # "killed"
=============================================================================
