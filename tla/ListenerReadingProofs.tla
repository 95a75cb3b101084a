----------------------- MODULE ListenerReadingProofs -----------------------
(***************************************************************************)
(* More proofs about Listener, for any clients and any number of lines:    *)
(* what main waits for when it reads a connection, and that every client's *)
(* session behaves as Session.                                             *)
(***************************************************************************)
EXTENDS ListenerProofs

(* What select found to read is there until the iterator has passed. *)

\* reading c does not wait, or waits for the end of a line
Something(c) == stdio[c] # <<>> \/ sock[c] # <<>> \/ Finished(c)

Selected ==
  /\ pc = "accept" => readset \subseteq Range(connections)
  /\ pc \in {"accept", "check"} =>
       \A i \in cursor..Len(connections) :
         connections[i] \in readset => Something(connections[i])

ReadInv == IInv /\ Selected
-----------------------------------------------------------------------------
(* Steps *)

\* A step that takes nothing away that there is to read.
LEMMA SelectionStays ==
  ASSUME TypeOK, Selected, UNCHANGED <<pc, connections, readset, cursor>>,
         \A c \in Client : Something(c) => Something(c)'
  PROVE  Selected'
<1>1. \A i \in cursor..Len(connections) : connections[i] \in Client
  BY DEF TypeOK
<1> QED BY <1>1 DEF Selected

LEMMA InitReadInv == Init => ReadInv
<1>1. Init => pc = "top"
  BY DEF Init
<1> QED BY <1>1, InitIInv DEF ReadInv, Selected

\* The iterator goes on, past the only entry of the connection that was read.
LEMMA PassedOn ==
  ASSUME ReadInv, NEW c \in Client, pc = "check",
         cursor <= Len(connections), connections[cursor] = c,
         pc' \in {"check", "killed"}, pc' = "check" => cursor' = cursor + 1,
         UNCHANGED <<connections, readset>>,
         \A d \in Client \ {c} : Something(d) => Something(d)'
  PROVE  Selected'
<1>1. /\ connections \in Seq(Client) /\ cursor \in Nat \ {0} /\ Len(connections) \in Nat
      /\ Distinct(connections)
  BY DEF ReadInv, IInv, TypeOK, OnePlace
<1>2. SUFFICES ASSUME cursor' = cursor + 1, NEW i \in (cursor + 1)..Len(connections),
                      connections[i] \in readset
               PROVE  Something(connections[i])'
  BY DEF Selected
<1>3. i \in cursor..Len(connections) /\ i # cursor /\ i \in 1..Len(connections)
      /\ cursor \in 1..Len(connections)
  BY <1>1, <1>2
<1>4. connections[i] \in Client /\ connections[i] # c
  BY <1>1, <1>3 DEF Distinct
<1>5. Something(connections[i])
  BY <1>2, <1>3 DEF ReadInv, Selected
<1> QED BY <1>4, <1>5

LEMMA ClientSelected ==
  ASSUME ReadInv, ClientStep
  PROVE  Selected'
<1>1. TypeOK /\ Selected
  BY DEF ReadInv, IInv
<1>2. UNCHANGED <<pc, connections, readset, cursor, stdio>>
  BY DEF ClientStep, Connect, BeginLine, EndLine, Write, Finish, loop, server
<1>3. PICK c \in Client : \/ Connect(c)
                          \/ \E text \in Text : BeginLine(c, text)
                          \/ EndLine(c)
                          \/ \E how \in {"half", "closed"} : Finish(c, how)
  BY DEF ClientStep
<1>4. CASE Connect(c)
  <2>1. client' = [client EXCEPT ![c] = "open"] /\ client[c] = "away" /\ UNCHANGED sock
    BY <1>4 DEF Connect
  <2>2. \A d \in Client : Something(d) => Something(d)'
    BY <1>1, <1>2, <2>1 DEF Something, Finished, TypeOK
  <2> QED BY <1>1, <1>2, <2>2, SelectionStays
<1>5. CASE \/ \E text \in Text : BeginLine(c, text)
           \/ EndLine(c)
  <2>1. PICK x \in Symbol : Write(c, x)
    BY <1>5 DEF BeginLine, EndLine, Symbol
  <2>2. sock' = [sock EXCEPT ![c] = Append(@, x)] /\ UNCHANGED client
    BY <2>1 DEF Write
  <2>3. sock \in [Client -> Seq(Symbol)]
    BY <1>1 DEF TypeOK
  <2>4. \A d \in Client : sock[d] # <<>> => sock'[d] # <<>>
    <3>1. ASSUME NEW s \in Seq(Symbol) PROVE Append(s, x) # <<>>
      BY AppendProperties
    <3> QED BY <2>2, <2>3, <3>1
  <2>5. \A d \in Client : Something(d) => Something(d)'
    BY <1>2, <2>2, <2>4 DEF Something, Finished
  <2> QED BY <1>1, <1>2, <2>5, SelectionStays
<1>6. CASE \E how \in {"half", "closed"} : Finish(c, how)
  <2>1. PICK how \in {"half", "closed"} : Finish(c, how)
    BY <1>6
  <2>2. client' = [client EXCEPT ![c] = how] /\ UNCHANGED sock
    BY <2>1 DEF Finish
  <2>3. \A d \in Client : Finished(d) => Finished(d)'
    BY <1>1, <2>2 DEF TypeOK, Finished
  <2>4. \A d \in Client : Something(d) => Something(d)'
    BY <1>2, <2>2, <2>3 DEF Something
  <2> QED BY <1>1, <1>2, <2>4, SelectionStays
<1> QED BY <1>3, <1>4, <1>5, <1>6

\* The command of the connection at the iterator runs, and the iterator goes on.
LEMMA RunSelected ==
  ASSUME ReadInv, NEW c \in Client, NEW rest, Reading(c), Run(c, rest)
  PROVE  Selected'
<1>1. TypeOK
  BY DEF ReadInv, IInv
<1>2. /\ UNCHANGED <<connections, readset, client, sock>>
      /\ stdio' = [stdio EXCEPT ![c] = rest]
      /\ pc' = "killed" \/ (pc' = pc /\ cursor' = cursor + 1)
  BY DEF Run, ends
<1>3. \A d \in Client \ {c} : Something(d) => Something(d)'
  BY <1>1, <1>2 DEF Something, Finished, TypeOK
<1> QED BY <1>2, <1>3, PassedOn DEF Reading

LEMMA DoAcceptSelected ==
  ASSUME ReadInv, DoAccept
  PROVE  Selected'
<1>1. TypeOK /\ OnePlace /\ Selected
  BY DEF ReadInv, IInv
<1>2. /\ pc = "accept" /\ pc' = "check"
      /\ connections' = Append(connections, Head(pending))
      /\ UNCHANGED <<readset, cursor, client, sock, stdio>>
  BY DEF DoAccept, ends
<1>3. /\ connections \in Seq(Client) /\ cursor \in Nat \ {0} /\ Len(connections) \in Nat
  BY <1>1 DEF TypeOK
<1>4. Head(pending) \in Client /\ Head(pending) \notin Range(connections)
  BY <1>1, DoAcceptPlaces
<1>5. /\ Len(connections') = Len(connections) + 1
      /\ \A i \in 1..Len(connections) : connections'[i] = connections[i]
      /\ connections'[Len(connections) + 1] = Head(pending)
  BY <1>2, <1>3, <1>4, AppendProperties
<1>6. SUFFICES ASSUME NEW i \in cursor..(Len(connections) + 1), connections'[i] \in readset
               PROVE  Something(connections[i])'
  BY <1>2, <1>5 DEF Selected
<1>7. i # Len(connections) + 1
  BY <1>1, <1>2, <1>4, <1>5, <1>6 DEF Selected
<1>8. i \in cursor..Len(connections) /\ i \in 1..Len(connections)
  BY <1>3, <1>6, <1>7
<1>9. Something(connections[i]) /\ connections'[i] = connections[i]
  BY <1>1, <1>2, <1>5, <1>6, <1>8 DEF Selected
<1> QED BY <1>2, <1>9 DEF Something, Finished

LEMMA MainSelected ==
  ASSUME ReadInv, MainStep
  PROVE  Selected'
<1>1. TypeOK /\ Selected
  BY DEF ReadInv, IInv
<1>2. CASE \/ Turn \/ SelectIdle \/ CheckDone \/ Iterate
           \/ \E c \in Client : ConsoleEnd(c) \/ Erase(c)
  BY <1>2 DEF Turn, SelectIdle, CheckDone, Iterate, ConsoleEnd, Erase, Selected
<1>3. CASE SelectReady
  <2>1. UNCHANGED <<connections, client, sock, stdio>> /\ readset' = Readable
    BY <1>3 DEF SelectReady, ends
  <2>2. Readable \subseteq Range(connections) /\ \A c \in Readable : Something(c)
    BY DEF Readable, Something
  <2> QED BY <2>1, <2>2 DEF Selected, Something, Finished
<1>4. ASSUME NEW c \in Client, FillBuffer(c) PROVE Selected'
  <2>1. /\ UNCHANGED <<pc, connections, readset, cursor, client>>
        /\ sock[c] # <<>>
        /\ stdio' = [stdio EXCEPT ![c] = @ \o sock[c]]
        /\ sock' = [sock EXCEPT ![c] = <<>>]
    BY <1>4 DEF FillBuffer, loop, server
  <2>2. stdio \in [Client -> Seq(Symbol)] /\ sock \in [Client -> Seq(Symbol)]
    BY <1>1 DEF TypeOK
  <2>3. stdio'[c] # <<>>
    <3>1. ASSUME NEW s \in Seq(Symbol), NEW u \in Seq(Symbol), u # <<>> PROVE s \o u # <<>>
      BY <3>1
    <3> QED BY <2>1, <2>2, <3>1
  <2>4. \A d \in Client : d # c => stdio'[d] = stdio[d] /\ sock'[d] = sock[d]
    BY <2>1, <2>2
  <2>5. \A d \in Client : Something(d) => Something(d)'
    BY <2>1, <2>3, <2>4 DEF Something, Finished
  <2> QED BY <1>1, <2>1, <2>5, SelectionStays
<1>5. ASSUME NEW c \in Client, Execute(c) PROVE Selected'
  <2>1. (\E rest : Run(c, rest)) /\ Reading(c)
    BY <1>5 DEF Execute
  <2> QED BY <2>1, RunSelected
<1>6. CASE Skip
  <2>1. /\ pc = "check" /\ cursor <= Len(connections)
        /\ connections[cursor] \notin readset
        /\ cursor' = cursor + 1
        /\ UNCHANGED <<pc, connections, readset, client, sock, stdio>>
    BY <1>6 DEF Skip, loop, ends
  <2>2. connections[cursor] \in Client
    BY <1>1, <2>1 DEF TypeOK
  <2>3. \A d \in Client : Something(d) => Something(d)'
    BY <2>1 DEF Something, Finished
  <2> QED BY <2>1, <2>2, <2>3, PassedOn
<1> QED BY <1>2, <1>3, <1>4, <1>5, <1>6, DoAcceptSelected DEF MainStep

LEMMA NextReadInv == ReadInv /\ [Next]_vars => ReadInv'
<1> SUFFICES ASSUME ReadInv, [Next]_vars PROVE Selected'
  BY NextIInv DEF ReadInv
<1>1. TypeOK /\ Selected
  BY DEF ReadInv, IInv
<1>2. CASE Interrupt \/ UNCHANGED vars \/ Ended
  <2>1. UNCHANGED <<pc, connections, readset, cursor, client, sock, stdio>>
    BY <1>2 DEF Interrupt, Ended, vars, loop, server, ends
  <2>2. \A d \in Client : Something(d) => Something(d)'
    BY <2>1 DEF Something, Finished
  <2> QED BY <1>1, <2>1, <2>2, SelectionStays
<1>3. ASSUME NEW c \in Client, InterruptGetline(c) PROVE Selected'
  <2>1. Run(c, <<>>) /\ Reading(c)
    BY <1>3 DEF InterruptGetline
  <2> QED BY <2>1, RunSelected
<1> QED BY <1>2, <1>3, MainSelected, ClientSelected DEF Next

LEMMA Readings == Spec => []ReadInv
BY InitReadInv, NextReadInv, PTL DEF Spec

\* Main waits in getline only for the rest of a line that a client has begun.
THEOREM AwaitsLines == Spec => []OnlyLinesAwaited
<1>1. ASSUME ReadInv PROVE OnlyLinesAwaited
  <2> SUFFICES ASSUME NEW c \in Client, Reading(c), Blocked(c) PROVE stdio[c] # <<>>
    BY DEF OnlyLinesAwaited
  <2>1. cursor \in cursor..Len(connections)
    BY <1>1 DEF ReadInv, IInv, TypeOK, Reading
  <2>2. Something(c)
    BY <1>1, <2>1 DEF ReadInv, Selected, Reading
  <2> QED BY <2>2 DEF Something, Blocked
<1> QED BY <1>1, Readings, PTL
-----------------------------------------------------------------------------
(* Listener implements Session, for each client *)

Left(c) == c \in held \ Range(connections)

SessionStep(c) == [Session(c)!Next]_(Session(c)!vars)

LEMMA SessionRests ==
  ASSUME NEW c \in Client, begun'[c] = begun[c], executed'[c] = executed[c],
         Finished(c)' <=> Finished(c), Left(c)' <=> Left(c)
  PROVE  SessionStep(c)
<1>1. Finished(c)' = Finished(c) /\ Left(c)' = Left(c)
  BY DEF Finished, Left
<1> QED BY <1>1 DEF SessionStep, Session!vars, Left

\* A client says a line, or finishes.
LEMMA SessionSays ==
  ASSUME NEW c \in Client, ~Finished(c), executed'[c] = executed[c],
         Left(c)' <=> Left(c),
         \/ begun'[c] = begun[c] + 1 /\ ~Finished(c)'
         \/ begun'[c] = begun[c] /\ Finished(c)'
  PROVE  SessionStep(c)
<1>1. Left(c)' = Left(c)
  BY DEF Left
<1>2. CASE begun'[c] = begun[c] + 1 /\ ~Finished(c)'
  <2>1. Finished(c)' = Finished(c)
    BY <1>2 DEF Finished
  <2>2. Session(c)!Say
    BY <1>1, <1>2, <2>1 DEF Session!Say, Left
  <2> QED BY <2>2 DEF SessionStep, Session!Next
<1>3. CASE begun'[c] = begun[c] /\ Finished(c)'
  <2>1. Session(c)!Finish
    BY <1>1, <1>3 DEF Session!Finish, Left
  <2> QED BY <2>1 DEF SessionStep, Session!Next
<1> QED BY <1>2, <1>3

\* A line of the client runs.
LEMMA SessionDoes ==
  ASSUME NEW c \in Client, begun'[c] = begun[c], executed'[c] = executed[c] + 1,
         executed[c] < begun[c], ~Left(c),
         Finished(c)' <=> Finished(c), Left(c)' <=> Left(c)
  PROVE  SessionStep(c)
<1>1. Finished(c)' = Finished(c) /\ Left(c)' = Left(c)
  BY DEF Finished, Left
<1>2. Session(c)!Do
  BY <1>1 DEF Session!Do, Left
<1> QED BY <1>2 DEF SessionStep, Session!Next

\* The node lets the client go.
LEMMA SessionLeaves ==
  ASSUME NEW c \in Client, begun'[c] = begun[c], executed'[c] = executed[c],
         executed[c] = begun[c], Finished(c), ~Left(c),
         Finished(c)' <=> Finished(c), Left(c)'
  PROVE  SessionStep(c)
<1>1. Finished(c)' = Finished(c)
  BY DEF Finished
<1>2. Session(c)!Leave
  BY <1>1 DEF Session!Leave, Left
<1> QED BY <1>2 DEF SessionStep, Session!Next

\* A line that waits in the buffer was begun and has not run.
LEMMA CountedAhead ==
  ASSUME NEW s \in Seq(Symbol), NEW t \in Seq(Symbol), NEW e \in Nat, NEW b \in Nat,
         Counted(s, t, e, b), s # <<>>
  PROVE  e < b
<1>1. Len(s) \in Nat \ {0} /\ Len(t) \in Nat
  BY EmptySeq
<1>2. ASSUME NEW m \in Nat \ {0}, NEW n \in Nat PROVE (m + n + 1) \div 2 \in Nat \ {0}
  BY <1>2
<1>3. ASSUME NEW h \in Nat \ {0}, e + h = b PROVE e < b
  BY <1>3
<1>4. e + ((Len(s) + Len(t) + 1) \div 2) = b
  BY DEF Counted
<1> QED BY <1>1, <1>2, <1>3, <1>4

LEMMA ClientSession ==
  ASSUME ReadInv, ClientStep, NEW c \in Client
  PROVE  SessionStep(c)
<1>1. TypeOK
  BY DEF ReadInv, IInv
<1>2. PICK d \in Client : \/ Connect(d)
                          \/ \E text \in Text : BeginLine(d, text)
                          \/ EndLine(d)
                          \/ \E how \in {"half", "closed"} : Finish(d, how)
  BY DEF ClientStep
<1>3. UNCHANGED <<connections, held, executed>>
  BY <1>2 DEF Connect, BeginLine, EndLine, Write, Finish, server
<1>4. Left(c)' <=> Left(c)
  BY <1>3 DEF Left
<1>5. CASE Connect(d) \/ EndLine(d)
  <2>1. UNCHANGED begun /\ (Finished(c)' <=> Finished(c))
    BY <1>1, <1>5 DEF Connect, EndLine, Write, TypeOK, Finished
  <2> QED BY <1>3, <1>4, <2>1, SessionRests
<1>6. CASE \E text \in Text : BeginLine(d, text)
  <2>1. /\ client[d] = "open" /\ UNCHANGED client
        /\ begun' = [begun EXCEPT ![d] = @ + 1]
    BY <1>6 DEF BeginLine, Write
  <2>2. begun \in [Client -> Nat]
    BY <1>1 DEF TypeOK
  <2>3. CASE d = c
    <3>1. begun'[c] = begun[c] + 1 /\ ~Finished(c) /\ ~Finished(c)'
      BY <2>1, <2>2, <2>3 DEF Finished
    <3> QED BY <1>3, <1>4, <3>1, SessionSays
  <2>4. CASE d # c
    <3>1. begun'[c] = begun[c] /\ (Finished(c)' <=> Finished(c))
      BY <2>1, <2>2, <2>4 DEF Finished
    <3> QED BY <1>3, <1>4, <3>1, SessionRests
  <2> QED BY <2>3, <2>4
<1>7. CASE \E how \in {"half", "closed"} : Finish(d, how)
  <2>1. PICK how \in {"half", "closed"} : Finish(d, how)
    BY <1>7
  <2>2. client' = [client EXCEPT ![d] = how] /\ UNCHANGED begun
    BY <2>1 DEF Finish
  <2>3. client \in [Client -> {"away", "open", "half", "closed"}]
    BY <1>1 DEF TypeOK
  <2>4. CASE d = c /\ ~Finished(c)
    <3>1. Finished(c)'
      BY <2>2, <2>3, <2>4 DEF Finished
    <3> QED BY <1>3, <1>4, <2>2, <2>4, <3>1, SessionSays
  <2>5. CASE d # c \/ Finished(c)
    <3>1. Finished(c)' <=> Finished(c)
      BY <2>2, <2>3, <2>5 DEF Finished
    <3> QED BY <1>3, <1>4, <2>2, <3>1, SessionRests
  <2> QED BY <2>4, <2>5
<1> QED BY <1>2, <1>5, <1>6, <1>7

\* A command runs: for its client only.
LEMMA RunSession ==
  ASSUME ReadInv, NEW d \in Client, NEW rest, Reading(d), stdio[d] # <<>>, Run(d, rest),
         NEW c \in Client
  PROVE  SessionStep(c)
<1>1. TypeOK /\ IInv
  BY DEF ReadInv, IInv
<1>2. /\ executed' = [executed EXCEPT ![d] = @ + 1]
      /\ UNCHANGED <<connections, held, client, begun>>
  BY DEF Run, ends
<1>3. (Left(c)' <=> Left(c)) /\ (Finished(c)' <=> Finished(c))
  BY <1>2 DEF Left, Finished
<1>4. executed \in [Client -> Nat]
  BY <1>1 DEF TypeOK
<1>5. CASE d = c
  <2>1. executed'[c] = executed[c] + 1
    BY <1>2, <1>4, <1>5
  <2>2. ~Left(c)
    BY <1>1, <1>5, ReadingStays DEF Left
  <2>3. executed[c] < begun[c]
    BY <1>1, <1>5, ReadingCounted, CountedAhead
  <2> QED BY <1>2, <1>3, <2>1, <2>2, <2>3, SessionDoes
<1>6. CASE d # c
  <2>1. executed'[c] = executed[c]
    BY <1>2, <1>4, <1>6
  <2> QED BY <1>2, <1>3, <2>1, SessionRests
<1> QED BY <1>5, <1>6

LEMMA AcceptSession ==
  ASSUME ReadInv, DoAccept, NEW c \in Client
  PROVE  SessionStep(c)
<1>1. TypeOK /\ OnePlace
  BY DEF ReadInv, IInv
<1>2. /\ pending # <<>> /\ UNCHANGED <<client, begun, executed>>
      /\ connections' = Append(connections, Head(pending))
      /\ held' = held \cup {Head(pending)}
  BY <1>1 DEF DoAccept, ends, TypeOK
<1>3. pending \in Seq(Client) /\ connections \in Seq(Client)
  BY <1>1 DEF TypeOK
<1>4. Head(pending) \in Client /\ Head(pending) \notin held
  BY <1>1, <1>2, <1>3, DistinctTail, HeadTailProperties DEF OnePlace
<1>5. Range(connections') = Range(connections) \cup {Head(pending)}
  BY <1>1, <1>2, <1>3, <1>4, DistinctAppend DEF OnePlace
<1>6. (Left(c)' <=> Left(c)) /\ (Finished(c)' <=> Finished(c))
  BY <1>2, <1>4, <1>5 DEF Left, Finished
<1> QED BY <1>2, <1>6, SessionRests

LEMMA EraseSession ==
  ASSUME ReadInv, NEW d \in Client, Erase(d), NEW c \in Client
  PROVE  SessionStep(c)
<1>1. TypeOK /\ IInv /\ OnePlace
  BY DEF ReadInv, IInv
<1>2. /\ connections' = RemoveAt(connections, cursor) /\ Reading(d)
      /\ UNCHANGED <<held, client, begun, executed>>
      /\ stdio[d] = <<>> /\ sock[d] = <<>> /\ Finished(d)
  BY DEF Erase, ends, AtEnd
<1>3. /\ connections \in Seq(Client) /\ cursor \in 1..Len(connections)
      /\ d = connections[cursor]
  BY <1>1, <1>2 DEF TypeOK, Reading
<1>4. Range(connections') = Range(connections) \ {d}
  <2>1. Range(connections') \subseteq Range(connections) \ {d}
    BY <1>1, <1>2, <1>3, DistinctRemoveAt DEF OnePlace
  <2>2. Range(connections) \subseteq Range(connections') \cup {d}
    BY <1>2, <1>3, RemoveAtRange
  <2> QED BY <2>1, <2>2
<1>5. Finished(c)' <=> Finished(c)
  BY <1>2 DEF Finished
<1>6. CASE d = c
  <2>1. d \in Range(connections) /\ d \in held
    BY <1>1, <1>2, ReadingStays DEF OnePlace
  <2>2. ~Left(c) /\ Left(c)'
    BY <1>2, <1>4, <1>6, <2>1 DEF Left
  <2>3. executed[c] = begun[c]
    <3>1. executed[c] + ((0 + 0 + 1) \div 2) = begun[c] /\ executed[c] \in Nat
      BY <1>1, <1>2, <1>6, ReadingCounted DEF Counted
    <3>2. (0 + 0 + 1) \div 2 = 0
      OBVIOUS
    <3> QED BY <3>1, <3>2
  <2> QED BY <1>2, <1>5, <1>6, <2>2, <2>3, SessionLeaves
<1>7. CASE d # c
  <2>1. Left(c)' <=> Left(c)
    BY <1>2, <1>4, <1>7 DEF Left
  <2> QED BY <1>2, <1>5, <2>1, SessionRests
<1> QED BY <1>6, <1>7

LEMMA NextSession ==
  ASSUME ReadInv, [Next]_vars, NEW c \in Client
  PROVE  SessionStep(c)
<1>1. CASE \/ Turn \/ SelectReady \/ SelectIdle \/ Skip \/ CheckDone \/ Iterate
           \/ \E d \in Client : FillBuffer(d) \/ ConsoleEnd(d)
           \/ Interrupt \/ Ended \/ UNCHANGED vars
  <2>1. UNCHANGED <<connections, held, client, begun, executed>>
    BY <1>1 DEF Turn, SelectReady, SelectIdle, Skip, CheckDone, Iterate, FillBuffer,
                ConsoleEnd, Interrupt, Ended, vars, loop, server, ends
  <2>2. (Left(c)' <=> Left(c)) /\ (Finished(c)' <=> Finished(c))
    BY <2>1 DEF Left, Finished
  <2> QED BY <2>1, <2>2, SessionRests
<1>2. CASE ClientStep
  BY <1>2, ClientSession
<1>3. CASE DoAccept
  BY <1>3, AcceptSession
<1>4. ASSUME NEW d \in Client, Erase(d) PROVE SessionStep(c)
  BY <1>4, EraseSession
<1>5. ASSUME NEW d \in Client, Execute(d) \/ InterruptGetline(d) PROVE SessionStep(c)
  <2>1. PICK rest : Run(d, rest)
    BY <1>5 DEF Execute, InterruptGetline
  <2>2. Reading(d) /\ stdio[d] # <<>>
    BY <1>5 DEF Execute, InterruptGetline
  <2> QED BY <2>1, <2>2, RunSession
<1> QED BY <1>1, <1>2, <1>3, <1>4, <1>5 DEF Next, MainStep

LEMMA InitSession ==
  ASSUME Init, NEW c \in Client
  PROVE  Session(c)!Init
<1>1. begun[c] = 0 /\ executed[c] = 0 /\ client[c] \in {"away", "open"}
  BY DEF Init
<1>2. held = console /\ Range(connections) = console
  <2>1. CASE console = {} /\ connections = <<>>
    BY <2>1 DEF Init, Range
  <2>2. CASE \E d \in Client : console = {d} /\ connections = <<d>>
    BY <2>2 DEF Init, Range
  <2> QED BY <2>1, <2>2 DEF Init
<1> QED BY <1>1, <1>2 DEF Session!Init, Finished

\* Every client's session behaves as Session, whatever the others do.
THEOREM SessionsKept == Spec => SessionsServed
<1>1. Init => \A c \in Client : Session(c)!Init
  BY InitSession
<1>2. ReadInv /\ [Next]_vars
        => [\A c \in Client : [Session(c)!Next]_(Session(c)!vars)]_vars
  BY NextSession DEF SessionStep
<1> QED BY <1>1, <1>2, Readings, PTL DEF Spec, SessionsServed
=============================================================================
