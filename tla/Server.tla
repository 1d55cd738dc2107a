--------------------------------- MODULE Server ---------------------------------
(***************************************************************************)
(* The server's loop and its session threads (server/main.cpp), the table  *)
(* of users (server/UserManager.cpp) and the clients (client/main.cpp).    *)
(* Each connection is a stream in either direction.  What a command does   *)
(* is in Session and Directory; here only what it does to the conversation *)
(* counts, and every command comes back.                                   *)
(*                                                                         *)
(* A line that is typed is "exit", "EXIT" (anything else that the server   *)
(* takes for exit), one "letter", "blank"s only, or any other "line".  An  *)
(* answer arrives in pieces of at most 2048 bytes: "full" ones, and a last *)
(* "part".                                                                 *)
(***************************************************************************)
EXTENDS Integers, Sequences, FiniteSets, SequencesExt

CONSTANTS
  Client,              \* 1, 2, ... as they connect; also names the connection,
                       \* and the thread made for it
  Other,               \* the main thread, and sessions that only stay logged in
  None,
  MAX_USER_NUM,        \* entries of p_users: 50
  MaxLines             \* bound on the lines typed by all clients

ASSUME ServerAssumption ==
  /\ Client \subseteq Nat
  /\ Other \notin Client /\ None \notin Client \cup {Other}
  /\ MAX_USER_NUM \in Nat \ {0} /\ MaxLines \in Nat

VARIABLES
  client,              \* where each client is
  last,                \* what it has typed last
  toServer, toClient,  \* the streams
  cut,                 \* connections closed with answers unread: recv gives -1
  backlog,             \* connections that are to be accepted
  connectfd,
  thread,              \* session threads
  users,               \* p_users: whose User structure, or None
  addr,                \* user_addr
  lines,               \* lines typed so far
  down,                \* the server process has ended
  hasty,               \* an accept came before the last thread had started
  rushed,              \* two logins have found the same free entry
  muddled,             \* two threads have changed user_addr at once
  lengthy              \* connections with an answer of several pieces

wires == <<toServer, toClient, cut, backlog, connectfd>>

tables == <<users, addr>>

marks == <<hasty, rushed, muddled, lengthy>>

vars == <<client, last, wires, thread, tables, lines, down, marks>>

Slot == 0 .. MAX_USER_NUM - 1

NoSlot == -1

Text == {"exit", "EXIT", "letter", "blank", "line"}

NoThread == [pc |-> "none", fd |-> None, slot |-> NoSlot]

TypeOK ==
  /\ client \in [Client -> {"away", "waiting", "typing", "gone"}]
  /\ last \in [Client -> Text \cup {None}]
  /\ toServer \in [Client -> Seq(Text)] /\ toClient \in [Client -> Seq({"full", "part"})]
  /\ cut \subseteq Client /\ backlog \in Seq(Client)
  /\ connectfd \in Client \cup {None}
  /\ thread \in [Client -> [pc : {"none", "new", "name", "login", "found", "taken", "enter",
                                  "home", "cmd", "leave", "ended"},
                            fd : Client \cup {None}, slot : Slot \cup {NoSlot}]]
  /\ users \in [Slot -> Client \cup {Other, None}]
  /\ addr \in [Client -> Slot \cup {NoSlot}]
  /\ lines \in 0 .. MaxLines
  /\ {down, hasty, rushed, muddled} \subseteq BOOLEAN
  /\ lengthy \subseteq Client

\* The constructor of UserManager gives the first entry to the main thread; others
\* may have been taken by earlier sessions.
Init ==
  /\ client = [c \in Client |-> "away"] /\ last = [c \in Client |-> None]
  /\ toServer = [c \in Client |-> <<>>] /\ toClient = toServer
  /\ cut = {} /\ backlog = <<>> /\ connectfd = None
  /\ thread = [c \in Client |-> NoThread]
  /\ \E taken \in SUBSET Slot : users = [i \in Slot |-> IF i \in taken \cup {0} THEN Other ELSE None]
  /\ addr = [c \in Client |-> NoSlot]
  /\ lines = 0 /\ down = FALSE
  /\ hasty = FALSE /\ rushed = FALSE /\ muddled = FALSE /\ lengthy = {}
-----------------------------------------------------------------------------
(* The client *)

\* connect is tried up to eleven times.  A client that has given up may be
\* connected all the same: the socket does not block.
Connect(c) ==
  /\ client[c] = "away" /\ ~down
  /\ \A d \in Client : d < c => client[d] # "away"
  /\ \/ client' = [client EXCEPT ![c] = "waiting"] /\ backlog' = Append(backlog, c)
     \/ client' = [client EXCEPT ![c] = "gone"] /\ backlog' \in {backlog, Append(backlog, c)}
  /\ UNCHANGED <<last, toServer, toClient, cut, connectfd, thread, tables, lines, down, marks>>

\* recv takes a full piece, or parts that have arrived together.
Receive(c) ==
  /\ client[c] = "waiting"
  /\ \E k \in 1 .. Len(toClient[c]) :
       /\ k = 1 \/ \A j \in 1 .. k : toClient[c][j] = "part"
       /\ toClient' = [toClient EXCEPT ![c] = SubSeq(@, k + 1, Len(@))]
  /\ client' = [client EXCEPT ![c] = "typing"]
  /\ UNCHANGED <<last, toServer, cut, backlog, connectfd, thread, tables, lines, down, marks>>

\* One line is sent for each time something has been received.  Only after "exit"
\* itself does the client end.
Type(c) ==
  /\ client[c] = "typing" /\ ~down
  /\ lines < MaxLines /\ lines' = lines + 1
  /\ \E x \in Text :
       /\ last' = [last EXCEPT ![c] = x]
       /\ toServer' = [toServer EXCEPT ![c] = Append(@, x)]
       /\ client' = [client EXCEPT ![c] = IF x = "exit" THEN "gone" ELSE "waiting"]
       /\ cut' = IF x = "exit" /\ toClient[c] # <<>> THEN cut \cup {c} ELSE cut
  /\ UNCHANGED <<toClient, backlog, connectfd, thread, tables, down, marks>>

\* The client is killed; or the server has ended, and recv gives 0 or send fails.
Leave(c) ==
  /\ client[c] \in {"waiting", "typing"}
  /\ client' = [client EXCEPT ![c] = "gone"]
  /\ cut' = IF toClient[c] # <<>> THEN cut \cup {c} ELSE cut
  /\ UNCHANGED <<last, toServer, toClient, backlog, connectfd, thread, tables, lines, down, marks>>
-----------------------------------------------------------------------------
(* The main thread *)

\* Mutant: the thread is made before connectfd is stored.
StoredLate(c) == connectfd

Stored(c) == c

\* The new thread gets the address of connectfd, and reads it when it runs.
Accept ==
  /\ ~down /\ backlog # <<>>
  /\ connectfd' = Stored(Head(backlog))
  /\ backlog' = Tail(backlog)
  /\ thread' = [thread EXCEPT ![Head(backlog)] = [NoThread EXCEPT !.pc = "new"]]
  /\ hasty' = (hasty \/ \E t \in Client : thread[t].pc = "new")
  /\ UNCHANGED <<client, last, toServer, toClient, cut, tables, lines, down, rushed, muddled, lengthy>>
-----------------------------------------------------------------------------
(* A session thread *)

At(t, pc) == ~down /\ thread[t].pc = pc

Goes(t, pc) == thread' = [thread EXCEPT ![t].pc = pc]

Fd(t) == thread[t].fd

\* send; what is sent to a client that has gone is lost.
Said(to, fd, pieces) ==
  IF fd \in Client /\ client[fd] # "gone" THEN [to EXCEPT ![fd] = @ \o pieces] ELSE to

Fails == down' = TRUE /\ UNCHANGED <<client, last, wires, thread, tables, lines, marks>>

Closed(fd) == fd \in Client /\ client[fd] = "gone" /\ toServer[fd] = <<>>

Start(t) ==
  /\ At(t, "new")
  /\ thread' = [thread EXCEPT ![t].pc = "name", ![t].fd = connectfd]
  /\ toClient' = Said(toClient, connectfd, <<"part">>)
  /\ UNCHANGED <<client, last, toServer, cut, backlog, connectfd, tables, lines, down, marks>>

\* More than one character is left when the white space is taken out.
IsName(q) ==
  \/ \E k \in DOMAIN q : q[k] \notin {"letter", "blank"}
  \/ Cardinality({k \in DOMAIN q : q[k] = "letter"}) > 1

\* Mutant: the user is asked for a name once only.
AskNot(to, fd) == to

AskAgain(to, fd) == Said(to, fd, <<"part">>)

\* Until there is a name.  Nobody is told that a client has gone: recv gives 0, and
\* the thread asks again, for ever.
Name(t) ==
  LET q == toServer[Fd(t)] IN
  /\ At(t, "name") /\ q # <<>>
  /\ toServer' = [toServer EXCEPT ![Fd(t)] = <<>>]
  /\ IF IsName(q) THEN Goes(t, "login") /\ UNCHANGED toClient
     ELSE toClient' = AskAgain(toClient, Fd(t)) /\ UNCHANGED thread
  /\ UNCHANGED <<client, last, cut, backlog, connectfd, tables, lines, down, marks>>

NoName(t) ==
  /\ At(t, "name") /\ Closed(Fd(t)) /\ Fd(t) \in cut
  /\ cut' = cut \ {Fd(t)}
  /\ Goes(t, "ended")
  /\ UNCHANGED <<client, last, toServer, toClient, backlog, connectfd, tables, lines, down, marks>>
-----------------------------------------------------------------------------
(* Login and Logout *)

Lowest(S) == CHOOSE x \in S : \A y \in S : x <= y

FirstFree == Lowest({i \in Slot : users[i] = None} \cup {MAX_USER_NUM})

Full(i) == i = MAX_USER_NUM

\* Nobody looks at Login's answer; the first GetUser ends the server.
FindSlot(t) ==
  /\ At(t, "login")
  /\ IF Full(FirstFree) THEN Fails
     ELSE /\ thread' = [thread EXCEPT ![t].pc = "found", ![t].slot = FirstFree]
          /\ rushed' = (rushed \/ \E r \in Client \ {t} : thread[r].pc = "found"
                                                            /\ thread[r].slot = FirstFree)
          /\ UNCHANGED <<client, last, wires, tables, lines, down, hasty, muddled, lengthy>>

TakeSlot(t) ==
  /\ At(t, "found")
  /\ users' = [users EXCEPT ![thread[t].slot] = t]
  /\ Goes(t, "taken")
  /\ UNCHANGED <<client, last, wires, addr, lines, down, marks>>

\* Threads in the middle of an insertion or removal.
Changing == {t \in Client : thread[t].pc \in {"enter", "leave"}}

Enter(t) ==
  /\ At(t, "taken")
  /\ Goes(t, "enter")
  /\ muddled' = (muddled \/ Changing # {})
  /\ UNCHANGED <<client, last, wires, tables, lines, down, hasty, rushed, lengthy>>

\* What two changes at once do to the map is undefined: an entry may be missing
\* afterwards, or the process ends.
Entered(t) ==
  /\ At(t, "enter")
  /\ \/ /\ addr' = [addr EXCEPT ![t] = thread[t].slot]
        /\ Goes(t, "home")
        /\ UNCHANGED <<client, last, wires, users, lines, down, marks>>
     \/ /\ muddled
        /\ Goes(t, "home")
        /\ UNCHANGED <<client, last, wires, tables, lines, down, marks>>
     \/ muddled /\ Fails

\* GetUser, and the use of what it returns.
HasUser(t) == addr[t] \in Slot /\ users[addr[t]] # None

\* GetUser may miss: it ends the process, or its caller follows a NULL.
MayMiss(t) == ~HasUser(t) \/ muddled \/ Changing \ {t} # {}

\* Mutant: the home page is sent apart from the prompt behind it.
WelcomeTwice == <<"part", "part">>

Welcome == <<"part">>

\* The rest of Login (mkdir and cd to the home directory, see Directory) and the
\* home page.
Home(t) ==
  /\ At(t, "home")
  /\ \/ /\ HasUser(t)
        /\ toClient' = Said(toClient, Fd(t), Welcome)
        /\ Goes(t, "cmd")
        /\ UNCHANGED <<client, last, toServer, cut, backlog, connectfd, tables, lines, down, marks>>
     \/ MayMiss(t) /\ Fails

\* Logout looks the entry up with operator[], which gives 0 for a missing one.
Left(t) ==
  /\ At(t, "leave")
  /\ \/ /\ addr' = [addr EXCEPT ![t] = NoSlot]
        /\ users' = [users EXCEPT ![IF addr[t] = NoSlot THEN 0 ELSE addr[t]] = None]
        /\ Goes(t, "ended")
        /\ UNCHANGED <<client, last, wires, lines, down, marks>>
     \/ muddled /\ Fails
-----------------------------------------------------------------------------
(* The command loop *)

\* What recv has put in the buffer when several lines have come together.
Together(q) ==
  LET words == SelectSeq(q, LAMBDA x : x # "blank") IN
  IF Len(q) = 1 THEN {q[1]}
  ELSE IF words = <<>> THEN {"blank"}
  ELSE IF Len(words) = 1 THEN {IF words[1] = "letter" THEN "line" ELSE words[1]}
  ELSE {"line", "EXIT"}

\* A single byte is taken for an empty line: no answer.
OneByte(t) ==
  /\ At(t, "cmd") /\ toServer[Fd(t)] = <<"letter">>
  /\ toServer' = [toServer EXCEPT ![Fd(t)] = <<>>]
  /\ UNCHANGED <<client, last, toClient, cut, backlog, connectfd, thread, tables, lines, down, marks>>

Reads(t, kinds) ==
  /\ At(t, "cmd") /\ toServer[Fd(t)] # <<>>
  /\ Together(toServer[Fd(t)]) \cap kinds # {}

\* Every command but exit ends with one display, which asks for the user.
Answer(t) ==
  /\ Reads(t, {"line"})
  /\ \/ /\ HasUser(t)
        /\ toServer' = [toServer EXCEPT ![Fd(t)] = <<>>]
        /\ \/ toClient' = Said(toClient, Fd(t), <<"part">>) /\ UNCHANGED lengthy
           \/ /\ toClient' = Said(toClient, Fd(t), <<"full", "part">>)
              /\ lengthy' = lengthy \cup {Fd(t)}
        /\ UNCHANGED <<client, last, cut, backlog, connectfd, thread, tables, lines, down, hasty, rushed, muddled>>
     \/ MayMiss(t) /\ Fails

\* commands[0] of a line without words, as of a connection that the client has
\* closed; stoi of a number that does not fit an int.
Crash(t) ==
  /\ \/ Reads(t, {"blank", "line"})
     \/ At(t, "cmd") /\ Closed(Fd(t)) /\ Fd(t) \notin cut
  /\ Fails

Leaving(t) ==
  /\ Goes(t, "leave")
  /\ muddled' = (muddled \/ Changing # {})

\* exit ends the thread without an answer, and the connection stays open.
Exit(t) ==
  /\ Reads(t, {"exit", "EXIT"})
  /\ toServer' = [toServer EXCEPT ![Fd(t)] = <<>>]
  /\ Leaving(t)
  /\ UNCHANGED <<client, last, toClient, cut, backlog, connectfd, tables, lines, down, hasty, rushed, lengthy>>

\* Mutant: the thread ends without Logout.
HangUpNoLogout(t) ==
  /\ At(t, "cmd") /\ Closed(Fd(t)) /\ Fd(t) \in cut
  /\ cut' = cut \ {Fd(t)}
  /\ Goes(t, "ended")
  /\ UNCHANGED <<client, last, toServer, toClient, backlog, connectfd, tables, lines, down, marks>>

HangUp(t) ==
  /\ At(t, "cmd") /\ Closed(Fd(t)) /\ Fd(t) \in cut
  /\ cut' = cut \ {Fd(t)}
  /\ Leaving(t)
  /\ UNCHANGED <<client, last, toServer, toClient, backlog, connectfd, tables, lines, down, hasty, rushed, lengthy>>
-----------------------------------------------------------------------------
Step(t) ==
  \/ Start(t) \/ Name(t) \/ NoName(t) \/ FindSlot(t) \/ TakeSlot(t) \/ Enter(t)
  \/ Entered(t) \/ Home(t) \/ OneByte(t) \/ Answer(t) \/ Crash(t) \/ Exit(t) \/ HangUp(t)
  \/ Left(t)

Next ==
  \/ Accept
  \/ \E t \in Client : Step(t)
  \/ \E c \in Client : Connect(c) \/ Receive(c) \/ Type(c) \/ Leave(c)

\* The threads of the server run, and a client that waits takes what has come or
\* sees the end of the server; nobody need connect or type.
Spec ==
  /\ Init /\ [][Next]_vars
  /\ WF_vars(Accept)
  /\ \A c \in Client :
       WF_vars(Step(c)) /\ WF_vars(Receive(c)) /\ WF_vars(down /\ Leave(c))
-----------------------------------------------------------------------------
(* Properties *)

\* main passes one connectfd to all threads (main.cpp:547): every connection that
\* has been accepted is served by one thread, unless the next accept has come
\* before the thread had started.
OwnConnection ==
  hasty \/ \A t \in Client : thread[t].pc \notin {"none", "new"} => Fd(t) = t

\* Login and Logout change p_users and user_addr without a lock (UserManager.cpp:31,
\* 46, 77): a thread that has logged in finds a User of its own, however logins
\* and logouts reuse the entries, unless two logins have found the same free entry
\* or two threads have been in the map at once.
OwnUser ==
  \/ rushed \/ muddled
  \/ \A t \in Client : thread[t].pc \in {"home", "cmd"} => addr[t] \in Slot /\ users[addr[t]] = t

\* A thread has a connection and a User that no other thread has, but for the two
\* races: OwnConnection and OwnUser, with everything else what it can be.
OwnInv == TypeOK /\ OwnConnection /\ OwnUser

Flag(b) == IF b THEN 1 ELSE 0

\* Whose turn it is on a connection.
Turns(c) ==
  Len(toServer[c]) + Len(toClient[c]) + Flag(client[c] = "typing")
  + Flag((\E k \in DOMAIN backlog : backlog[k] = c) \/ thread[c].pc = "new")
  + Flag(thread[c].pc \in {"login", "found", "taken", "enter", "home"})

\* Nobody serves the connection any more.
Deserted(c) ==
  /\ \A k \in DOMAIN backlog : backlog[k] # c
  /\ thread[c].pc # "new"
  /\ \A t \in Client : Fd(t) = c => thread[t].pc \in {"leave", "ended"}

\* The last line was one letter, which the command loop does not answer.
Ignored(c) == last[c] = "letter" /\ toServer[c] = <<>>

\* Client and server speak in turn (client/main.cpp:22, main.cpp:136): one of them
\* is to go on, never both and never none, unless an answer of more than 2048
\* bytes has made the client type too early, a letter has been ignored or the
\* thread has ended.
InTurn ==
  hasty \/ down \/
  \A c \in Client :
    /\ client[c] \in {"waiting", "typing"} /\ c \notin lengthy => Turns(c) <= 1
    /\ client[c] \in {"waiting", "typing"} /\ Turns(c) = 0 => Ignored(c) \/ Deserted(c)

\* A client that waits hears of the server, unless it is one of those two, or the
\* threads have mixed up their connections.
Answered ==
  \A c \in Client :
    client[c] = "waiting" ~> (client[c] # "waiting" \/ Ignored(c) \/ Deserted(c) \/ hasty)

\* The entry of a user whose client has gone becomes free again (main.cpp:137, 231),
\* if the server survives that.
SlotsReturned ==
  \A t \in Client :
    (\E i \in Slot : users[i] = t) /\ client[Fd(t)] = "gone"
      ~> (\A i \in Slot : users[i] # t) \/ down \/ muddled

=============================================================================
