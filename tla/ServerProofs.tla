------------------------------ MODULE ServerProofs ------------------------------
(***************************************************************************)
(* Proofs about the server's threads: in the server's loop and the table   *)
(* of users (Server), for any number of clients, entries of the table, and *)
(* lines; and in the buffer manager (BufferThreads, at the end), for any   *)
(* number of buffers, threads, blocks and calls.                           *)
(***************************************************************************)
EXTENDS Server, BufferThreads, FiniteSetTheorems, WellFoundedInduction, TLAPS

ThreadPc == {"none", "new", "name", "login", "found", "taken", "enter",
             "home", "cmd", "leave", "ended"}

ThreadState == [pc : ThreadPc, fd : Client \cup {None}, slot : Slot \cup {NoSlot}]

\* The search from the start of a table finds the first of what it looks for.
LEMMA LowestIs ==
  ASSUME NEW S \in SUBSET Nat, S # {}
  PROVE  Lowest(S) \in S
<1>1. PICK m \in S : \A k \in S : ~ (<<k, m>> \in OpToRel(<, Nat))
  BY NatLessThanWellFounded, WFMin, Zenon
<1>2. ASSUME NEW k \in S, k < m PROVE FALSE
  <2>1. <<k, m>> \in {p \in Nat \X Nat : p[1] < p[2]}
    BY <1>2
  <2>2. <<k, m>> \in OpToRel(<, Nat)
    BY <2>1, Zenon DEF OpToRel
  <2> QED
    BY <1>1, <2>2
<1>3. \A k \in S : m <= k
  BY <1>2
<1> QED
  BY <1>3 DEF Lowest

\* FirstFree is a free entry, or there is none.
LEMMA FirstFreeIsFree ==
  ASSUME TypeOK
  PROVE  /\ Full(FirstFree) \/ (FirstFree \in Slot /\ users[FirstFree] = None)
         /\ FirstFree \in 0 .. MAX_USER_NUM
<1> DEFINE S == {i \in Slot : users[i] = None} \cup {MAX_USER_NUM}
<1>1. S \in SUBSET Nat /\ S # {}
  BY ServerAssumption DEF Slot
<1>2. Lowest(S) \in S
  <2> HIDE DEF S
  <2> QED
    BY <1>1, LowestIs
<1> QED
  BY <1>2, ServerAssumption DEF FirstFree, Full, Slot

\* A thread that runs has read a connection from connectfd.
Connected ==
  \A t \in Client :
    /\ thread[t].pc # "none" => connectfd \in Client
    /\ thread[t].pc \notin {"none", "new"} => Fd(t) \in Client

LEMMA ServerTypeInit == Init => TypeOK /\ Connected
<1> SUFFICES ASSUME Init PROVE TypeOK /\ Connected
  OBVIOUS
<1>1. users \in [Slot -> Client \cup {Other, None}] /\ thread \in [Client -> ThreadState]
  BY DEF Init, NoThread, ThreadState, ThreadPc
<1>2. toServer \in [Client -> Seq(Text)] /\ toClient \in [Client -> Seq({"full", "part"})]
  BY DEF Init
<1>3. {down, hasty, rushed, muddled} \subseteq BOOLEAN
  BY DEF Init
<1>4. backlog \in Seq(Client) /\ lines \in 0 .. MaxLines
  BY ServerAssumption DEF Init
<1>5. Connected
  BY DEF Init, Connected, NoThread
<1> QED
  BY <1>1, <1>2, <1>3, <1>4, <1>5 DEF Init, TypeOK, ThreadState, ThreadPc

\* What Goes does to the threads.
LEMMA GoesMeans ==
  ASSUME TypeOK, NEW t \in Client, NEW p \in ThreadPc, Goes(t, p)
  PROVE  /\ thread' \in [Client -> ThreadState]
         /\ \A u \in Client : /\ thread'[u].pc = IF u = t THEN p ELSE thread[u].pc
                              /\ thread'[u].fd = thread[u].fd
                              /\ thread'[u].slot = thread[u].slot
BY DEF Goes, TypeOK, ThreadState, ThreadPc

\* What FindSlot does to them when it has found an entry.
LEMMA FindSlotMeans ==
  ASSUME TypeOK, NEW t \in Client, FindSlot(t), ~ Full(FirstFree)
  PROVE  /\ FirstFree \in Slot /\ users[FirstFree] = None
         /\ thread' \in [Client -> ThreadState]
         /\ \A u \in Client :
              /\ thread'[u].pc = IF u = t THEN "found" ELSE thread[u].pc
              /\ thread'[u].fd = thread[u].fd
              /\ thread'[u].slot = IF u = t THEN FirstFree ELSE thread[u].slot
<1> DEFINE to == [thread[t] EXCEPT !.pc = "found", !.slot = FirstFree]
<1>1. thread \in [Client -> ThreadState]
  BY DEF TypeOK, ThreadState, ThreadPc
<1>2. FirstFree \in Slot /\ users[FirstFree] = None
  BY FirstFreeIsFree
<1>3. to \in ThreadState
  BY <1>1, <1>2 DEF ThreadState, ThreadPc
<1>4. thread' = [thread EXCEPT ![t] = to]
  <2>1. thread' = [thread EXCEPT ![t].pc = "found", ![t].slot = FirstFree]
    BY DEF FindSlot
  <2> QED
    BY <1>1, <1>3, <2>1 DEF ThreadState
<1>5. to.pc = "found" /\ to.fd = thread[t].fd /\ to.slot = FirstFree
  BY <1>1 DEF ThreadState
<1> HIDE DEF to
<1> QED
  BY <1>1, <1>2, <1>3, <1>4, <1>5

LEMMA SaidType ==
  ASSUME TypeOK, NEW c, NEW p \in Seq({"full", "part"})
  PROVE  Said(toClient, c, p) \in [Client -> Seq({"full", "part"})]
BY DEF Said, TypeOK

LEMMA EmptiedType ==
  ASSUME TypeOK, NEW c
  PROVE  [toServer EXCEPT ![c] = <<>>] \in [Client -> Seq(Text)]
<1>1. <<>> \in Seq(Text)
  OBVIOUS
<1> QED
  BY <1>1 DEF TypeOK

\* The same for the two answers there are.
LEMMA AnswersType ==
  ASSUME TypeOK, NEW c
  PROVE  /\ Said(toClient, c, <<"part">>) \in [Client -> Seq({"full", "part"})]
         /\ Said(toClient, c, <<"full", "part">>) \in [Client -> Seq({"full", "part"})]
<1>1. <<"part">> \in Seq({"full", "part"}) /\ <<"full", "part">> \in Seq({"full", "part"})
  OBVIOUS
<1> QED
  BY <1>1, SaidType

\* A thread that goes on keeps its connection.
LEMMA GoesConnected ==
  ASSUME TypeOK, Connected, NEW t \in Client, NEW p \in ThreadPc, Goes(t, p),
         thread[t].pc \notin {"none", "new"}, UNCHANGED connectfd
  PROVE  Connected'
BY GoesMeans DEF Connected, Fd

LEMMA FailsType == ASSUME TypeOK, Connected, Fails PROVE TypeOK' /\ Connected'
BY DEF Fails, TypeOK, Connected, Fd, wires, tables, marks

LEMMA ServerTypeStep ==
  ASSUME TypeOK, Connected, [Next]_vars
  PROVE  TypeOK' /\ Connected'
<1> USE DEF wires, tables, marks, Fd
<1>1. CASE Accept
  BY <1>1 DEF TypeOK, Connected, Accept, Stored, NoThread
<1>2. ASSUME NEW c \in Client, Connect(c) PROVE TypeOK' /\ Connected'
  <2>1. Append(backlog, c) \in Seq(Client)
    BY DEF TypeOK
  <2> QED
    BY <1>2, <2>1 DEF Connect, TypeOK, Connected
<1>3. ASSUME NEW c \in Client, Receive(c) PROVE TypeOK' /\ Connected'
  BY <1>3 DEF Receive, TypeOK, Connected
<1>4. ASSUME NEW c \in Client, Type(c) PROVE TypeOK' /\ Connected'
  BY <1>4, ServerAssumption DEF Type, Text, TypeOK, Connected
<1>5. ASSUME NEW c \in Client, Leave(c) PROVE TypeOK' /\ Connected'
  <2>1. client' \in [Client -> {"away", "waiting", "typing", "gone"}]
    BY <1>5 DEF Leave, TypeOK
  <2>2. cut' \subseteq Client
    BY <1>5 DEF Leave, TypeOK
  <2>3. UNCHANGED <<last, toServer, toClient, backlog, connectfd, thread, tables, lines, down, marks>>
    BY <1>5 DEF Leave
  <2> QED
    BY <2>1, <2>2, <2>3 DEF TypeOK, Connected
<1>6. ASSUME NEW t \in Client, Start(t) PROVE TypeOK' /\ Connected'
  <2>1. toClient' \in [Client -> Seq({"full", "part"})]
    BY <1>6, AnswersType DEF Start
  <2> QED
    BY <1>6, <2>1 DEF Start, At, TypeOK, Connected
<1>7. ASSUME NEW t \in Client, Name(t) PROVE TypeOK' /\ Connected'
  <2>1. toClient' \in [Client -> Seq({"full", "part"})]
    BY <1>7, AnswersType DEF Name, AskAgain, TypeOK
  <2>2. toServer' \in [Client -> Seq(Text)]
    BY <1>7, EmptiedType DEF Name
  <2>3. thread' \in [Client -> ThreadState] /\ Connected'
    BY <1>7, GoesMeans, GoesConnected DEF Name, At, TypeOK, Connected, ThreadPc, ThreadState
  <2> QED
    BY <1>7, <2>1, <2>2, <2>3 DEF Name, TypeOK, ThreadState, ThreadPc
<1>8. ASSUME NEW t \in Client, NoName(t) PROVE TypeOK' /\ Connected'
  <2>1. thread' \in [Client -> ThreadState] /\ Connected'
    BY <1>8, GoesMeans, GoesConnected DEF NoName, At, ThreadPc
  <2> QED
    BY <1>8, <2>1 DEF NoName, TypeOK, ThreadState, ThreadPc
<1>9. ASSUME NEW t \in Client, OneByte(t) PROVE TypeOK' /\ Connected'
  <2>1. toServer' \in [Client -> Seq(Text)]
    BY <1>9, EmptiedType DEF OneByte
  <2> QED
    BY <1>9, <2>1 DEF OneByte, TypeOK, Connected
<1>10. ASSUME NEW t \in Client, FindSlot(t) PROVE TypeOK' /\ Connected'
  <2>1. CASE Full(FirstFree)
    BY <1>10, <2>1, FailsType DEF FindSlot
  <2>2. CASE ~ Full(FirstFree)
    <3>1. thread' \in [Client -> ThreadState]
      BY <1>10, <2>2, FindSlotMeans
    <3>2. Connected'
      BY <1>10, <2>2, FindSlotMeans DEF FindSlot, At, Connected
    <3> QED
      BY <1>10, <2>2, <3>1, <3>2 DEF FindSlot, TypeOK, ThreadState, ThreadPc
  <2> QED
    BY <2>1, <2>2
<1>11. ASSUME NEW t \in Client, TakeSlot(t) PROVE TypeOK' /\ Connected'
  <2>1. thread' \in [Client -> ThreadState] /\ Connected'
    BY <1>11, GoesMeans, GoesConnected DEF TakeSlot, At, ThreadPc
  <2> QED
    BY <1>11, <2>1 DEF TakeSlot, TypeOK, ThreadState, ThreadPc
<1>12. ASSUME NEW t \in Client, Enter(t) PROVE TypeOK' /\ Connected'
  <2>1. thread' \in [Client -> ThreadState] /\ Connected'
    BY <1>12, GoesMeans, GoesConnected DEF Enter, At, ThreadPc
  <2> QED
    BY <1>12, <2>1 DEF Enter, TypeOK, ThreadState, ThreadPc
<1>13. ASSUME NEW t \in Client, Entered(t) PROVE TypeOK' /\ Connected'
  <2>1. CASE Fails
    BY <2>1, FailsType
  <2>2. CASE ~ Fails
    <3>1. thread' \in [Client -> ThreadState] /\ Connected'
      BY <1>13, <2>2, GoesMeans, GoesConnected DEF Entered, At, ThreadPc
    <3>2. addr' \in [Client -> Slot \cup {NoSlot}]
      BY <1>13, <2>2 DEF Entered, TypeOK
    <3> QED
      BY <1>13, <2>2, <3>1, <3>2 DEF Entered, TypeOK, ThreadState, ThreadPc
  <2> QED
    BY <2>1, <2>2
<1>14. ASSUME NEW t \in Client, Home(t) PROVE TypeOK' /\ Connected'
  <2>1. CASE Fails
    BY <2>1, FailsType
  <2>2. CASE ~ Fails
    <3>1. thread' \in [Client -> ThreadState] /\ Connected'
      BY <1>14, <2>2, GoesMeans, GoesConnected DEF Home, At, ThreadPc
    <3>2. toClient' \in [Client -> Seq({"full", "part"})]
      BY <1>14, <2>2, AnswersType DEF Home, Welcome
    <3> QED
      BY <1>14, <2>2, <3>1, <3>2 DEF Home, TypeOK, ThreadState, ThreadPc
  <2> QED
    BY <2>1, <2>2
<1>15. ASSUME NEW t \in Client, Answer(t) PROVE TypeOK' /\ Connected'
  <2>1. CASE Fails
    BY <2>1, FailsType
  <2>2. CASE ~ Fails
    <3>1. toClient' \in [Client -> Seq({"full", "part"})]
      BY <1>15, <2>2, AnswersType DEF Answer
    <3>2. toServer' \in [Client -> Seq(Text)]
      <4>1. toServer' = [toServer EXCEPT ![Fd(t)] = <<>>]
        BY <1>15, <2>2 DEF Answer
      <4> QED
        BY <4>1, EmptiedType
    <3>3. lengthy' \subseteq Client
      BY <1>15, <2>2 DEF Answer, Reads, At, TypeOK, Connected
    <3> QED
      BY <1>15, <2>2, <3>1, <3>2, <3>3 DEF Answer, TypeOK, Connected
  <2> QED
    BY <2>1, <2>2
<1>16. ASSUME NEW t \in Client, Crash(t) PROVE TypeOK' /\ Connected'
  BY <1>16, FailsType DEF Crash
<1>17. ASSUME NEW t \in Client, Exit(t) PROVE TypeOK' /\ Connected'
  <2>1. thread' \in [Client -> ThreadState] /\ Connected'
    BY <1>17, GoesMeans, GoesConnected DEF Exit, Reads, Leaving, At, ThreadPc
  <2>2. toServer' \in [Client -> Seq(Text)]
    BY <1>17, EmptiedType DEF Exit
  <2> QED
    BY <1>17, <2>1, <2>2 DEF Exit, Leaving, TypeOK, ThreadState, ThreadPc
<1>18. ASSUME NEW t \in Client, HangUp(t) PROVE TypeOK' /\ Connected'
  <2>1. thread' \in [Client -> ThreadState] /\ Connected'
    BY <1>18, GoesMeans, GoesConnected DEF HangUp, Leaving, At, ThreadPc
  <2> QED
    BY <1>18, <2>1 DEF HangUp, Leaving, TypeOK, ThreadState, ThreadPc
<1>19. ASSUME NEW t \in Client, Left(t) PROVE TypeOK' /\ Connected'
  <2>1. CASE Fails
    BY <2>1, FailsType
  <2>2. CASE ~ Fails
    <3>1. thread' \in [Client -> ThreadState] /\ Connected'
      BY <1>19, <2>2, GoesMeans, GoesConnected DEF Left, At, ThreadPc
    <3> QED
      BY <1>19, <2>2, <3>1 DEF Left, TypeOK, ThreadState, ThreadPc
  <2> QED
    BY <2>1, <2>2
<1>20. CASE UNCHANGED vars
  BY <1>20 DEF vars, TypeOK, Connected
<1> QED
  BY <1>1, <1>2, <1>3, <1>4, <1>5, <1>6, <1>7, <1>8, <1>9, <1>10, <1>11, <1>12, <1>13,
     <1>14, <1>15, <1>16, <1>17, <1>18, <1>19, <1>20 DEF Next, Step

\* A step of a thread that has started concerns that thread alone, leaves it its
\* connection and does not take it back to its start.
LEMMA StartedSteps ==
  ASSUME TypeOK, NEW t \in Client, Step(t), ~ Start(t)
  PROVE  /\ UNCHANGED <<connectfd, hasty>>
         /\ thread' \in [Client -> ThreadState]
         /\ \A u \in Client :
              /\ thread'[u].fd = thread[u].fd
              /\ thread'[u].pc # thread[u].pc =>
                   /\ u = t
                   /\ thread[u].pc \notin {"none", "new"}
                   /\ thread'[u].pc \notin {"none", "new"}
<1> DEFINE P == /\ UNCHANGED <<connectfd, hasty>>
                /\ thread' \in [Client -> ThreadState]
                /\ \A u \in Client :
                     /\ thread'[u].fd = thread[u].fd
                     /\ thread'[u].pc # thread[u].pc =>
                          /\ u = t
                          /\ thread[u].pc \notin {"none", "new"}
                          /\ thread'[u].pc \notin {"none", "new"}
<1> SUFFICES P
  OBVIOUS
<1> USE DEF wires, tables, marks
<1>0. thread \in [Client -> ThreadState]
  BY DEF TypeOK, ThreadState, ThreadPc
<1>1. ASSUME UNCHANGED <<connectfd, hasty, thread>> PROVE P
  BY <1>0, <1>1
<1>2. ASSUME NEW p \in ThreadPc \ {"none", "new"}, Goes(t, p),
             thread[t].pc \notin {"none", "new"}, UNCHANGED <<connectfd, hasty>>
      PROVE  P
  BY <1>2, GoesMeans
<1>3. CASE FindSlot(t)
  <2>1. CASE Full(FirstFree)
    BY <1>1, <1>3, <2>1 DEF FindSlot, Fails
  <2>2. CASE ~ Full(FirstFree)
    BY <1>3, <2>2, FindSlotMeans DEF FindSlot, At
  <2> QED
    BY <2>1, <2>2
<1> HIDE DEF P
<1> USE DEF At, ThreadPc
<1>4. CASE Name(t) \/ NoName(t) \/ TakeSlot(t) \/ Enter(t)
  BY <1>1, <1>2, <1>4 DEF Name, NoName, TakeSlot, Enter
<1>5. CASE Entered(t) \/ Home(t) \/ Left(t)
  BY <1>1, <1>2, <1>5 DEF Entered, Home, Left, Fails
<1>6. CASE OneByte(t) \/ Answer(t) \/ Crash(t)
  BY <1>1, <1>6 DEF OneByte, Answer, Crash, Fails
<1>7. CASE Exit(t) \/ HangUp(t)
  BY <1>2, <1>7 DEF Exit, HangUp, Reads, Leaving
<1> QED
  BY <1>3, <1>4, <1>5, <1>6, <1>7 DEF Step

\* OwnConnection, with the thread that has not read connectfd yet: it is to find
\* its own connection there.
StartsOwn ==
  hasty \/ \A t \in Client :
    /\ thread[t].pc = "new" => connectfd = t
    /\ thread[t].pc \notin {"none", "new"} => Fd(t) = t

LEMMA StartsOwnStep ==
  ASSUME TypeOK, StartsOwn, [Next]_vars
  PROVE  StartsOwn'
<1> USE DEF wires, tables, marks, Fd
<1>1. CASE Accept
  <2>1. thread' = [thread EXCEPT ![Head(backlog)] = [NoThread EXCEPT !.pc = "new"]]
    BY <1>1 DEF Accept
  <2>2. Head(backlog) \in Client /\ connectfd' = Head(backlog)
    BY <1>1 DEF Accept, Stored, TypeOK
  <2>3. hasty' \/ (~ hasty /\ \A t \in Client : thread[t].pc # "new")
    BY <1>1 DEF Accept, TypeOK
  <2>4. [NoThread EXCEPT !.pc = "new"].pc = "new"
    BY DEF NoThread
  <2>5. /\ thread'[Head(backlog)].pc = "new"
        /\ \A u \in Client : u # Head(backlog) => thread'[u] = thread[u]
    BY <2>1, <2>2, <2>4 DEF TypeOK
  <2>6. CASE hasty'
    BY <2>6 DEF StartsOwn
  <2>7. CASE ~ hasty'
    <3>1. \A u \in Client : thread[u].pc # "new" /\ (thread[u].pc # "none" => thread[u].fd = u)
      BY <2>3, <2>7 DEF StartsOwn
    <3>2. ASSUME NEW u \in Client
          PROVE  /\ thread'[u].pc = "new" => connectfd' = u
                 /\ thread'[u].pc \notin {"none", "new"} => thread'[u].fd = u
      BY <3>1, <2>2, <2>5
    <3> QED
      BY <3>2 DEF StartsOwn
  <2> QED
    BY <2>6, <2>7
<1>2. ASSUME NEW t \in Client, Start(t) PROVE StartsOwn'
  BY <1>2 DEF Start, At, StartsOwn, TypeOK
<1>3. ASSUME NEW t \in Client, Step(t), ~ Start(t) PROVE StartsOwn'
  BY <1>3, StartedSteps DEF StartsOwn
<1>4. ASSUME NEW c \in Client, Connect(c) \/ Receive(c) \/ Type(c) \/ Leave(c)
      PROVE  StartsOwn'
  BY <1>4 DEF Connect, Receive, Type, Leave, StartsOwn
<1>5. CASE UNCHANGED vars
  BY <1>5 DEF vars, StartsOwn
<1> QED
  BY <1>1, <1>2, <1>3, <1>4, <1>5 DEF Next

\* OwnUser, from the entry that FindSlot has found to the one that Logout returns:
\* what a thread has found is still free and no other thread's, what it has taken
\* is its own, and user_addr has it from Entered on.
SlotsKept ==
  \/ rushed \/ muddled
  \/ \A t \in Client :
       /\ thread[t].pc = "found" =>
            /\ thread[t].slot \in Slot /\ users[thread[t].slot] = None
            /\ \A u \in Client \ {t} : thread[u].pc = "found" => thread[u].slot # thread[t].slot
       /\ thread[t].pc \in {"taken", "enter"} => thread[t].slot \in Slot /\ users[thread[t].slot] = t
       /\ thread[t].pc \in {"home", "cmd", "leave"} => addr[t] \in Slot /\ users[addr[t]] = t

\* The program counters of SlotsKept.
Held == {"found", "taken", "enter", "home", "cmd", "leave"}

\* Nothing that leaves the tables and the slots alone disturbs it.
LEMMA SlotsAside ==
  ASSUME SlotsKept, UNCHANGED tables, rushed => rushed', muddled => muddled',
         \A u \in Client :
           /\ thread'[u].slot = thread[u].slot
           /\ \/ thread'[u].pc = thread[u].pc \/ thread'[u].pc \notin Held
              \/ thread[u].pc = "taken" /\ thread'[u].pc = "enter"
              \/ {thread[u].pc, thread'[u].pc} \subseteq {"home", "cmd", "leave"}
  PROVE  SlotsKept'
BY DEF SlotsKept, tables, Held

LEMMA SlotsKeptStep ==
  ASSUME TypeOK, SlotsKept, [Next]_vars
  PROVE  SlotsKept'
<1> USE DEF wires, tables, marks
<1>0. thread \in [Client -> ThreadState]
  BY DEF TypeOK, ThreadState, ThreadPc
<1>1. CASE Accept
  <2>1. \A u \in Client : thread'[u] = IF u = Head(backlog) THEN [NoThread EXCEPT !.pc = "new"]
                                       ELSE thread[u]
    BY <1>0, <1>1 DEF Accept, TypeOK
  <2>2. [NoThread EXCEPT !.pc = "new"].pc = "new"
    BY DEF NoThread
  <2> QED
    BY <1>1, <2>1, <2>2 DEF Accept, SlotsKept
<1>2. ASSUME NEW t \in Client, Start(t) PROVE SlotsKept'
  BY <1>0, <1>2 DEF Start, At, SlotsKept
<1>3. ASSUME NEW t \in Client, FindSlot(t) PROVE SlotsKept'
  <2>1. CASE Full(FirstFree)
    BY <1>3, <2>1 DEF FindSlot, Fails, SlotsKept
  <2>2. CASE ~ Full(FirstFree)
    <3>1. UNCHANGED <<tables, muddled>>
      BY <1>3, <2>2 DEF FindSlot
    <3>2. \/ rushed'
          \/ ~ rushed /\ \A r \in Client \ {t} : thread[r].pc = "found" => thread[r].slot # FirstFree
      BY <1>3, <2>2 DEF FindSlot, TypeOK
    <3> QED
      BY <1>3, <2>2, <3>1, <3>2, FindSlotMeans DEF SlotsKept
  <2> QED
    BY <2>1, <2>2
<1>4. ASSUME NEW t \in Client, TakeSlot(t) PROVE SlotsKept'
  <2>1. t # None
    BY ServerAssumption
  <2>2. users \in [Slot -> Client \cup {Other, None}]
    BY DEF TypeOK
  <2>3. UNCHANGED <<addr, marks>> /\ users' = [users EXCEPT ![thread[t].slot] = t]
    BY <1>4 DEF TakeSlot
  <2>4. thread[t].pc = "found"
    BY <1>4 DEF TakeSlot, At
  <2>5. /\ \A u \in Client : thread'[u].slot = thread[u].slot
        /\ \A u \in Client : thread'[u].pc = IF u = t THEN "taken" ELSE thread[u].pc
    BY <1>4, GoesMeans DEF TakeSlot, ThreadPc
  <2>6. CASE rushed \/ muddled
    BY <2>3, <2>6 DEF SlotsKept
  <2>7. CASE ~ (rushed \/ muddled)
    <3>1. /\ thread[t].slot \in Slot /\ users[thread[t].slot] = None
          /\ \A u \in Client \ {t} : thread[u].pc = "found" => thread[u].slot # thread[t].slot
      BY <2>4, <2>7 DEF SlotsKept
    <3>2. /\ users'[thread[t].slot] = t
          /\ \A i \in Slot : i # thread[t].slot => users'[i] = users[i]
      BY <2>2, <2>3, <3>1
    <3>3. \A u \in Client : u # None
      BY ServerAssumption
    <3> QED
      BY <2>3, <2>4, <2>5, <2>7, <3>1, <3>2, <3>3 DEF SlotsKept
  <2> QED
    BY <2>6, <2>7
<1>5. ASSUME NEW t \in Client, Entered(t) PROVE SlotsKept'
  <2>1. CASE addr' = [addr EXCEPT ![t] = thread[t].slot] /\ Goes(t, "home") /\ UNCHANGED <<users, marks>>
    BY <1>5, <2>1, GoesMeans DEF Entered, At, ThreadPc, SlotsKept, TypeOK
  <2>2. CASE muddled /\ UNCHANGED muddled
    BY <2>2 DEF SlotsKept
  <2> QED
    BY <1>5, <2>1, <2>2 DEF Entered, Fails
<1>6. ASSUME NEW t \in Client, Left(t) PROVE SlotsKept'
  <2>1. CASE /\ addr' = [addr EXCEPT ![t] = NoSlot] /\ Goes(t, "ended") /\ UNCHANGED marks
             /\ users' = [users EXCEPT ![IF addr[t] = NoSlot THEN 0 ELSE addr[t]] = None]
    <3>1. thread[t].pc = "leave"
      BY <1>6 DEF Left, At
    <3>2. CASE rushed \/ muddled
      BY <2>1, <3>2 DEF SlotsKept
    <3>3. CASE ~ (rushed \/ muddled)
      <4>1. addr[t] \in Slot /\ users[addr[t]] = t
        BY <3>1, <3>3 DEF SlotsKept
      <4>7. addr[t] # NoSlot
        BY <4>1, ServerAssumption DEF Slot, NoSlot
      <4>2. users' = [users EXCEPT ![addr[t]] = None]
        BY <2>1, <4>7
      <4> HIDE DEF marks
      <4>3. \A i \in Slot : users'[i] = users[i] \/ (users[i] = t /\ users'[i] = None)
        BY <4>1, <4>2 DEF TypeOK
      <4>4. \A u \in Client : u # t => addr'[u] = addr[u]
        BY <2>1 DEF TypeOK
      <4>5. \A u \in Client : u # None
        BY ServerAssumption
      <4>6. "ended" \in ThreadPc
        BY DEF ThreadPc
      <4> QED
        BY <2>1, <3>1, <3>3, <4>3, <4>4, <4>5, <4>6, GoesMeans DEF SlotsKept
    <3> QED
      BY <3>2, <3>3
  <2>2. CASE muddled /\ UNCHANGED muddled
    BY <2>2 DEF SlotsKept
  <2> QED
    BY <1>6, <2>1, <2>2 DEF Left, Fails
<1> USE DEF At, ThreadPc, Held
<1>7. ASSUME NEW t \in Client, Name(t) \/ NoName(t) \/ Enter(t) PROVE SlotsKept'
  <2>1. \A u \in Client : /\ thread'[u].slot = thread[u].slot
                          /\ \/ thread'[u].pc = thread[u].pc \/ thread'[u].pc \notin Held
                             \/ thread[u].pc = "taken" /\ thread'[u].pc = "enter"
    BY <1>7, GoesMeans DEF Name, NoName, Enter
  <2>2. UNCHANGED <<users, addr, rushed>>
    BY <1>7 DEF Name, NoName, Enter
  <2>3. muddled => muddled'
    <3>1. muddled' = muddled \/ muddled' = (muddled \/ Changing # {})
      BY <1>7 DEF Name, NoName, Enter
    <3>2. muddled \in BOOLEAN
      BY DEF TypeOK
    <3> QED
      BY <3>1, <3>2
  <2>4. UNCHANGED tables
    BY <2>2
  <2> HIDE DEF Held, tables
  <2> QED
    BY <2>1, <2>2, <2>3, <2>4, SlotsAside
<1>8. ASSUME NEW t \in Client, Home(t) \/ Exit(t) \/ HangUp(t) PROVE SlotsKept'
  <2>1. \A u \in Client : /\ thread'[u].slot = thread[u].slot
                          /\ \/ thread'[u].pc = thread[u].pc
                             \/ {thread[u].pc, thread'[u].pc} \subseteq {"home", "cmd", "leave"}
    BY <1>8, GoesMeans DEF Home, Exit, HangUp, Leaving, Reads, Fails
  <2>2. UNCHANGED <<users, addr, rushed>>
    BY <1>8 DEF Home, Exit, HangUp, Leaving, Fails
  <2>3. muddled => muddled'
    <3>1. muddled' = muddled \/ muddled' = (muddled \/ Changing # {})
      BY <1>8 DEF Home, Exit, HangUp, Leaving, Fails
    <3>2. muddled \in BOOLEAN
      BY DEF TypeOK
    <3> QED
      BY <3>1, <3>2
  <2>4. UNCHANGED tables
    BY <2>2
  <2> HIDE DEF Held, tables
  <2> QED
    BY <2>1, <2>2, <2>3, <2>4, SlotsAside
<1>9. ASSUME NEW t \in Client, OneByte(t) \/ Answer(t) \/ Crash(t) PROVE SlotsKept'
  BY <1>9, SlotsAside DEF OneByte, Answer, Crash, Fails
<1>10. ASSUME NEW c \in Client, Connect(c) \/ Receive(c) \/ Type(c) \/ Leave(c)
       PROVE  SlotsKept'
  BY <1>10, SlotsAside DEF Connect, Receive, Type, Leave
<1>11. CASE UNCHANGED vars
  BY <1>11, SlotsAside DEF vars
<1> QED
  BY <1>1, <1>2, <1>3, <1>4, <1>5, <1>6, <1>7, <1>8, <1>9, <1>10, <1>11 DEF Next, Step

\* A thread has a connection and a User that no other thread has (main.cpp:547,
\* UserManager.cpp:31, 46, 77), but for the races OwnInv names: for any number of
\* clients, whatever entries were taken before.
THEOREM OwnInvHolds == Spec => []OwnInv
<1> DEFINE IInv == TypeOK /\ Connected /\ StartsOwn /\ SlotsKept
<1>1. Init => IInv
  <2> SUFFICES ASSUME Init PROVE IInv
    OBVIOUS
  <2>1. \A t \in Client : thread[t].pc = "none"
    BY DEF Init, NoThread
  <2> QED
    BY <2>1, ServerTypeInit DEF StartsOwn, SlotsKept
<1>2. IInv /\ [Next]_vars => IInv'
  BY ServerTypeStep, StartsOwnStep, SlotsKeptStep
<1>3. IInv => OwnInv
  BY DEF OwnInv, OwnConnection, OwnUser, StartsOwn, SlotsKept
<1> QED
  BY <1>1, <1>2, <1>3, PTL DEF Spec

-----------------------------------------------------------------------------
\* InTurn.

Queued(c) == \E k \in DOMAIN backlog : backlog[k] = c

\* A connection waits to be accepted once.
Once == \A j, k \in DOMAIN backlog : j # k => backlog[j] # backlog[k]

\* What a connection is like: as InTurn says, with silence until its thread runs,
\* and the last line sent the last in the stream.
Talk(c) ==
  /\ thread[c].pc \in {"none", "new"} =>
       toServer[c] = <<>> /\ toClient[c] = <<>> /\ client[c] # "typing" /\ Fd(c) = None
  /\ client[c] = "away" => thread[c].pc = "none" /\ ~ Queued(c)
  /\ Queued(c) => thread[c].pc = "none"
  /\ toServer[c] # <<>> => last[c] = toServer[c][Len(toServer[c])]
  /\ client[c] \in {"waiting", "typing"} =>
       /\ c \notin lengthy => Turns(c) <= 1
       /\ Turns(c) = 0 => Ignored(c) \/ thread[c].pc \in {"leave", "ended"}

Talks == Once /\ \A c \in Client : Talk(c)

\* Where nothing of a connection has changed, it is as before.
LEMMA TalkAside ==
  ASSUME NEW c \in Client, Talk(c),
         client'[c] = client[c], last'[c] = last[c], toServer'[c] = toServer[c],
         toClient'[c] = toClient[c], Queued(c)' <=> Queued(c),
         thread'[c].pc = thread[c].pc, thread'[c].fd = thread[c].fd,
         c \in lengthy' <=> c \in lengthy
  PROVE  Talk(c)'
<1>1. Turns(c)' = Turns(c)
  BY DEF Turns, Flag, Queued
<1>2. Ignored(c)' <=> Ignored(c)
  BY DEF Ignored
<1> QED
  BY <1>1, <1>2 DEF Talk, Fd

\* A connection's thread is at work on it alone.
LEMMA ThreadAside ==
  ASSUME TypeOK, StartsOwn, ~ hasty, NEW t \in Client, Step(t), NEW c \in Client, c # t
  PROVE  /\ client'[c] = client[c] /\ last'[c] = last[c] /\ toServer'[c] = toServer[c]
         /\ toClient'[c] = toClient[c] /\ UNCHANGED backlog
         /\ thread'[c].pc = thread[c].pc /\ thread'[c].fd = thread[c].fd
         /\ c \in lengthy' <=> c \in lengthy
<1> USE DEF wires, tables, marks
<1>1. thread[t].pc = "new" => connectfd = t
  BY DEF StartsOwn
<1>2. thread[t].pc \notin {"none", "new"} => Fd(t) = t
  BY DEF StartsOwn
<1>3. /\ thread \in [Client -> ThreadState] /\ toServer \in [Client -> Seq(Text)]
      /\ toClient \in [Client -> Seq({"full", "part"})]
  BY DEF TypeOK, ThreadState, ThreadPc
<1>4. \A p : Said(toClient, t, p)[c] = toClient[c]
  BY <1>3 DEF Said
<1>5. [toServer EXCEPT ![t] = <<>>][c] = toServer[c]
  BY <1>3
<1>6. thread'[c].pc = thread[c].pc /\ thread'[c].fd = thread[c].fd
  BY <1>3, StartedSteps DEF Start
<1>7. UNCHANGED <<client, last, backlog>>
  BY DEF Step, Start, Name, NoName, FindSlot, TakeSlot, Enter, Entered, Home, OneByte,
         Answer, Crash, Exit, HangUp, Left, Fails
<1>8. toServer'[c] = toServer[c]
  BY <1>2, <1>5 DEF Step, Start, Name, NoName, FindSlot, TakeSlot, Enter, Entered, Home, OneByte,
         Answer, Crash, Exit, HangUp, Left, Fails, At, Reads
<1>9. toClient'[c] = toClient[c]
  BY <1>1, <1>2, <1>4 DEF Step, Start, Name, NoName, FindSlot, TakeSlot, Enter, Entered, Home,
         OneByte, Answer, Crash, Exit, HangUp, Left, Fails, At, Reads, AskAgain
<1>10. c \in lengthy' <=> c \in lengthy
  BY <1>2 DEF Step, Start, Name, NoName, FindSlot, TakeSlot, Enter, Entered, Home, OneByte,
         Answer, Crash, Exit, HangUp, Left, Fails, At, Reads
<1> QED
  BY <1>6, <1>7, <1>8, <1>9, <1>10

\* The thread has the turn, and has it still.
LEMMA TalkGoesOn ==
  ASSUME TypeOK, NEW t \in Client, Talk(t),
         UNCHANGED <<client, last, backlog, lengthy>>,
         toServer'[t] = toServer[t], toClient'[t] = toClient[t],
         thread[t].pc \notin {"none", "new"}, thread'[t].pc \notin {"none", "new"},
         thread[t].pc \in {"leave", "ended"} => thread'[t].pc \in {"leave", "ended"},
         thread[t].pc \in {"login", "found", "taken", "enter", "home"}
           <=> thread'[t].pc \in {"login", "found", "taken", "enter", "home"}
  PROVE  Talk(t)'
<1>1. Queued(t)' <=> Queued(t)
  BY DEF Queued
<1>2. Turns(t)' = Turns(t)
  BY DEF Turns, Flag
<1>3. Ignored(t)' <=> Ignored(t)
  BY DEF Ignored
<1> QED
  BY <1>1, <1>2, <1>3 DEF Talk

\* The client has gone: nothing is asked of a connection whose thread has started
\* but that the last line is right.
LEMMA TalkWithNobody ==
  ASSUME NEW t \in Client, Talk(t), client[t] = "gone", UNCHANGED <<client, last, backlog>>,
         toServer'[t] = toServer[t] \/ toServer'[t] = <<>>,
         thread[t].pc # "none", thread'[t].pc \notin {"none", "new"}
  PROVE  Talk(t)'
<1>1. Queued(t)' <=> Queued(t)
  BY DEF Queued
<1> QED
  BY <1>1 DEF Talk

\* The thread has taken the turn from the client, and gives it back with an answer.
LEMMA TalkAnswered ==
  ASSUME TypeOK, NEW t \in Client, Talk(t), client[t] # "gone", NEW pieces,
         pieces = <<"part">> \/ (pieces = <<"full", "part">> /\ t \in lengthy'),
         UNCHANGED <<client, last, backlog>>, t \in lengthy => t \in lengthy',
         toServer'[t] = <<>>, toClient'[t] = toClient[t] \o pieces,
         thread[t].pc # "none", thread'[t].pc \in {"name", "cmd"},
         \/ toServer[t] # <<>>
         \/ thread[t].pc \in {"new", "home"}
  PROVE  Talk(t)'
<1>1. ~ Queued(t)' /\ ~ Queued(t)
  BY DEF Queued, Talk
<1>2. /\ toServer[t] \in Seq(Text) /\ toClient[t] \in Seq({"full", "part"})
      /\ toServer[t] # <<>> => Len(toServer[t]) >= 1
  BY DEF TypeOK
<1>3. /\ Len(toClient[t] \o <<"part">>) = Len(toClient[t]) + 1
      /\ Len(toClient[t] \o <<"full", "part">>) = Len(toClient[t]) + 2
  BY <1>2
<1>4. Turns(t)' = Len(toClient'[t]) + Flag(client[t] = "typing")
  <2>1. Turns(t)' = 0 + Len(toClient'[t]) + Flag(client[t] = "typing") + 0 + 0
    BY <1>1 DEF Turns, Flag, Queued
  <2>2. Len(toClient'[t]) \in Nat
    BY <1>2, <1>3
  <2> QED
    BY <2>1, <2>2 DEF Flag
<1>5. Turns(t) \in Nat /\ Turns(t) >= 1 + Len(toClient[t]) + Flag(client[t] = "typing")
  <2> DEFINE a == Flag(Queued(t) \/ thread[t].pc = "new")
             b == Flag(thread[t].pc \in {"login", "found", "taken", "enter", "home"})
             d == Flag(client[t] = "typing")
             n == Len(toServer[t])
             m == Len(toClient[t])
  <2>1. n \in Nat /\ m \in Nat /\ a \in {0, 1} /\ b \in {0, 1} /\ d \in {0, 1}
    BY <1>2 DEF Flag
  <2>2. Turns(t) = n + m + d + a + b
    BY DEF Turns, Queued
  <2>3. n >= 1 \/ a = 1 \/ b = 1
    BY <1>2 DEF Flag
  <2> HIDE DEF a, b, d, n, m
  <2>4. Turns(t) \in Nat /\ Turns(t) >= 1 + m + d
    BY <2>1, <2>2, <2>3
  <2> QED
    BY <2>4 DEF m, d
<1>6. Flag(client[t] = "typing") \in {0, 1}
  BY DEF Flag
<1>7. /\ Turns(t)' \in Nat /\ Turns(t)' >= 1
      /\ t \notin lengthy' => Turns(t)' <= Turns(t)
  <2> DEFINE d == Flag(client[t] = "typing")
             m == Len(toClient[t])
             k == Len(toClient'[t])
  <2>1. m \in Nat /\ d \in {0, 1} /\ (k = m + 1 \/ (k = m + 2 /\ t \in lengthy'))
    <3>1. m \in Nat
      BY <1>2
    <3>2. CASE pieces = <<"part">>
      BY <1>3, <1>6, <3>1, <3>2
    <3>3. CASE pieces = <<"full", "part">> /\ t \in lengthy'
      BY <1>3, <1>6, <3>1, <3>3
    <3> QED
      BY <3>2, <3>3
  <2>2. Turns(t)' = k + d /\ Turns(t) >= 1 + m + d /\ Turns(t) \in Nat
    BY <1>4, <1>5
  <2> HIDE DEF d, m, k
  <2> QED
    BY <2>1, <2>2
<1>8. /\ client[t] \in {"waiting", "typing"} => (t \notin lengthy => Turns(t) <= 1)
      /\ client[t] # "away"
  BY DEF Talk
<1>9. client[t] \in {"waiting", "typing"} => (t \notin lengthy' => Turns(t)' <= 1)
  BY <1>5, <1>7, <1>8
<1> QED
  BY <1>1, <1>7, <1>8, <1>9 DEF Talk

\* The other steps of a thread, on its own connection.
LEMMA OwnTalk ==
  ASSUME TypeOK, StartsOwn, ~ hasty, NEW t \in Client, Talk(t), Step(t), ~ down'
  PROVE  Talk(t)'
<1> USE DEF wires, tables, marks
<1>1. thread[t].pc = "new" => connectfd = t
  BY DEF StartsOwn
<1>2. thread[t].pc \notin {"none", "new"} => Fd(t) = t
  BY DEF StartsOwn
<1>3. /\ thread \in [Client -> ThreadState] /\ toServer \in [Client -> Seq(Text)]
      /\ toClient \in [Client -> Seq({"full", "part"})]
  BY DEF TypeOK, ThreadState, ThreadPc
<1>4. \A p : Said(toClient, t, p)[t] = IF client[t] # "gone" THEN toClient[t] \o p ELSE toClient[t]
  BY <1>3 DEF Said
<1>5. [toServer EXCEPT ![t] = <<>>][t] = <<>>
  BY <1>3
<1>6. ~ Fails
  BY DEF Fails
<1>7. CASE Start(t)
  <2>1. thread[t].pc = "new" /\ thread'[t].pc = "name" /\ toServer[t] = <<>>
        /\ toClient' = Said(toClient, t, <<"part">>) /\ UNCHANGED <<toServer, client, last, backlog, lengthy>>
    BY <1>1, <1>3, <1>7 DEF Start, At, Talk
  <2>2. CASE client[t] = "gone"
    BY <2>1, <2>2, TalkWithNobody
  <2>3. CASE client[t] # "gone"
    BY <1>4, <2>1, <2>3, TalkAnswered
  <2> QED
    BY <2>2, <2>3
<1>8. CASE Name(t)
  <2>1. /\ thread[t].pc = "name" /\ Fd(t) = t /\ toServer[t] # <<>> /\ toServer'[t] = <<>>
        /\ UNCHANGED <<client, last, backlog, lengthy>>
    BY <1>2, <1>5, <1>8 DEF Name, At
  <2>2. \/ Goes(t, "login") /\ UNCHANGED toClient
        \/ toClient' = Said(toClient, t, <<"part">>) /\ UNCHANGED thread
    BY <1>8, <2>1 DEF Name, AskAgain
  <2>3. CASE client[t] = "gone"
    BY <2>1, <2>2, <2>3, GoesMeans, TalkWithNobody DEF ThreadPc
  <2>4. CASE client[t] # "gone" /\ toClient' = Said(toClient, t, <<"part">>) /\ UNCHANGED thread
    BY <1>4, <2>1, <2>4, TalkAnswered
  <2>5. CASE client[t] # "gone" /\ Goes(t, "login") /\ UNCHANGED toClient
    <3>1. thread'[t].pc = "login"
      BY <2>5, GoesMeans DEF ThreadPc
    <3>2. Queued(t)' <=> Queued(t)
      BY <2>1 DEF Queued
    <3>3. Len(toServer[t]) \in Nat \ {0} /\ Len(toClient[t]) \in Nat
      BY <1>3, <2>1
    <3>4. Turns(t)' = Len(toClient[t]) + Flag(client[t] = "typing") + Flag(Queued(t)) + 1
      BY <2>1, <2>5, <3>1, <3>3 DEF Turns, Flag, Queued
    <3>5. Turns(t) = Len(toServer[t]) + Len(toClient[t]) + Flag(client[t] = "typing") + Flag(Queued(t))
      BY <2>1, <3>3 DEF Turns, Flag, Queued
    <3>8. Flag(client[t] = "typing") \in {0, 1} /\ Flag(Queued(t)) \in {0, 1}
      BY DEF Flag
    <3>6. Turns(t)' \in Nat /\ Turns(t) \in Nat /\ Turns(t)' >= 1 /\ Turns(t)' <= Turns(t)
      <4> DEFINE d == Flag(client[t] = "typing")
                 q == Flag(Queued(t))
                 n == Len(toServer[t])
                 m == Len(toClient[t])
      <4>1. n \in Nat \ {0} /\ m \in Nat /\ d \in {0, 1} /\ q \in {0, 1} /\ Turns(t)' = m + d + q + 1
            /\ Turns(t) = n + m + d + q
        BY <3>3, <3>4, <3>5, <3>8
      <4> HIDE DEF d, q, n, m
      <4> QED
        BY <4>1
    <3>7. client[t] \in {"waiting", "typing"} => (t \notin lengthy => Turns(t)' <= 1)
      BY <3>6 DEF Talk
    <3> QED
      BY <2>1, <3>1, <3>2, <3>6, <3>7 DEF Talk
  <2> QED
    BY <2>2, <2>3, <2>4, <2>5
<1>9. CASE FindSlot(t)
  <2>1. ~ Full(FirstFree)
    BY <1>6, <1>9 DEF FindSlot
  <2>2. thread'[t].pc = "found"
    BY <1>9, <2>1, FindSlotMeans
  <2> QED
    BY <1>9, <2>1, <2>2, TalkGoesOn DEF FindSlot, At
<1>10. CASE TakeSlot(t) \/ Enter(t) \/ Entered(t) \/ Left(t)
  <2>1. \/ thread[t].pc = "found" /\ thread'[t].pc = "taken"
        \/ thread[t].pc = "taken" /\ thread'[t].pc = "enter"
        \/ thread[t].pc = "enter" /\ thread'[t].pc = "home"
        \/ thread[t].pc = "leave" /\ thread'[t].pc = "ended"
    BY <1>6, <1>10, GoesMeans DEF TakeSlot, Enter, Entered, Left, At, ThreadPc
  <2>2. UNCHANGED <<client, last, backlog, lengthy, toServer, toClient>>
    BY <1>6, <1>10 DEF TakeSlot, Enter, Entered, Left
  <2> QED
    BY <2>1, <2>2, TalkGoesOn
<1>11. CASE Home(t)
  <2>1. thread[t].pc = "home" /\ Fd(t) = t /\ thread'[t].pc = "cmd"
    BY <1>2, <1>6, <1>11, GoesMeans DEF Home, At, ThreadPc
  <2>2. toClient' = Said(toClient, t, <<"part">>) /\ UNCHANGED <<client, last, backlog, lengthy, toServer>>
    BY <1>6, <1>11, <2>1 DEF Home, Welcome
  <2>3. CASE client[t] = "gone"
    BY <2>1, <2>2, <2>3, TalkWithNobody
  <2>4. CASE client[t] # "gone"
    <3> DEFINE d == Flag(client[t] = "typing")
               n == Len(toServer[t])
               m == Len(toClient[t])
    <3>1. ~ Queued(t) /\ ~ Queued(t)'
      BY <2>1, <2>2 DEF Talk, Queued
    <3>2. n \in Nat /\ m \in Nat /\ d \in {0, 1} /\ Len(toClient'[t]) = m + 1
      <4>1. toClient'[t] = toClient[t] \o <<"part">>
        BY <1>4, <2>2, <2>4
      <4>2. toClient[t] \in Seq({"full", "part"}) /\ toServer[t] \in Seq(Text)
        BY <1>3
      <4> QED
        BY <4>1, <4>2 DEF Flag
    <3>3. Turns(t) = n + m + d + 0 + 1
      BY <2>1, <3>1 DEF Turns, Flag, Queued
    <3>4. Turns(t)' = n + (m + 1) + d + 0 + 0
      BY <2>1, <2>2, <3>1, <3>2 DEF Turns, Flag, Queued
    <3> HIDE DEF d, n, m
    <3>5. Turns(t)' \in Nat /\ Turns(t)' >= 1 /\ Turns(t)' = Turns(t)
      BY <3>2, <3>3, <3>4
    <3> QED
      BY <2>1, <2>2, <3>1, <3>5 DEF Talk
  <2> QED
    BY <2>3, <2>4
<1>12. CASE OneByte(t)
  <2>1. /\ thread[t].pc = "cmd" /\ Fd(t) = t /\ toServer[t] = <<"letter">> /\ toServer'[t] = <<>>
        /\ UNCHANGED <<client, last, backlog, lengthy, thread, toClient>>
    BY <1>2, <1>5, <1>12 DEF OneByte, At
  <2>2. last'[t] = "letter"
    BY <2>1 DEF Talk
  <2>3. Ignored(t)'
    BY <2>1, <2>2 DEF Ignored
  <2> DEFINE d == Flag(client[t] = "typing")
             m == Len(toClient[t])
  <2>4. ~ Queued(t) /\ ~ Queued(t)'
    BY <2>1 DEF Talk, Queued
  <2>5. m \in Nat /\ d \in {0, 1}
    BY <1>3 DEF Flag
  <2>6. Turns(t) = 1 + m + d + 0 + 0 /\ Turns(t)' = 0 + m + d + 0 + 0
    BY <2>1, <2>4 DEF Turns, Flag, Queued
  <2> HIDE DEF d, m
  <2>7. Turns(t)' \in Nat /\ Turns(t) = Turns(t)' + 1
    BY <2>5, <2>6
  <2>8. client[t] \in {"waiting", "typing"} => (t \notin lengthy => Turns(t)' <= 1)
    BY <2>7 DEF Talk
  <2> QED
    BY <2>1, <2>3, <2>4, <2>8 DEF Talk
<1>13. CASE Answer(t)
  <2>1. /\ thread[t].pc = "cmd" /\ Fd(t) = t /\ toServer[t] # <<>> /\ toServer'[t] = <<>>
        /\ UNCHANGED <<client, last, backlog, thread>>
    BY <1>2, <1>5, <1>6, <1>13 DEF Answer, Reads, At
  <2>2. \/ toClient' = Said(toClient, t, <<"part">>) /\ UNCHANGED lengthy
        \/ toClient' = Said(toClient, t, <<"full", "part">>) /\ lengthy' = lengthy \cup {t}
    BY <1>6, <1>13, <2>1 DEF Answer
  <2>3. CASE client[t] = "gone"
    BY <2>1, <2>3, TalkWithNobody
  <2>4. CASE client[t] # "gone" /\ toClient' = Said(toClient, t, <<"part">>) /\ UNCHANGED lengthy
    BY <1>4, <2>1, <2>4, TalkAnswered
  <2>5. CASE client[t] # "gone" /\ toClient' = Said(toClient, t, <<"full", "part">>)
             /\ lengthy' = lengthy \cup {t}
    BY <1>4, <2>1, <2>5, TalkAnswered
  <2> QED
    BY <2>2, <2>3, <2>4, <2>5
<1>14. CASE Exit(t)
  <2>1. /\ thread[t].pc = "cmd" /\ Fd(t) = t /\ toServer[t] # <<>> /\ toServer'[t] = <<>>
        /\ UNCHANGED <<client, last, backlog, lengthy, toClient>> /\ thread'[t].pc = "leave"
    BY <1>2, <1>5, <1>14, GoesMeans DEF Exit, Reads, At, Leaving, ThreadPc
  <2> DEFINE d == Flag(client[t] = "typing")
             n == Len(toServer[t])
             m == Len(toClient[t])
  <2>2. ~ Queued(t) /\ ~ Queued(t)'
    BY <2>1 DEF Talk, Queued
  <2>3. n \in Nat /\ m \in Nat /\ d \in {0, 1}
    BY <1>3 DEF Flag
  <2>4. Turns(t) = n + m + d + 0 + 0
    BY <2>1, <2>2 DEF Turns, Flag, Queued
  <2>5. Turns(t)' = 0 + m + d + 0 + 0
    BY <2>1, <2>2 DEF Turns, Flag, Queued
  <2> HIDE DEF d, n, m
  <2>6. Turns(t)' \in Nat /\ Turns(t) \in Nat /\ Turns(t)' <= Turns(t)
    BY <2>3, <2>4, <2>5
  <2>7. client[t] \in {"waiting", "typing"} => (t \notin lengthy => Turns(t)' <= 1)
    BY <2>6 DEF Talk
  <2> QED
    BY <2>1, <2>2, <2>7 DEF Talk
<1>15. CASE NoName(t) \/ HangUp(t)
  <2>1. /\ thread[t].pc # "none" /\ client[t] = "gone" /\ thread'[t].pc \notin {"none", "new"}
        /\ UNCHANGED <<client, last, backlog, toServer>>
    BY <1>2, <1>15, GoesMeans DEF NoName, HangUp, Closed, At, Leaving, ThreadPc
  <2> QED
    BY <2>1, TalkWithNobody
<1>16. ~ Crash(t)
  BY <1>6 DEF Crash
<1> QED
  BY <1>7, <1>8, <1>9, <1>10, <1>11, <1>12, <1>13, <1>14, <1>15, <1>16 DEF Step

\* The backlog when a connection is made, and when one is accepted.
LEMMA AppendQueued ==
  ASSUME TypeOK, Once, NEW c \in Client, ~ Queued(c), backlog' = Append(backlog, c)
  PROVE  Once' /\ \A d \in Client : Queued(d)' <=> Queued(d) \/ d = c
<1> DEFINE n == Len(backlog)
<1>1. n \in Nat /\ DOMAIN backlog = 1 .. n /\ DOMAIN backlog' = 1 .. n + 1
  BY DEF TypeOK
<1>2. backlog'[n + 1] = c /\ \A k \in 1 .. n : backlog'[k] = backlog[k]
  BY DEF TypeOK
<1> HIDE DEF n
<1> QED
  BY <1>1, <1>2 DEF Once, Queued

LEMMA TailQueued ==
  ASSUME TypeOK, Once, backlog # <<>>, backlog' = Tail(backlog)
  PROVE  Once' /\ \A d \in Client : Queued(d)' <=> Queued(d) /\ d # Head(backlog)
<1> DEFINE n == Len(backlog)
<1>1. n \in Nat \ {0} /\ DOMAIN backlog = 1 .. n /\ DOMAIN backlog' = 1 .. n - 1
  BY DEF TypeOK
<1>2. Head(backlog) = backlog[1] /\ \A k \in 1 .. n - 1 : backlog'[k] = backlog[k + 1]
  BY DEF TypeOK
<1>3. \A k \in 2 .. n : k - 1 \in 1 .. n - 1 /\ backlog[k] = backlog'[k - 1]
  BY <1>1, <1>2
<1> HIDE DEF n
<1>4. Once'
  BY <1>1, <1>2 DEF Once
<1>5. ASSUME NEW d \in Client, Queued(d)' PROVE Queued(d) /\ d # Head(backlog)
  <2>1. PICK k \in 1 .. n - 1 : backlog'[k] = d
    BY <1>1, <1>5 DEF Queued
  <2> QED
    BY <1>1, <1>2, <2>1 DEF Queued, Once
<1>6. ASSUME NEW d \in Client, Queued(d), d # Head(backlog) PROVE Queued(d)'
  <2>1. PICK k \in 1 .. n : backlog[k] = d
    BY <1>1, <1>6 DEF Queued
  <2>2. k # 1
    BY <1>2, <1>6, <2>1
  <2>3. k \in 2 .. n
    BY <1>1, <2>1, <2>2
  <2>4. k - 1 \in DOMAIN backlog' /\ backlog'[k - 1] = d
    BY <1>1, <1>3, <2>1, <2>3
  <2> QED
    BY <2>4 DEF Queued
<1> QED
  BY <1>4, <1>5, <1>6

\* Talks, at every step.
LEMMA TalksStep ==
  ASSUME TypeOK, StartsOwn, Talks, ~ hasty', ~ down', [Next]_vars
  PROVE  Talks'
<1> USE DEF wires, tables, marks
<1>1. CASE Accept
  <2> PICK h \in Client : h = Head(backlog)
    BY <1>1 DEF Accept, TypeOK
  <2>1. /\ h = Head(backlog) /\ backlog # <<>> /\ h = backlog[1] /\ Len(backlog) \in Nat \ {0}
        /\ backlog' = Tail(backlog) /\ UNCHANGED <<client, last, toServer, toClient, lengthy>>
        /\ thread' = [thread EXCEPT ![h] = [NoThread EXCEPT !.pc = "new"]]
    BY <1>1 DEF Accept, TypeOK
  <2>2. Once' /\ \A c \in Client : Queued(c)' <=> Queued(c) /\ c # h
    BY <2>1, TailQueued DEF Talks
  <2>3. thread'[h].pc = "new" /\ thread'[h].fd = None
    BY <2>1 DEF TypeOK, NoThread
  <2>4. \A c \in Client : c # h => thread'[c] = thread[c]
    BY <2>1 DEF TypeOK
  <2>5. Talk(h) /\ Queued(h)
    BY <2>1 DEF Talks, Queued
  <2>6. ~ Queued(h)'
    BY <2>1, <2>2
  <2>7. Turns(h)' = Turns(h)
    <3>1. Queued(h) /\ thread[h].pc = "none"
      BY <2>5 DEF Talk
    <3> QED
      BY <2>1, <2>3, <3>1 DEF Turns, Flag, Queued
  <2>8. Talk(h)'
    BY <2>1, <2>3, <2>5, <2>6, <2>7 DEF Talk, Ignored, Fd
  <2>9. ASSUME NEW c \in Client, c # h PROVE Talk(c)'
    BY <2>1, <2>2, <2>4, <2>9, TalkAside DEF Talks
  <2> QED
    BY <2>2, <2>8, <2>9 DEF Talks
<1>2. ASSUME NEW t \in Client, Step(t) PROVE Talks'
  <2>1. ~ hasty
    BY <1>2, StartedSteps DEF Start
  <2>2. UNCHANGED backlog
    BY <1>2 DEF Step, Start, Name, NoName, FindSlot, TakeSlot, Enter, Entered, Home, OneByte,
         Answer, Crash, Exit, HangUp, Left, Fails
  <2>3. Talk(t)'
    BY <1>2, <2>1, OwnTalk DEF Talks
  <2>4. ASSUME NEW c \in Client, c # t PROVE Talk(c)'
    <3>1. Queued(c)' <=> Queued(c)
      BY <2>2 DEF Queued
    <3> QED
      BY <1>2, <2>1, <2>4, <3>1, ThreadAside, TalkAside DEF Talks
  <2> QED
    BY <2>2, <2>3, <2>4 DEF Talks, Once
<1>3. ASSUME NEW c \in Client, Connect(c) PROVE Talks'
  <2>1. /\ client[c] = "away" /\ UNCHANGED <<last, toServer, toClient, thread, lengthy>>
        /\ Talk(c)
    BY <1>3 DEF Connect, Talks
  <2>2. /\ thread[c].pc = "none" /\ ~ Queued(c) /\ toServer[c] = <<>> /\ toClient[c] = <<>>
        /\ Fd(c) = None
    BY <2>1 DEF Talk
  <2>3. \/ client' = [client EXCEPT ![c] = "waiting"] /\ backlog' = Append(backlog, c)
        \/ client' = [client EXCEPT ![c] = "gone"] /\ (backlog' = backlog \/ backlog' = Append(backlog, c))
    BY <1>3 DEF Connect
  <2>4. Once' /\ (\A d \in Client \ {c} : Queued(d)' <=> Queued(d))
        /\ (backlog' = Append(backlog, c) => Queued(c)')
    <3>1. CASE backlog' = backlog
      <4>1. backlog # Append(backlog, c)
        BY DEF TypeOK
      <4> QED
        BY <3>1, <4>1 DEF Once, Queued, Talks
    <3>2. CASE backlog' = Append(backlog, c)
      BY <2>2, <3>2, AppendQueued DEF Talks
    <3> QED
      BY <2>3, <3>1, <3>2
  <2>5. \A d \in Client : d # c => client'[d] = client[d]
    BY <2>3 DEF TypeOK
  <2>6. client'[c] = "gone" \/ (client'[c] = "waiting" /\ Queued(c)')
    BY <2>3, <2>4 DEF TypeOK
  <2>7. client'[c] = "waiting" => Turns(c)' = 1
    BY <2>1, <2>2, <2>6 DEF Turns, Flag, Queued
  <2>8. Talk(c)'
    BY <2>1, <2>2, <2>6, <2>7 DEF Talk, Fd
  <2>9. ASSUME NEW d \in Client, d # c PROVE Talk(d)'
    BY <2>1, <2>4, <2>5, <2>9, TalkAside DEF Talks
  <2> QED
    BY <2>4, <2>8, <2>9 DEF Talks
<1>4. ASSUME NEW c \in Client, Receive(c) PROVE Talks'
  <2>1. /\ client[c] = "waiting" /\ UNCHANGED <<last, toServer, thread, backlog, lengthy>>
        /\ client' = [client EXCEPT ![c] = "typing"] /\ Talk(c)
    BY <1>4 DEF Receive, Talks
  <2>2. PICK k \in 1 .. Len(toClient[c]) :
          toClient' = [toClient EXCEPT ![c] = SubSeq(@, k + 1, Len(@))]
    BY <1>4 DEF Receive
  <2> DEFINE n == Len(toServer[c])
             m == Len(toClient[c])
  <2>3. /\ n \in Nat /\ m \in Nat \ {0} /\ k \in 1 .. m
        /\ toClient[c] # <<>> /\ Len(toClient'[c]) = m - k
    <3>1. toClient[c] \in Seq({"full", "part"}) /\ toServer[c] \in Seq(Text)
      BY DEF TypeOK
    <3>2. toClient'[c] = SubSeq(toClient[c], k + 1, Len(toClient[c]))
      BY <2>2 DEF TypeOK
    <3> QED
      BY <3>1, <3>2
  <2>4. client'[c] = "typing" /\ \A d \in Client : d # c => client'[d] = client[d] /\ toClient'[d] = toClient[d]
    BY <2>1, <2>2 DEF TypeOK
  <2>5. \A d \in Client : Queued(d)' <=> Queued(d)
    BY <2>1 DEF Queued
  <2> DEFINE q == Flag(Queued(c) \/ thread[c].pc = "new")
             l == Flag(thread[c].pc \in {"login", "found", "taken", "enter", "home"})
  <2>6. Turns(c) = n + m + 0 + q + l
    BY <2>1 DEF Turns, Flag, Queued
  <2>7. Turns(c)' = n + (m - k) + 1 + q + l
    BY <2>1, <2>3, <2>4 DEF Turns, Flag, Queued
  <2>8. q \in {0, 1} /\ l \in {0, 1}
    BY DEF Flag
  <2> HIDE DEF n, m, q, l
  <2>9. Turns(c) \in Nat /\ Turns(c)' \in Nat /\ Turns(c)' <= Turns(c) /\ Turns(c)' >= 1
    BY <2>3, <2>6, <2>7, <2>8
  <2>10. thread[c].pc \notin {"none", "new"}
    BY <2>1, <2>3 DEF Talk
  <2>11. c \notin lengthy => Turns(c) <= 1
    BY <2>1 DEF Talk
  <2>12. Talk(c)'
    BY <2>1, <2>4, <2>5, <2>9, <2>10, <2>11 DEF Talk
  <2>13. ASSUME NEW d \in Client, d # c PROVE Talk(d)'
    BY <2>1, <2>4, <2>5, <2>13, TalkAside DEF Talks
  <2> QED
    BY <2>1, <2>12, <2>13 DEF Talks, Once
<1>5. ASSUME NEW c \in Client, Type(c) PROVE Talks'
  <2>1. PICK x \in Text :
          /\ last' = [last EXCEPT ![c] = x]
          /\ toServer' = [toServer EXCEPT ![c] = Append(@, x)]
          /\ client' = [client EXCEPT ![c] = IF x = "exit" THEN "gone" ELSE "waiting"]
    BY <1>5 DEF Type
  <2>2. client[c] = "typing" /\ UNCHANGED <<toClient, thread, backlog, lengthy>> /\ Talk(c)
    BY <1>5 DEF Type, Talks
  <2> DEFINE n == Len(toServer[c])
             m == Len(toClient[c])
  <2>3. /\ n \in Nat /\ m \in Nat /\ Len(toServer'[c]) = n + 1 /\ toServer'[c][n + 1] = x
        /\ last'[c] = x
    <3>1. toClient[c] \in Seq({"full", "part"}) /\ toServer[c] \in Seq(Text)
      BY DEF TypeOK
    <3>2. toServer'[c] = Append(toServer[c], x) /\ last'[c] = x
      BY <2>1 DEF TypeOK
    <3> QED
      BY <3>1, <3>2
  <2>4. /\ client'[c] \in {"gone", "waiting"}
        /\ \A d \in Client : d # c => /\ client'[d] = client[d] /\ toServer'[d] = toServer[d]
                                      /\ last'[d] = last[d]
    BY <2>1 DEF TypeOK
  <2>5. \A d \in Client : Queued(d)' <=> Queued(d)
    BY <2>2 DEF Queued
  <2> DEFINE q == Flag(Queued(c) \/ thread[c].pc = "new")
             l == Flag(thread[c].pc \in {"login", "found", "taken", "enter", "home"})
  <2>6. Turns(c) = n + m + 1 + q + l
    BY <2>2 DEF Turns, Flag, Queued
  <2>7. Turns(c)' = (n + 1) + m + 0 + q + l
    BY <2>2, <2>3, <2>4 DEF Turns, Flag, Queued
  <2>8. q \in {0, 1} /\ l \in {0, 1}
    BY DEF Flag
  <2>14. toServer'[c][Len(toServer'[c])] = x
    BY <2>3
  <2> HIDE DEF n, m, q, l
  <2>9. Turns(c) \in Nat /\ Turns(c)' = Turns(c) /\ Turns(c)' >= 1
    BY <2>3, <2>6, <2>7, <2>8
  <2>10. thread[c].pc \notin {"none", "new"}
    BY <2>2 DEF Talk
  <2>11. c \notin lengthy => Turns(c) <= 1
    BY <2>2 DEF Talk
  <2>12. Talk(c)'
    BY <2>2, <2>3, <2>4, <2>5, <2>9, <2>10, <2>11, <2>14 DEF Talk
  <2>13. ASSUME NEW d \in Client, d # c PROVE Talk(d)'
    BY <2>2, <2>4, <2>5, <2>13, TalkAside DEF Talks
  <2> QED
    BY <2>2, <2>12, <2>13 DEF Talks, Once
<1>6. ASSUME NEW c \in Client, Leave(c) PROVE Talks'
  <2>1. /\ client' = [client EXCEPT ![c] = "gone"]
        /\ UNCHANGED <<last, toServer, toClient, thread, backlog, lengthy>>
    BY <1>6 DEF Leave
  <2>2. client'[c] = "gone" /\ \A d \in Client : d # c => client'[d] = client[d]
    BY <2>1 DEF TypeOK
  <2>3. \A d \in Client : Queued(d)' <=> Queued(d)
    BY <2>1 DEF Queued
  <2>4. Talk(c)'
    BY <2>1, <2>2, <2>3 DEF Talks, Talk, Fd
  <2>5. ASSUME NEW d \in Client, d # c PROVE Talk(d)'
    BY <2>1, <2>2, <2>3, <2>5, TalkAside DEF Talks
  <2> QED
    BY <2>1, <2>4, <2>5 DEF Talks, Once
<1>7. CASE UNCHANGED vars
  <2>1. \A c \in Client : Queued(c)' <=> Queued(c)
    BY <1>7 DEF vars, Queued
  <2>2. \A c \in Client : Talk(c)'
    BY <1>7, <2>1, TalkAside DEF vars, Talks
  <2> QED
    BY <1>7, <2>2 DEF vars, Talks, Once
<1> QED
  BY <1>1, <1>2, <1>3, <1>4, <1>5, <1>6, <1>7 DEF Next

\* Client and server speak in turn (client/main.cpp:22, main.cpp:136), but for what
\* InTurn names: never both, and never none, whatever the number of clients and of
\* lines.
THEOREM InTurnHolds == Spec => []InTurn
<1> DEFINE IInv == TypeOK /\ Connected /\ StartsOwn /\ (hasty \/ down \/ Talks)
<1>1. Init => IInv
  <2> SUFFICES ASSUME Init PROVE IInv
    OBVIOUS
  <2>1. \A t \in Client : thread[t].pc = "none" /\ thread[t].fd = None
    BY DEF Init, NoThread
  <2>2. \A c \in Client : client[c] = "away" /\ toServer[c] = <<>> /\ toClient[c] = <<>>
    BY DEF Init
  <2>3. DOMAIN backlog = {}
    BY DEF Init
  <2> QED
    BY <2>1, <2>2, <2>3, ServerTypeInit DEF StartsOwn, Talks, Talk, Once, Queued, Fd
<1>2. IInv /\ [Next]_vars => IInv'
  <2> SUFFICES ASSUME IInv, [Next]_vars PROVE IInv'
    OBVIOUS
  <2>1. TypeOK' /\ Connected' /\ StartsOwn'
    BY ServerTypeStep, StartsOwnStep
  <2>2. hasty => hasty'
    BY DEF Next, Step, Start, Name, NoName, FindSlot, TakeSlot, Enter, Entered, Home, OneByte,
         Answer, Crash, Exit, HangUp, Left, Fails, Accept, Connect, Receive, Type, Leave,
         vars, marks, TypeOK
  <2>3. down => down'
    BY DEF Next, Step, Start, Name, NoName, FindSlot, TakeSlot, Enter, Entered, Home, OneByte,
         Answer, Crash, Exit, HangUp, Left, Fails, Accept, Connect, Receive, Type, Leave, vars
  <2> QED
    BY <2>1, <2>2, <2>3, TalksStep
<1>3. IInv => InTurn
  <2> SUFFICES ASSUME IInv, ~ hasty, ~ down, NEW c \in Client
               PROVE  /\ client[c] \in {"waiting", "typing"} /\ c \notin lengthy => Turns(c) <= 1
                      /\ client[c] \in {"waiting", "typing"} /\ Turns(c) = 0
                           => Ignored(c) \/ Deserted(c)
    BY DEF InTurn
  <2>1. ASSUME thread[c].pc \in {"leave", "ended"} PROVE Deserted(c)
    <3>1. ~ Queued(c)
      BY <2>1 DEF Talks, Talk
    <3>2. ASSUME NEW t \in Client, Fd(t) = c PROVE t = c
      BY <3>2, ServerAssumption DEF Talks, Talk, StartsOwn
    <3> QED
      BY <2>1, <3>1, <3>2 DEF Deserted, Queued
  <2> QED
    BY <2>1 DEF Talks, Talk
<1> QED
  BY <1>1, <1>2, <1>3, PTL DEF Spec

-----------------------------------------------------------------------------
(***************************************************************************)
(* The threads in the buffer manager.                                      *)
(***************************************************************************)
LEMMA TypeInit == ThreadsInit => ThreadsTypeOK
<1> SUFFICES ASSUME ThreadsInit PROVE ThreadsTypeOK
  OBVIOUS
<1>1. /\ forw \in [Buf \cup {bFreeList} -> Buf \cup {bFreeList}]
      /\ back \in [Buf \cup {bFreeList} -> Buf \cup {bFreeList}]
  BY ThreadsAssumption DEF ThreadsInit, Buf, bFreeList
<1>2. pc \in [Thread -> Pc] /\ \A t \in Thread : pc[t] \notin OnBuffer
  BY DEF ThreadsInit, Pc, OnBuffer
<1>3. calls \in [Thread -> 0 .. MaxCalls]
  BY ThreadsAssumption DEF ThreadsInit
<1> QED
  BY <1>1, <1>2, <1>3 DEF ThreadsInit, ThreadsTypeOK

\* A step of GetBlk, or of Bflush between two buffers, leaves the list alone.
ListAside(t) ==
  /\ UNCHANGED listVars
  /\ pc[t] \notin Relinking \cup {"dead"} /\ pc'[t] \notin Relinking \cup {"dead"}
  /\ \A u \in Thread \ {t} : pc'[u] = pc[u] /\ bp'[u] = bp[u]

LEMMA TypeStep ==
  ASSUME ThreadsTypeOK, NEW t \in Thread, ThreadStep(t)
  PROVE  /\ ThreadsTypeOK'
         /\ \/ ListAside(t)
            \/ HeadFaults(t)
            \/ Out1(t) \/ Out2(t) \/ In1(t) \/ In2(t) \/ In3(t) \/ In4(t)
<1>1. forw[bp[t]] \in Buf \cup {bFreeList} /\ forw[bFreeList] \in Buf \cup {bFreeList}
  BY DEF ThreadsTypeOK
<1>2. bp[t] \in Buf \/ bp[t] = bFreeList
  BY DEF ThreadsTypeOK
<1> USE <1>1, <1>2 DEF AtEnd, Goto, Follow, FromHead, Lock, Unlock, SetDelwri, listVars,
                      Flushing, Relinking, ListAside
<1>3. CASE SearchNext(t) \/ TryNext(t) \/ FlushNext(t)
  BY <1>3 DEF SearchNext, TryNext, FlushNext, ThreadsTypeOK, Pc, OnBuffer
<1>4. CASE SearchHit(t) \/ MarkBusy(t)
  BY <1>4 DEF SearchHit, MarkBusy, ThreadsTypeOK, Pc, OnBuffer
<1>5. CASE HitLock(t) \/ TryGot(t) \/ HeadLock(t) \/ Relock(t)
  <2>1. lock' \in [Buf -> Thread \cup {NoOne}] /\ bp[t] \in Buf
    BY <1>5 DEF HitLock, TryGot, HeadLock, Relock, ThreadsTypeOK, Pc, OnBuffer
  <2>2. /\ pc[t] \notin Relinking \cup {"dead"} /\ pc'[t] \in {"use", "victim", "claim"}
        /\ pc' \in [Thread -> Pc] /\ \A u \in Thread \ {t} : pc'[u] = pc[u]
    BY <1>5 DEF HitLock, TryGot, HeadLock, Relock, ThreadsTypeOK, Pc
  <2>3. UNCHANGED <<forw, back, tangled, blkno, delwri, bp, want, saw, calls>>
    BY <1>5 DEF HitLock, TryGot, HeadLock, Relock
  <2>4. \A u \in Thread : pc'[u] \in OnBuffer => bp'[u] \in Buf
    BY <2>1, <2>2, <2>3 DEF ThreadsTypeOK
  <2>5. ThreadsTypeOK'
    BY <2>1, <2>2, <2>3, <2>4 DEF ThreadsTypeOK
  <2> QED
    BY <2>2, <2>3, <2>5
<1>6. CASE SearchMiss(t) \/ TryNone(t)
  BY <1>6 DEF SearchMiss, TryNone, ThreadsTypeOK, Pc, OnBuffer
<1>7. CASE VictimClean(t) \/ VictimWrite(t)
  BY <1>7 DEF VictimClean, VictimWrite, ThreadsTypeOK, Pc, OnBuffer
<1>8. CASE Claim(t) \/ Release(t)
  <2>1. bp[t] \in Buf
    BY <1>8 DEF Claim, Release, ThreadsTypeOK, Pc, OnBuffer
  <2>2. /\ pc[t] \notin Relinking \cup {"dead"} /\ pc'[t] \in {"use", "idle"}
        /\ pc' \in [Thread -> Pc] /\ \A u \in Thread \ {t} : pc'[u] = pc[u]
    BY <1>8 DEF Claim, Release, ThreadsTypeOK, Pc
  <2>3. /\ delwri' \in [Buf -> BOOLEAN]
        /\ lock' \in [Buf -> Thread \cup {NoOne}]
        /\ blkno' \in [Buf -> Block \cup {BlockZero}]
    BY <1>8 DEF Claim, Release, ThreadsTypeOK
  <2>4. UNCHANGED <<forw, back, tangled, bp, want, saw, calls>>
    BY <1>8 DEF Claim, Release
  <2>5. \A u \in Thread : pc'[u] \in OnBuffer => bp'[u] \in Buf
    BY <2>1, <2>2, <2>4 DEF ThreadsTypeOK
  <2>6. ThreadsTypeOK'
    BY <2>2, <2>3, <2>4, <2>5 DEF ThreadsTypeOK
  <2> QED
    BY <2>2, <2>4, <2>6
<1>9. CASE FlushFound(t) \/ FlushEnd(t)
  BY <1>9 DEF FlushFound, FlushEnd, ThreadsTypeOK, Pc, OnBuffer
<1>10. CASE FlushWrite(t)
  <2>1. bp[t] \in Buf
    BY <1>10 DEF FlushWrite, ThreadsTypeOK, Pc, OnBuffer
  <2>2. /\ pc' \in [Thread -> Pc] /\ pc[t] = "flushwrite" /\ pc'[t] = "flush"
        /\ \A u \in Thread \ {t} : pc'[u] = pc[u] /\ bp'[u] = bp[u]
    BY <1>10 DEF FlushWrite, ThreadsTypeOK, Pc
  <2>3. /\ delwri' \in [Buf -> BOOLEAN]
        /\ lock' \in [Buf -> Thread \cup {NoOne}]
        /\ bp' \in [Thread -> Buf \cup {bFreeList}]
    BY <1>10, <2>1 DEF FlushWrite, ThreadsTypeOK
  <2>4. UNCHANGED <<forw, back, tangled, blkno, want, saw, calls>>
    BY <1>10 DEF FlushWrite
  <2> QED
    BY <2>2, <2>3, <2>4 DEF ThreadsTypeOK, OnBuffer
<1>11. CASE HeadFaults(t)
  BY <1>11 DEF HeadFaults, ThreadsTypeOK, Pc, OnBuffer
<1>12. CASE Out1(t) \/ Out2(t) \/ In1(t) \/ In2(t) \/ In3(t) \/ In4(t)
  <2>1. bp[t] \in Buf /\ back[bp[t]] \in Buf \cup {bFreeList}
    BY <1>12 DEF Out1, Out2, In1, In2, In3, In4, Assign, ThreadsTypeOK, Pc, OnBuffer
  <2>2. /\ pc' \in [Thread -> Pc] /\ \A u \in Thread \ {t} : pc'[u] = pc[u]
        /\ UNCHANGED <<blkno, delwri, lock, bp, want, saw, calls>>
    BY <1>12 DEF Out1, Out2, In1, In2, In3, In4, Assign, ThreadsTypeOK, Pc
  <2>3. forw' \in [Buf \cup {bFreeList} -> Buf \cup {bFreeList}]
    BY <1>12, <2>1 DEF Out1, Out2, In1, In2, In3, In4, ThreadsTypeOK
  <2>4. back' \in [Buf \cup {bFreeList} -> Buf \cup {bFreeList}] /\ tangled' \in BOOLEAN
    BY <1>12, <2>1 DEF Out1, Out2, In1, In2, In3, In4, ThreadsTypeOK
  <2> QED
    BY <1>12, <2>1, <2>2, <2>3, <2>4 DEF ThreadsTypeOK
<1> QED
  BY <1>3, <1>4, <1>5, <1>6, <1>7, <1>8, <1>9, <1>10, <1>11, <1>12 DEF ThreadStep

LEMMA TypeCall ==
  ASSUME ThreadsTypeOK, NEW t \in Thread,
         Bflush(t) \/ \E n \in Block : GetBlk(t, n)
  PROVE  ThreadsTypeOK' /\ ListAside(t)
<1>1. forw[bFreeList] \in Buf \cup {bFreeList}
  BY DEF ThreadsTypeOK
<1>2. calls' \in [Thread -> 0 .. MaxCalls]
  BY ThreadsAssumption DEF Bflush, GetBlk, Call, ThreadsTypeOK
<1> QED
  BY <1>1, <1>2 DEF Bflush, GetBlk, Goto, FromHead, listVars, ThreadsTypeOK, ListAside,
                    Pc, OnBuffer, Flushing, Relinking

LEMMA TypeNext == ThreadsTypeOK /\ [ThreadsNext]_threadsVars => ThreadsTypeOK'
<1> SUFFICES ASSUME ThreadsTypeOK, [ThreadsNext]_threadsVars PROVE ThreadsTypeOK'
  OBVIOUS
<1>1. CASE ThreadsNext
  BY <1>1, TypeStep, TypeCall DEF ThreadsNext
<1>2. CASE UNCHANGED threadsVars
  BY <1>2 DEF threadsVars, ThreadsTypeOK
<1> QED
  BY <1>1, <1>2

\* Every variable keeps its type, and the buffer that a thread locks, marks,
\* writes or uses is never bFreeList, with any number of flushes under way.
THEOREM ThreadsTypeCorrect == ThreadsSpec => []ThreadsTypeOK
BY TypeInit, TypeNext, PTL DEF ThreadsSpec

\* How the list comes to be empty, and why it does not stay so: the buffer that
\* Bflush has just taken out had bFreeList on both sides, so that the head's
\* b_back leads to the head when Bflush sets that one's b_forw.
EmptiedBy(t) ==
  \/ pc[t] = "out2" /\ forw[bp[t]] = bFreeList /\ back[bp[t]] = bFreeList
  \/ pc[t] \in {"in1", "in2"} /\ back[bFreeList] = bFreeList

OneRelinks ==
  \A t, u \in Thread : pc[t] \in Relinking /\ pc[u] \in Relinking => t = u

ListOK ==
  \/ tangled
  \/ \E t \in Thread : pc[t] = "dead"
  \/ /\ OneRelinks
     /\ forw[bFreeList] = bFreeList => \E t \in Thread : EmptiedBy(t)

\* Initialize builds a list of all the buffers.
LEMMA ListInit == ThreadsInit => ListOK
BY ThreadsAssumption DEF ThreadsInit, ListOK, OneRelinks, Buf, bFreeList, Relinking

LEMMA AsideKeepsList ==
  ASSUME ListOK, NEW t \in Thread, ListAside(t)
  PROVE  ListOK'
<1> USE DEF ListAside, listVars
<1>1. CASE tangled
  BY <1>1 DEF ListOK
<1>2. ASSUME NEW u \in Thread, pc[u] = "dead", u # t PROVE ListOK'
  BY <1>2 DEF ListOK
<1>3. CASE OneRelinks /\ (forw[bFreeList] = bFreeList => \E u \in Thread : EmptiedBy(u))
  <2>1. OneRelinks'
    BY <1>3 DEF OneRelinks
  <2>2. ASSUME NEW u \in Thread, EmptiedBy(u) PROVE EmptiedBy(u)'
    BY <2>2 DEF EmptiedBy, Relinking
  <2> QED
    BY <1>3, <2>1, <2>2 DEF ListOK
<1> QED
  BY <1>1, <1>2, <1>3 DEF ListOK
\* The six assignments, when no other thread is among them.
LEMMA AssignKeepsList ==
  ASSUME ThreadsTypeOK, ListOK, NEW t \in Thread,
         Out1(t) \/ Out2(t) \/ In1(t) \/ In2(t) \/ In3(t) \/ In4(t)
  PROVE  ListOK'
<1> DEFINE p == bp[t]
<1>1. /\ p \in Buf /\ p # bFreeList /\ bp' = bp
      /\ pc[t] \in Relinking \cup {"out1"}
      /\ pc'[t] \in Relinking \cup {"flushwrite"}
      /\ \A u \in Thread \ {t} : pc'[u] = pc[u]
  <2> USE DEF Out1, Out2, In1, In2, In3, In4, Assign, Goto
  <2>1. bp' = bp /\ \A u \in Thread \ {t} : pc'[u] = pc[u]
    BY DEF ThreadsTypeOK
  <2>2. pc[t] \in Relinking \cup {"out1"} /\ pc'[t] \in Relinking \cup {"flushwrite"}
    BY DEF ThreadsTypeOK, Relinking
  <2>3. p \in Buf
    BY <2>2 DEF ThreadsTypeOK, Pc, OnBuffer, Flushing, Relinking
  <2>4. p # bFreeList
    BY <2>3, ThreadsAssumption DEF Buf, bFreeList
  <2> QED
    BY <2>1, <2>2, <2>3, <2>4
<1>2. CASE tangled
  BY <1>2 DEF Out1, Out2, In1, In2, In3, In4, ListOK
<1>3. ASSUME NEW u \in Thread, pc[u] = "dead" PROVE ListOK'
  <2>1. u # t
    BY <1>1, <1>3 DEF Relinking
  <2> QED
    BY <1>1, <1>3, <2>1 DEF ListOK
<1>4. ASSUME OneRelinks, forw[bFreeList] = bFreeList => \E u \in Thread : EmptiedBy(u), ~ tangled'
      PROVE  ListOK'
  <2>1. \A u \in Thread \ {t} : pc[u] \notin Relinking
    <3>1. CASE Out1(t)
      BY <1>4, <3>1 DEF Out1
    <3>2. CASE pc[t] \in Relinking
      BY <1>4, <3>2 DEF OneRelinks
    <3> QED
      BY <3>1, <3>2 DEF Out2, In1, In2, In3, In4, Assign, Goto, Relinking
  <2>2. OneRelinks'
    BY <1>1, <2>1 DEF OneRelinks
  <2>3. forw[bFreeList] = bFreeList => EmptiedBy(t)
    BY <1>4, <2>1 DEF EmptiedBy, Relinking
  <2>4. forw'[bFreeList] = bFreeList => EmptiedBy(t)'
    <3> USE DEF ThreadsTypeOK, Assign, Goto, EmptiedBy
    <3>1. back[p] \in Buf \cup {bFreeList} /\ forw[p] \in Buf \cup {bFreeList}
      BY <1>1
    <3>2. CASE Out1(t)
      BY <1>1, <2>3, <3>1, <3>2 DEF Out1
    <3>3. CASE Out2(t)
      BY <1>1, <2>3, <3>1, <3>3 DEF Out2
    <3>4. CASE In1(t)
      BY <1>1, <2>3, <3>1, <3>4 DEF In1
    <3>5. CASE In2(t)
      BY <1>1, <2>3, <3>1, <3>5 DEF In2
    <3>6. CASE In3(t)
      BY <1>1, <2>3, <3>1, <3>6 DEF In3
    <3>7. CASE In4(t)
      BY <1>1, <2>3, <3>1, <3>7 DEF In4
    <3> QED
      BY <3>2, <3>3, <3>4, <3>5, <3>6, <3>7
  <2> QED
    BY <2>2, <2>4 DEF ListOK
<1> QED
  BY <1>2, <1>3, <1>4 DEF ListOK

\* The list is empty only between lines 192 and 197 of a Bflush, as long as no
\* two are among their assignments at once, for any number of threads.
THEOREM ListKept == ThreadsSpec => []ListNotEmpty
<1>1. ThreadsInit => ThreadsTypeOK /\ ListOK
  BY TypeInit, ListInit
<1>2. ThreadsTypeOK /\ ListOK /\ [ThreadsNext]_threadsVars => (ThreadsTypeOK /\ ListOK)'
  <2> SUFFICES ASSUME ThreadsTypeOK, ListOK, [ThreadsNext]_threadsVars PROVE ListOK'
    BY TypeNext
  <2>1. ASSUME NEW t \in Thread, ThreadStep(t) PROVE ListOK'
    <3>1. CASE ListAside(t)
      BY <3>1, AsideKeepsList
    <3>2. CASE HeadFaults(t)
      BY <3>2 DEF HeadFaults, ListOK
    <3>3. CASE Out1(t) \/ Out2(t) \/ In1(t) \/ In2(t) \/ In3(t) \/ In4(t)
      BY <3>3, AssignKeepsList
    <3> QED
      BY <2>1, <3>1, <3>2, <3>3, TypeStep
  <2>2. ASSUME NEW t \in Thread, Bflush(t) \/ \E n \in Block : GetBlk(t, n) PROVE ListOK'
    BY <2>2, TypeCall, AsideKeepsList
  <2>3. CASE UNCHANGED threadsVars
    BY <2>3 DEF threadsVars, ListOK, OneRelinks, EmptiedBy
  <2> QED
    BY <2>1, <2>2, <2>3 DEF ThreadsNext
<1>3. ListOK => ListNotEmpty
  BY DEF ListOK, EmptiedBy, ListNotEmpty
<1> QED
  BY <1>1, <1>2, <1>3, PTL DEF ThreadsSpec

-----------------------------------------------------------------------------
(***************************************************************************)
(* Mutual exclusion while nobody calls Bflush.                             *)
(***************************************************************************)
NoFlush == \A t \in Thread : pc[t] \notin Flushing

OwnersInv == ThreadsTypeOK /\ NoFlush /\ OwnersWork

\* A lock changes hands only from nobody to a thread that takes it and from
\* its owner to nobody, so the thread that gives one back robs no other.
LEMMA OwnersStep ==
  ASSUME OwnersInv, NEW t \in Thread, ThreadStep(t)
  PROVE  NoFlush' /\ OwnersWork'
<1> USE DEF Goto, OwnersWork, NoFlush, Working, Flushing, Relinking
<1>0. ThreadsTypeOK /\ NoFlush /\ OwnersWork
  BY DEF OwnersInv
<1>1. pc[t] \notin Flushing
  BY <1>0
<1>2. CASE SearchNext(t) \/ TryNext(t) \/ SearchHit(t) \/ MarkBusy(t) \/ SearchMiss(t) \/ TryNone(t)
  BY <1>0, <1>2 DEF SearchNext, TryNext, SearchHit, MarkBusy, SearchMiss, TryNone,
                    ThreadsTypeOK, Follow, FromHead
<1>3. CASE HitLock(t) \/ TryGot(t) \/ HeadLock(t) \/ Relock(t)
  <2>1. lock[bp[t]] = NoOne /\ lock' = [lock EXCEPT ![bp[t]] = t] /\ bp' = bp /\ bp[t] \in Buf
    BY <1>0, <1>3 DEF HitLock, TryGot, HeadLock, Relock, Lock, AtEnd, ThreadsTypeOK, OnBuffer, Pc
  <2>2. \A u \in Thread \ {t} : pc'[u] = pc[u]
    BY <1>0, <1>3 DEF HitLock, TryGot, HeadLock, Relock, ThreadsTypeOK
  <2>3. pc'[t] \in {"use", "victim", "claim"}
    BY <1>0, <1>3 DEF HitLock, TryGot, HeadLock, Relock, ThreadsTypeOK
  <2>4. \A u \in Thread \ {t} : Working(u) => bp[u] # bp[t]
    BY <1>0, <2>1, ThreadsAssumption
  <2>5. \A u \in Thread \ {t} : Working(u)' => lock'[bp'[u]] = u
    BY <1>0, <2>1, <2>2, <2>4 DEF ThreadsTypeOK
  <2>6. lock'[bp'[t]] = t
    BY <1>0, <2>1 DEF ThreadsTypeOK
  <2> QED
    BY <1>0, <2>2, <2>3, <2>5, <2>6
<1>4. CASE VictimClean(t) \/ Claim(t)
  BY <1>0, <1>4 DEF VictimClean, Claim, ThreadsTypeOK
<1>5. CASE VictimWrite(t) \/ Release(t)
  <2>1. lock' = [lock EXCEPT ![bp[t]] = NoOne] /\ bp' = bp /\ lock[bp[t]] = t
    BY <1>0, <1>5 DEF VictimWrite, Release, Unlock
  <2>2. \A u \in Thread \ {t} : pc'[u] = pc[u]
    BY <1>0, <1>5 DEF VictimWrite, Release, ThreadsTypeOK
  <2>3. pc'[t] \in {"relock", "idle"}
    <3>1. pc \in [Thread -> Pc]
      BY <1>0 DEF ThreadsTypeOK
    <3> QED
      BY <1>5, <3>1 DEF VictimWrite, Release
  <2>4. \A u \in Thread \ {t} : Working(u) => bp[u] # bp[t]
    BY <1>0, <2>1
  <2>5. \A u \in Thread \ {t} : Working(u)' => lock'[bp'[u]] = u
    BY <1>0, <2>1, <2>2, <2>4 DEF ThreadsTypeOK
  <2> QED
    BY <1>0, <2>2, <2>3, <2>5
<1>6. CASE FlushNext(t) \/ FlushFound(t) \/ FlushWrite(t) \/ FlushEnd(t)
  BY <1>1, <1>6 DEF FlushNext, FlushFound, FlushWrite, FlushEnd
<1>7. CASE Out1(t) \/ Out2(t) \/ In1(t) \/ In2(t) \/ In3(t) \/ In4(t)
  BY <1>1, <1>7 DEF Out1, Out2, In1, In2, In3, In4, Assign
<1>8. CASE HeadFaults(t)
  BY <1>0, <1>8 DEF HeadFaults
<1> QED
  BY <1>2, <1>3, <1>4, <1>5, <1>6, <1>7, <1>8 DEF ThreadStep

\* The thread between GetBlk's lock and the release owns the b_lock: proved for
\* a server none of whose sessions exits, the case in which it is true.
THEOREM OwnersCorrect ==
  ASSUME Flusher = {}
  PROVE  ThreadsSpec => []OwnersWork
<1>1. ThreadsInit => OwnersInv
  BY TypeInit DEF ThreadsInit, OwnersInv, NoFlush, OwnersWork, Working, Flushing, Relinking
<1>2. OwnersInv /\ [ThreadsNext]_threadsVars => OwnersInv'
  <2> SUFFICES ASSUME OwnersInv, [ThreadsNext]_threadsVars PROVE OwnersInv'
    OBVIOUS
  <2>0. ThreadsTypeOK'
    BY TypeNext DEF OwnersInv
  <2>1. ASSUME NEW t \in Thread, ThreadStep(t) PROVE OwnersInv'
    BY <2>0, <2>1, OwnersStep DEF OwnersInv
  <2>2. ASSUME NEW t \in Thread, NEW n \in Block, GetBlk(t, n) PROVE OwnersInv'
    BY <2>0, <2>2 DEF OwnersInv, GetBlk, Goto, FromHead, ThreadsTypeOK, NoFlush, OwnersWork, Working, Flushing, Relinking
  <2>3. ASSUME NEW t \in Thread, Bflush(t) PROVE FALSE
    BY <2>3 DEF Bflush
  <2>4. CASE UNCHANGED threadsVars
    BY <2>4, <2>0 DEF OwnersInv, threadsVars, NoFlush, OwnersWork, Working, Flushing, Relinking
  <2> QED
    BY <2>1, <2>2, <2>3, <2>4 DEF ThreadsNext
<1>3. OwnersInv => OwnersWork
  BY DEF OwnersInv
<1> QED
  BY <1>1, <1>2, <1>3, PTL DEF ThreadsSpec

\* b_blkno is only written by Claim, and by then the buffer is the thread's.
LEMMA OnlyClaimRenames ==
  ASSUME ThreadsTypeOK, NoFlush, NEW t \in Thread, ThreadStep(t)
  PROVE  \/ Claim(t) \/ HeadFaults(t)
         \/ /\ blkno' = blkno /\ want' = want
            /\ \A u \in Thread \ {t} : pc'[u] = pc[u] /\ bp'[u] = bp[u]
            /\ Found(t) /\ Found(t)' => bp'[t] = bp[t]
<1> USE DEF Goto, Follow, FromHead, ThreadsTypeOK, Found
<1>1. CASE SearchNext(t) \/ TryNext(t) \/ SearchHit(t) \/ MarkBusy(t) \/ SearchMiss(t) \/ TryNone(t)
  BY <1>1 DEF SearchNext, TryNext, SearchHit, MarkBusy, SearchMiss, TryNone
<1>2. CASE HitLock(t) \/ TryGot(t) \/ HeadLock(t) \/ Relock(t)
  BY <1>2 DEF HitLock, TryGot, HeadLock, Relock
<1>3. CASE VictimClean(t) \/ VictimWrite(t) \/ Release(t)
  BY <1>3 DEF VictimClean, VictimWrite, Release
<1>4. CASE FlushNext(t) \/ FlushFound(t) \/ FlushWrite(t) \/ FlushEnd(t)
  BY <1>4 DEF FlushNext, FlushFound, FlushWrite, FlushEnd, NoFlush, Flushing
<1>5. CASE Out1(t) \/ Out2(t) \/ In1(t) \/ In2(t) \/ In3(t) \/ In4(t)
  BY <1>5 DEF Out1, Out2, In1, In2, In3, In4, Assign, NoFlush, Flushing, Relinking
<1> QED
  BY <1>1, <1>2, <1>3, <1>4, <1>5 DEF ThreadStep

BlockKept ==
  \A t \in Thread :
    /\ Found(t) /\ blkno[bp[t]] = want[t]
    /\ Found(t)' /\ blkno'[bp'[t]] # want'[t]
    => pc[t] \in {"mark", "hitlock"} /\ pc'[t] = pc[t]

LEMMA ClaimSparesUsers ==
  ASSUME OwnersInv, NEW t \in Thread, Claim(t)
  PROVE  BlockKept
<1>1. ThreadsTypeOK /\ OwnersWork
  BY DEF OwnersInv
<1>2. pc[t] = "claim" /\ lock[bp[t]] = t /\ bp[t] \in Buf
  BY <1>1 DEF Claim, Goto, OwnersWork, Working, ThreadsTypeOK, OnBuffer, Pc
<1>3. SUFFICES ASSUME NEW u \in Thread, Found(u), blkno[bp[u]] = want[u],
                      Found(u)', blkno'[bp'[u]] # want'[u]
               PROVE  pc[u] \in {"mark", "hitlock"} /\ pc'[u] = pc[u]
  BY DEF BlockKept
<1>4. u # t
  BY <1>2, <1>3 DEF Found
<1>5. pc'[u] = pc[u] /\ bp'[u] = bp[u] /\ want'[u] = want[u]
  BY <1>1, <1>4 DEF Claim, Goto, ThreadsTypeOK
<1>6. bp[u] = bp[t]
  BY <1>1, <1>2, <1>3, <1>5 DEF Claim, ThreadsTypeOK
<1>7. pc[u] # "use"
  BY <1>1, <1>2, <1>4, <1>6 DEF OwnersWork, Working
<1> QED
  BY <1>3, <1>5, <1>7 DEF Found

\* A buffer that GetBlk found under its block gets another one only while
\* GetBlk waits for the lock: what holds of a server none of whose sessions
\* exits, for then a lock is its owner's.
THEOREM BlockStaysHolds ==
  ASSUME Flusher = {}
  PROVE  ThreadsSpec => BlockStays
<1>1. ThreadsInit => OwnersInv
  BY TypeInit DEF ThreadsInit, OwnersInv, NoFlush, OwnersWork, Working, Flushing, Relinking
<1>2. OwnersInv /\ [ThreadsNext]_threadsVars => OwnersInv' /\ [BlockKept]_threadsVars
  <2> SUFFICES ASSUME OwnersInv, [ThreadsNext]_threadsVars PROVE OwnersInv' /\ [BlockKept]_threadsVars
    OBVIOUS
  <2>0. ThreadsTypeOK /\ NoFlush /\ ThreadsTypeOK'
    BY TypeNext DEF OwnersInv
  <2>1. ASSUME NEW t \in Thread, ThreadStep(t) PROVE OwnersInv' /\ BlockKept
    <3>1. OwnersInv'
      BY <2>0, <2>1, OwnersStep DEF OwnersInv
    <3>2. CASE Claim(t)
      BY <3>1, <3>2, ClaimSparesUsers
    <3>3. CASE HeadFaults(t)
      BY <3>1, <3>3 DEF HeadFaults, BlockKept, Found
    <3>4. CASE ~ Claim(t) /\ ~ HeadFaults(t)
      BY <2>0, <2>1, <3>1, <3>4, OnlyClaimRenames DEF BlockKept, Found
    <3> QED
      BY <3>2, <3>3, <3>4
  <2>2. ASSUME NEW t \in Thread, NEW n \in Block, GetBlk(t, n) PROVE OwnersInv' /\ BlockKept
    <3>1. OwnersInv'
      BY <2>0, <2>2 DEF OwnersInv, GetBlk, Goto, FromHead, ThreadsTypeOK, NoFlush, OwnersWork, Working, Flushing, Relinking
    <3>2. BlockKept
      BY <2>0, <2>2 DEF GetBlk, Goto, FromHead, ThreadsTypeOK, BlockKept, Found
    <3> QED
      BY <3>1, <3>2
  <2>3. ASSUME NEW t \in Thread, Bflush(t) PROVE FALSE
    BY <2>3 DEF Bflush
  <2>4. ASSUME UNCHANGED threadsVars PROVE OwnersInv'
    BY <2>4, <2>0 DEF OwnersInv, threadsVars, NoFlush, OwnersWork, Working, Flushing, Relinking
  <2> QED
    BY <2>1, <2>2, <2>3, <2>4 DEF ThreadsNext
<1>3. [BlockKept]_threadsVars => 
        [\A t \in Thread :
           /\ Found(t) /\ blkno[bp[t]] = want[t]
           /\ Found(t)' /\ blkno'[bp'[t]] # want'[t]
           => pc[t] \in {"mark", "hitlock"} /\ pc'[t] = pc[t]]_threadsVars
  BY DEF BlockKept
<1> QED
  BY <1>1, <1>2, <1>3, PTL DEF ThreadsSpec, BlockStays

=============================================================================
