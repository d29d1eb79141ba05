------------------------------- MODULE Server -------------------------------
(***************************************************************************)
(* The server and its clients as processes that exchange messages: the     *)
(* listener thread, the thread that receives, executes and answers, and    *)
(* the python client, with the network between them.                       *)
(*                                                                         *)
(* A request travels as a head (its length) and a body, which may arrive   *)
(* apart; an answer is sent as one message, of which the client may read a *)
(* part.  What a command does is the subject of Sessions: here a request   *)
(* is the number of answers it gets, one for each command in it.  Request  *)
(* i of a client is asked[c][i]; its k-th answer is <<i, k>>.              *)
(***************************************************************************)
EXTENDS Integers, Sequences, FiniteSetsExt, SequencesExt

CONSTANTS
  Clients,      \* the clients
  AnswerCounts, \* how many commands a line has that a user types
  Patient,      \* do users type only when all answers have come?
  Ascii,        \* do they type nothing but ASCII characters?
  WholeReads,   \* does a recv of the client get all the bytes it asks for?
  HangUps,      \* when clients end: "never", "between" messages, "anytime"
  PollSize,     \* the number of events epoll_wait returns at most
  OutCap,       \* the number of unread answers a connection has room for
  MaxLines      \* bound: the number of lines all users type

ASSUME ClientsAssumption == IsFiniteSet(Clients)
ASSUME AnswersAssumption == AnswerCounts \subseteq Nat
ASSUME UsersAssumption ==
  /\ Patient \in BOOLEAN /\ Ascii \in BOOLEAN /\ WholeReads \in BOOLEAN
  /\ HangUps \in {"never", "between", "anytime"}
ASSUME SizesAssumption ==
  PollSize \in Nat \ {0} /\ OutCap \in Nat \ {0} /\ MaxLines \in Nat

VARIABLES
  con,      \* the connection: "new", "accepted", "polled" or "removed"
  in,       \* what has arrived of the requests and was not received
  out,      \* the answers the client has not read
  \* the thread of command_loop
  pc,       \* "wait", "recv", "body", "run"; "starved", "spin", "dead"
  events,   \* what epoll_wait returned and is left to do
  msgs,     \* the requests received and not executed
  done,     \* the number of answers to the first of them that were sent
  failed,   \* the clients an answer was sent to after they had gone
  \* the python clients
  cp,       \* "poll", "name", "input", "get" or "gone"
  readable, \* did poll report the socket together with stdin?
  asked,    \* the requests sent: the number of answers each one gets
  line,     \* what was sent and has not arrived
  fin,      \* has the end of the stream arrived at the server?
  rst,      \* did the client end with answers unread?
  read,     \* the number of answers read, each to its end
  skew      \* does the client take other bytes than an answer's head for one?

server == <<con, pc, events, msgs, done, failed>>
client == <<cp, readable, asked, rst, read, skew>>
vars   == <<server, client, in, out, line, fin>>

Put(f, c, x) == [f EXCEPT ![c] = x]

Init ==
  /\ con = [c \in Clients |-> "new"]
  /\ in = [c \in Clients |-> <<>>] /\ out = [c \in Clients |-> <<>>]
  /\ pc = "wait" /\ events = <<>> /\ msgs = <<>> /\ done = 0 /\ failed = {}
  /\ cp = [c \in Clients |-> "poll"] /\ readable = [c \in Clients |-> FALSE]
  /\ asked = [c \in Clients |-> <<>>] /\ line = [c \in Clients |-> <<>>]
  /\ fin = [c \in Clients |-> FALSE] /\ rst = [c \in Clients |-> FALSE]
  /\ read = [c \in Clients |-> 0] /\ skew = [c \in Clients |-> FALSE]

-----------------------------------------------------------------------------
(* The listener thread: accept, then epoll_ctl(ADD).                       *)

Accept(c) ==
  /\ con[c] = "new"
  /\ con' = Put(con, c, "accepted")
  /\ UNCHANGED <<pc, events, msgs, done, failed, client, in, out, line, fin>>

Register(c) ==
  /\ con[c] = "accepted"
  /\ con' = Put(con, c, "polled")
  /\ UNCHANGED <<pc, events, msgs, done, failed, client, in, out, line, fin>>

-----------------------------------------------------------------------------
(* The thread of command_loop.                                             *)

Ready == {c \in Clients : con[c] = "polled" /\ (in[c] # <<>> \/ fin[c])}

\* Events are level-triggered: what is not received is reported again.
Batches ==
  LET n == Min({PollSize, Cardinality(Ready)})
  IN  {b \in [1..n -> Ready] : \A i, j \in 1..n : b[i] = b[j] => i = j}

\* A mutant: EPOLLRDHUP is not looked at.
EventNoHup(c) == [from |-> c, hup |-> FALSE]

Event(c) == [from |-> c, hup |-> fin[c]]

Wait(b) ==
  /\ pc = "wait" /\ Ready # {}
  /\ events' = [i \in 1..Len(b) |-> Event(b[i])]
  /\ pc' = "recv"
  /\ UNCHANGED <<con, msgs, done, failed, client, in, out, line, fin>>

\* EPOLLRDHUP: what the client sent before it ended is not looked at.
Hup ==
  /\ pc = "recv" /\ events # <<>> /\ Head(events).hup
  /\ con' = Put(con, Head(events).from, "removed")
  /\ events' = Tail(events)
  /\ UNCHANGED <<pc, msgs, done, failed, client, in, out, line, fin>>

\* recvall(fd, 4).  Bytes left over from the request before are taken for a
\* length: whatever the client sends then is swallowed.
RecvHead ==
  /\ pc = "recv" /\ events # <<>> /\ ~Head(events).hup
  /\ LET c == Head(events).from
     IN  /\ in[c] # <<>>
         /\ pc' = IF Head(in[c]).part = "head" THEN "body" ELSE "starved"
         /\ in' = Put(in, c, Tail(in[c]))
  /\ UNCHANGED <<con, events, msgs, done, failed, client, out, line, fin>>

\* recvall(fd, len) waits for the body, of this client only.
RecvBody ==
  /\ pc = "body"
  /\ LET c == Head(events).from
     IN  /\ in[c] # <<>>
         /\ msgs' = Append(msgs, [from |-> c, req |-> Head(in[c]).req])
         /\ in' = Put(in, c, Tail(in[c]))
  /\ events' = Tail(events)
  /\ pc' = "recv"
  /\ UNCHANGED <<con, done, failed, client, out, line, fin>>

\* The client ended before the body came.  A reset is an error, after which
\* an empty message is executed; an orderly end makes recv return 0, which
\* recvall takes for progress, for ever.
RecvEnd ==
  /\ pc \in {"recv", "body", "starved"} /\ events # <<>> /\ ~Head(events).hup
  /\ LET c == Head(events).from
     IN  /\ in[c] = <<>> /\ fin[c]
         /\ pc' = IF rst[c] THEN "recv" ELSE "spin"
         /\ events' = IF rst[c] THEN Tail(events) ELSE events
  /\ UNCHANGED <<con, msgs, done, failed, client, in, out, line, fin>>

Swallow ==
  /\ pc = "starved"
  /\ LET c == Head(events).from
     IN in[c] # <<>> /\ in' = Put(in, c, Tail(in[c]))
  /\ UNCHANGED <<server, client, out, line, fin>>

Received ==
  /\ pc = "recv" /\ events = <<>>
  /\ pc' = "run"
  /\ UNCHANGED <<con, events, msgs, done, failed, client, in, out, line, fin>>

\* The next answer to the first message.
To == Head(msgs).from

\* Mutants: the loop over the commands runs once too often, or once too little.
OwesOneMore == done <= asked[To][Head(msgs).req]
OwesOneLess == done + 1 < asked[To][Head(msgs).req]

Owes == done < asked[To][Head(msgs).req]
NextAnswer == <<Head(msgs).req, done + 1>>

\* A mutant: every answer goes to the client of the last message received.
SendToLast ==
  /\ pc = "run" /\ msgs # <<>> /\ Owes
  /\ LET c == Last(msgs).from
     IN  /\ cp[c] # "gone" /\ Len(out[c]) < OutCap
         /\ out' = Put(out, c, Append(out[c], NextAnswer))
  /\ done' = done + 1
  /\ UNCHANGED <<con, pc, events, msgs, failed, client, in, line, fin>>

\* send blocks until there is room.
Send ==
  /\ pc = "run" /\ msgs # <<>> /\ Owes
  /\ cp[To] # "gone" /\ Len(out[To]) < OutCap
  /\ out' = Put(out, To, Append(out[To], NextAnswer))
  /\ done' = done + 1
  /\ UNCHANGED <<con, pc, events, msgs, failed, client, in, line, fin>>

\* The client is gone.  The first answer makes its host send a reset; one that
\* is sent after the reset has come is answered by SIGPIPE.
SendToGone ==
  /\ pc = "run" /\ msgs # <<>> /\ Owes
  /\ cp[To] = "gone"
  /\ \/ pc' = pc
     \/ To \in failed /\ pc' = "dead"
  /\ failed' = failed \cup {To}
  /\ done' = done + 1
  /\ UNCHANGED <<con, events, msgs, client, in, out, line, fin>>

NextMessage ==
  /\ pc = "run" /\ msgs # <<>> /\ ~Owes
  /\ msgs' = Tail(msgs) /\ done' = 0
  /\ UNCHANGED <<con, pc, events, failed, client, in, out, line, fin>>

Loop ==
  /\ pc = "run" /\ msgs = <<>>
  /\ pc' = "wait"
  /\ UNCHANGED <<con, events, msgs, done, failed, client, in, out, line, fin>>

Work ==
  \/ Hup \/ RecvHead \/ RecvBody \/ RecvEnd \/ Swallow \/ Received
  \/ Send \/ SendToGone \/ NextMessage \/ Loop

-----------------------------------------------------------------------------
(* The python client.                                                      *)

\* The answers to the requests of c, in order.
AnswersTo(c) ==
  FlattenSeq([i \in 1..Len(asked[c]) |-> [k \in 1..asked[c][i] |-> <<i, k>>]])

Owed(c) == Len(AnswersTo(c)) - read[c]

\* A user cannot tell an answer that was read in part from a whole one.
Unseen(c) == IF skew[c] THEN Owed(c) - 1 ELSE Owed(c)

\* The lines the users have typed, all together.
Lines == MapThenSumSet(LAMBDA c : (Len(asked[c]) + 1) \div 2, Clients)

\* prepare_message: the head counts characters, the body is bytes.
Piece(part, i) == [part |-> part, req |-> i]
Message(i) == <<Piece("head", i), Piece("body", i)>>
LongMessage(i) == Append(Message(i), Piece("tail", i))

\* The user has typed a line.  poll reports stdin first, and then the socket
\* if there was an answer to read.
PollStdin(c) ==
  /\ cp[c] = "poll" /\ Lines < MaxLines
  /\ Patient => Unseen(c) <= 0
  /\ cp' = Put(cp, c, "name")
  /\ readable' = Put(readable, c, out[c] # <<>>)
  /\ asked' = Put(asked, c, Append(asked[c], 1))
  /\ line' = Put(line, c, line[c] \o Message(Len(asked[c]) + 1))
  /\ UNCHANGED <<server, in, out, fin, rst, read, skew>>

PollSocket(c) ==
  /\ cp[c] = "poll" /\ out[c] # <<>>
  /\ cp' = Put(cp, c, "get")
  /\ UNCHANGED <<server, in, out, line, fin, readable, asked, rst, read, skew>>

Take(c, n) ==
  /\ out' = Put(out, c, SubSeq(out[c], n + 1, Len(out[c])))
  /\ read' = Put(read, c, read[c] + n)

\* get_message: recv(5) and recv(res_len), once each.  What has not arrived of the
\* answer by then is left for the call after this one.
ReadWhole(c) == ~skew[c] /\ Take(c, 1) /\ UNCHANGED skew

ReadShort(c) ==
  /\ ~skew[c] /\ ~WholeReads
  /\ UNCHANGED <<out, read>>
  /\ skew' = Put(skew, c, TRUE)

\* What is left is taken for a head, and with it any part of what follows as long
\* as it says.  Only by chance does the next call begin with an answer.
ReadSkewed(c) ==
  /\ skew[c]
  /\ \E n \in 0..Len(out[c]), s \in BOOLEAN :
       /\ n = 0 => s
       /\ n = Len(out[c]) => ~s
       /\ Take(c, n)
       /\ skew' = Put(skew, c, s)

ReadAnswer(c) == out[c] # <<>> /\ (ReadWhole(c) \/ ReadShort(c) \/ ReadSkewed(c))

\* Or the client has read all there is, and waits for as much as it was told.
ReadOn(c) ==
  /\ cp[c] \in {"name", "get"} /\ skew[c] /\ out[c] # <<>>
  /\ Take(c, Len(out[c]))
  /\ UNCHANGED <<server, in, line, fin, cp, readable, asked, rst, skew>>

\* get_db_name: the first answer that comes is taken for the one to working_db.
GetName(c) ==
  /\ cp[c] = "name"
  /\ ReadAnswer(c)
  /\ cp' = Put(cp, c, "input")
  /\ UNCHANGED <<server, in, line, fin, readable, asked, rst>>

Input(c) ==
  /\ cp[c] = "input"
  /\ \E n \in AnswerCounts :
       /\ asked' = Put(asked, c, Append(asked[c], n))
       /\ \/ line' = Put(line, c, line[c] \o Message(Len(asked[c]) + 1))
          \/ /\ ~Ascii
             /\ line' = Put(line, c, line[c] \o LongMessage(Len(asked[c]) + 1))
  /\ cp' = Put(cp, c, IF readable[c] THEN "get" ELSE "poll")
  /\ UNCHANGED <<server, in, out, fin, readable, rst, read, skew>>

GetInput(c) ==
  /\ cp[c] = "get"
  /\ ReadAnswer(c)
  /\ cp' = Put(cp, c, "poll")
  /\ UNCHANGED <<server, in, line, fin, readable, asked, rst>>

\* The client ends (so it does when an answer is cut in the middle of a character
\* and cannot be decoded); in the middle of a sendall the rest is never sent.
HangUp(c) ==
  /\ HangUps # "never" /\ cp[c] # "gone"
  /\ cp' = Put(cp, c, "gone")
  /\ rst' = Put(rst, c, out[c] # <<>>)
  /\ \/ UNCHANGED line
     \/ HangUps = "anytime" /\ line[c] # <<>> /\ line' = Put(line, c, <<>>)
  /\ UNCHANGED <<server, in, out, fin, readable, asked, read, skew>>

\* The network: a piece arrives, or the end of the stream does.
Deliver(c) ==
  /\ line[c] # <<>>
  /\ in' = Put(in, c, Append(in[c], Head(line[c])))
  /\ line' = Put(line, c, Tail(line[c]))
  /\ UNCHANGED <<server, client, out, fin>>

DeliverEnd(c) ==
  /\ cp[c] = "gone" /\ line[c] = <<>> /\ ~fin[c]
  /\ fin' = Put(fin, c, TRUE)
  /\ UNCHANGED <<server, client, in, out, line>>

-----------------------------------------------------------------------------

Answering(c) ==
  PollSocket(c) \/ GetName(c) \/ Input(c) \/ GetInput(c) \/ ReadOn(c)

Next ==
  \/ \E b \in Batches : Wait(b)
  \/ Work
  \/ \E c \in Clients :
       \/ Accept(c) \/ Register(c)
       \/ PollStdin(c) \/ Answering(c) \/ HangUp(c)
       \/ Deliver(c) \/ DeliverEnd(c)

\* Both threads and the client programs run, and the network delivers; users
\* need not type and clients need not end.  Nothing is asked of the choice
\* epoll_wait makes among the connections that are ready.
Fairness ==
  /\ WF_vars(Work \/ \E b \in Batches : Wait(b))
  /\ \A c \in Clients :
       /\ WF_vars(Accept(c)) /\ WF_vars(Register(c))
       /\ WF_vars(Answering(c))
       /\ WF_vars(Deliver(c)) /\ WF_vars(DeliverEnd(c))

Spec == Init /\ [][Next]_vars /\ Fairness

-----------------------------------------------------------------------------
(* Properties.                                                             *)

\* The values each variable ranges over.
ServerTypeOK ==
  /\ con \in [Clients -> {"new", "accepted", "polled", "removed"}]
  /\ pc \in {"wait", "recv", "body", "run", "starved", "spin", "dead"}
  /\ Len(events) <= PollSize /\ Len(msgs) <= PollSize
  /\ failed \subseteq Clients
  /\ \A c \in Clients :
       /\ Len(out[c]) <= OutCap
       /\ cp[c] \in {"poll", "name", "input", "get", "gone"}
       /\ read[c] <= Len(AnswersTo(c))
       /\ skew[c] \in BOOLEAN

\* The stream to a client holds the answers to its own requests, in the order it
\* sent them, none lost and none twice: with several commands in a request, several
\* requests on their way, and batches of events cut short (command_loop,
\* server/server.cpp:193).  (Where the client cuts it into answers is its own
\* affair: see skew.)
AnswersInOrder ==
  \A c \in Clients :
    LET all == AnswersTo(c)
    IN  \A i \in 1..Len(out[c]) :
          read[c] + i <= Len(all) /\ out[c][i] = all[read[c] + i]

\* No client's end is the end of the server: it neither dies of a signal nor
\* reads from a stream that has ended for ever (recvall, send).
SurvivesClients == pc \notin {"dead", "spin"}

\* Only a client that ends with two answers or more to come, or unread, can kill
\* the server (send, server/server.cpp:220): the reset that the first of them
\* brings back hits the second.  Whoever has read all but one of the answers may
\* end when he likes, in the middle of a request too, and what the others have on
\* their way does not matter.
DiesOwing ==
  pc = "dead" => \E c \in failed : cp[c] = "gone" /\ Owed(c) >= 2

\* The client reads the answer to its last request, to its end.
ReadsDbName(c) == Head(out[c])[1] = Len(asked[c]) /\ ~skew[c] /\ ~skew'[c]

\* The prompt of the python client shows the answer to the working_db it has
\* just sent, from its head to its end (aci/aci.cpp:621, "returns the working db
\* name").
PromptIsWorkingDb ==
  [][\A c \in Clients : GetName(c) => ReadsDbName(c)]_vars

\* Every request is answered in the end, unless its client ends: no client
\* waits for the server for ever, whatever the others do.
Answered ==
  \A c \in Clients : Owed(c) > 0 ~> Owed(c) = 0 \/ cp[c] = "gone"
==============================================================================
