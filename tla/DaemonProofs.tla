---------------------------- MODULE DaemonProofs ----------------------------
(***************************************************************************)
(* The socket path, for any number of daemons, connections and requests,   *)
(* with daemons signalled and killed anywhere.  The only assumption is that *)
(* no two of them start at the same time; TLC shows it is needed           *)
(* (DaemonRace.cfg).                                                       *)
(***************************************************************************)
EXTENDS Daemon, SequenceTheorems, TLAPS

State == {"off"} \cup Starting \cup Accepting
Listening == {"chmod", "serving", "signalled"}

\* What a daemon found at the path when it looked stays true until it binds:
\* the others are not starting, so they can only leave, and whoever leaves
\* either owns the path or does not touch it.
SocketInv ==
    /\ state \in [Daemon -> State]
    /\ \A d, e \in Daemon : state[d] \in Starting /\ state[e] \in Starting => d = e
    /\ \A d \in Daemon :
         /\ state[d] \in Listening => path = d
         /\ state[d] = "unlink" => path = Stale
         /\ state[d] = "bind" => path = None

\* A step that is none of the socket's leaves path and state alone.
LEMMA ConnectionsKeepSocket ==
    ASSUME SocketInv, UNCHANGED <<path, state>> PROVE SocketInv'
BY DEF SocketInv

\* A daemon that ends gives up the path only if it was its own.
LEMMA EndSafe ==
    ASSUME SocketInv, NEW d \in Daemon, End(d) PROVE SocketInv'
<1> USE DaemonAssumption DEF SocketInv, State, Starting, Accepting, Listening
<1>1. /\ state' = [state EXCEPT ![d] = "off"]
      /\ path' = IF path = d THEN Stale ELSE path
  BY DEF End, Become
<1>2. state' \in [Daemon -> State]
  BY <1>1
<1>3. \A e \in Daemon : e # d => state'[e] = state[e]
  BY <1>1
<1>4. state'[d] = "off"
  BY <1>1
<1>5. ASSUME NEW e \in Daemon, state'[e] \in Listening PROVE path' = e
  BY <1>1, <1>3, <1>4, <1>5
<1>6. ASSUME NEW e \in Daemon, state'[e] \in {"unlink", "bind"} PROVE path' = path
  BY <1>1, <1>3, <1>4, <1>6
<1> QED BY <1>2, <1>3, <1>4, <1>5, <1>6

\* One step of a daemon.
LEMMA SocketStepSafe ==
    ASSUME SocketInv, Supervised = TRUE, NEW d \in Daemon, SocketStep(d)
    PROVE  SocketInv'
<1> USE DaemonAssumption DEF SocketInv, State, Starting, Accepting, Listening, Become
<1>1. CASE Start(d)
  BY <1>1 DEF Start
<1>2. CASE Probe(d)
  BY <1>2 DEF Probe
<1>3. CASE Unlink(d)
  BY <1>3 DEF Unlink
<1>4. CASE Bind(d)
  BY <1>4 DEF Bind
<1>5. CASE Chmod(d)
  BY <1>5, EndSafe DEF Chmod
<1>6. CASE Signal(d)
  BY <1>6 DEF Signal
<1>7. CASE RemoveSocket(d)
  BY <1>7 DEF RemoveSocket
<1>8. CASE Exit(d) \/ Kill(d)
  BY <1>8, EndSafe DEF Exit, Kill
<1> QED BY <1>1, <1>2, <1>3, <1>4, <1>5, <1>6, <1>7, <1>8 DEF SocketStep

\* The invariant of the socket path.
THEOREM SocketInvariant == ASSUME Supervised = TRUE PROVE Spec => []SocketInv
<1>1. Init => SocketInv
  BY DEF Init, SocketInv, State, Starting, Accepting, Listening
<1>2. SocketInv /\ [Next]_vars => SocketInv'
  <2> SUFFICES ASSUME SocketInv, [Next]_vars PROVE SocketInv'
    OBVIOUS
  <2>1. ASSUME NEW d \in Daemon, SocketStep(d) PROVE SocketInv'
    BY <2>1, SocketStepSafe
  <2>2. ASSUME NEW c \in Client, ClientStep(c) PROVE SocketInv'
    BY <2>2, ConnectionsKeepSocket
       DEF ClientStep, Connect, Ask, Send, Receive, ReceiveEof, Disconnect, KeepSocket
  <2>3. ASSUME NEW c \in Client, HandlerStep(c) PROVE SocketInv'
    BY <2>3, ConnectionsKeepSocket
       DEF HandlerStep, Accept, ReadRequest, ReadEof, TakeLock, Emit, Finish, Panic, Reply,
           KeepClient, KeepSocket
  <2>4. CASE UNCHANGED vars
    BY <2>4, ConnectionsKeepSocket DEF vars
  <2> QED BY <2>1, <2>2, <2>3, <2>4 DEF Next
<1> QED BY <1>1, <1>2, PTL DEF Spec

\* A daemon that serves is the one clients reach: nobody takes the socket path
\* from it before it removes the file itself.
THEOREM ServingIsReachable == ASSUME Supervised = TRUE PROVE Spec => []SocketReachable
<1>1. SocketInv => SocketReachable
  BY DEF SocketInv, SocketReachable, Listening
<1> QED BY <1>1, SocketInvariant, PTL

OneListens ==
    \A d, e \in Daemon : state[d] \in Listening /\ state[e] \in Listening => d = e

\* So no two daemons listen at once, however they are started and stopped.
THEOREM OneDaemonListens == ASSUME Supervised = TRUE PROVE Spec => []OneListens
<1>1. SocketInv => OneListens
  BY DEF SocketInv, OneListens
<1> QED BY <1>1, SocketInvariant, PTL

(***************************************************************************)
(* One connection, for any number of requests, events and messages in its  *)
(* buffer, with panics, poisoned locks, daemons that end anywhere, and     *)
(* clients that leave: a call is answered at most once, in step, and       *)
(* success means the request was carried out.  The only assumption is that *)
(* the client can parse the daemon's events (DaemonSkew.cfg).              *)
(***************************************************************************)
Msg == [type : {"progress", "err", Unknown} \cup Payload, to : Nat]
ConnType ==
    /\ phase \in [Client -> {"new", "ready", "calling", "gone"}]
    /\ asked \in [Client -> Nat] /\ handled \in [Client -> Nat]
    /\ call \in [Client -> Request \cup {Unknown, None}]
    /\ answer \in [Client -> {"none", "ok", "daemon", "io", "unexpected"}]
    /\ handler \in [Client -> Doing]
    /\ running \in [Client -> Request \cup {Unknown, None}]
    /\ inbox \in [Client -> Seq(Request \cup {Unknown})]
    /\ outbox \in [Client -> Seq(Msg)]
    /\ done \in [Client -> SUBSET Nat]

\* Events of the call in progress; and events followed by its final message.
Events(s, n) == \A i \in 1..Len(s) : s[i].type = "progress" /\ s[i].to = n
Final(m, n, op, carried) ==
    /\ m.to = n /\ m.type # "progress" /\ m.type # Unknown
    /\ m.type # "err" => m.type = Expects(op) /\ n \in carried
AnswerTo(s, n, op, carried) ==
    /\ Len(s) > 0 /\ Final(s[Len(s)], n, op, carried)
    /\ \A i \in 1..(Len(s) - 1) : s[i].type = "progress" /\ s[i].to = n
Answered(c) == AnswerTo(outbox[c], asked[c], call[c], done[c])

\* Where the one request of a call in progress is.
Queued(c) ==
    /\ inbox[c] = <<call[c]>> /\ outbox[c] = <<>> /\ handled[c] + 1 = asked[c]
    /\ handler[c] \in {"backlog", "reading"}
Served(c) ==
    /\ inbox[c] = <<>> /\ handled[c] = asked[c] /\ running[c] = call[c]
    /\ Events(outbox[c], asked[c])
    /\ \/ handler[c] \in {"waiting", "working"} /\ call[c] \in Request
       \/ handler[c] = "ok" /\ call[c] \in Request /\ asked[c] \in done[c]
       \/ handler[c] \in {"err", "malformed"}
Replied(c) ==
    inbox[c] = <<>> /\ handled[c] = asked[c] /\ handler[c] = "reading" /\ Answered(c)
Cut(c) ==
    inbox[c] = <<>> /\ handler[c] = "gone" /\ (Events(outbox[c], asked[c]) \/ Answered(c))

ConnOk(c) ==
    /\ phase[c] = "new" => /\ handler[c] = "gone" /\ inbox[c] = <<>> /\ outbox[c] = <<>>
                           /\ asked[c] = handled[c]
    /\ phase[c] = "ready" => /\ inbox[c] = <<>> /\ outbox[c] = <<>>
                             /\ handler[c] \in {"backlog", "reading", "gone"}
                             /\ handler[c] # "gone" => handled[c] = asked[c]
    /\ phase[c] = "calling" => Queued(c) \/ Served(c) \/ Replied(c) \/ Cut(c)
    /\ phase[c] = "gone" => outbox[c] = <<>>
    /\ answer[c] # "unexpected" /\ (answer[c] = "ok" => asked[c] \in done[c])
ConnInv == ConnType /\ \A c \in Client : ConnOk(c)

\* What dispatch answers to a request is what its caller expects.
LEMMA TablesAgree ==
    \A op \in Request : /\ Replies[op] = Expects(op) /\ Replies[op] \in Payload
                        /\ Replies[op] \notin {"progress", "err", Unknown}
<1>1. Request = {"ping", "install", "install_local", "remove", "upgrade", "hold", "unhold",
                 "autoremove", "update", "clean", "list", "search", "info", "verify", "history"}
  BY DEF Request, Replies
<1>2. DOMAIN OfCommands = {"install", "install_local", "remove", "upgrade", "hold", "unhold",
                           "autoremove", "update"}
  BY DEF OfCommands
<1>3. \A op \in DOMAIN OfCommands : Replies[op] = OfCommands[op]
  BY <1>2 DEF Replies, OfCommands
<1>4. \A op \in Request \ DOMAIN OfCommands : Replies[op] = OfQueries[op]
  BY <1>1, <1>2 DEF Replies, OfQueries
<1>5. \A op \in Request : Replies[op] \in {"pong", "installed", "removed", "upgraded", "unit",
                 "freed", "listed", "searched", "info", "verified", "history"}
  BY <1>1 DEF Replies
<1>6. \A op \in Request : Replies[op] = Expects(op)
  BY <1>3, <1>4 DEF Expects
<1>7. \A op \in Request : Replies[op] \in Payload
  BY DEF Payload
<1>8. \A op \in Request : Replies[op] \notin {"progress", "err", Unknown}
  BY <1>5 DEF Unknown
<1> QED BY <1>6, <1>7, <1>8

\* The invariant is what the two properties need.
LEMMA ConnInvImplies ==
    ConnInv => AnswersInStep /\ OkMeansDone
<1> SUFFICES ASSUME ConnInv, NEW c \in Client
             PROVE  /\ phase[c] = "ready" => outbox[c] = <<>> /\ inbox[c] = <<>>
                    /\ \A i \in 1..Len(outbox[c]) :
                         /\ outbox[c][i].to = asked[c]
                         /\ i < Len(outbox[c]) => outbox[c][i].type = "progress"
                    /\ answer[c] # "unexpected"
                    /\ answer[c] = "ok" => asked[c] \in done[c]
  BY DEF AnswersInStep, OkMeansDone
<1>1. ConnOk(c) /\ outbox[c] \in Seq(Msg) /\ phase[c] \in {"new", "ready", "calling", "gone"}
  BY DEF ConnInv, ConnType
<1>2. Len(<<>>) = 0 /\ Len(outbox[c]) \in Nat
  BY <1>1
<1>3. CASE outbox[c] = <<>>
  BY <1>1, <1>2, <1>3 DEF ConnOk
<1>4. CASE phase[c] = "calling" /\ Events(outbox[c], asked[c])
  BY <1>1, <1>2, <1>4 DEF ConnOk, Events
<1>5. CASE phase[c] = "calling" /\ Answered(c)
  BY <1>1, <1>2, <1>5 DEF ConnOk, Answered, AnswerTo, Final
<1> QED BY <1>1, <1>3, <1>4, <1>5 DEF ConnOk, Queued, Served, Replied, Cut

\* A connection that a step does not touch.
LEMMA Untouched ==
    ASSUME NEW c \in Client, ConnOk(c),
           phase'[c] = phase[c], asked'[c] = asked[c], call'[c] = call[c],
           answer'[c] = answer[c], handler'[c] = handler[c], running'[c] = running[c],
           handled'[c] = handled[c], inbox'[c] = inbox[c], outbox'[c] = outbox[c],
           done'[c] = done[c]
    PROVE  ConnOk(c)'
BY DEF ConnOk, Queued, Served, Replied, Cut, Answered

\* A request is sent: it is queued, or the connection is found closed.
LEMMA SendOk ==
    ASSUME ConnInv, NEW c \in Client, NEW op \in Request \cup {Unknown}, Send(c, op)
    PROVE  ConnInv'
<1>0. ConnType
  BY DEF ConnInv
<1>1. /\ phase[c] = "ready" /\ UNCHANGED <<server, thread, outbox, done>>
      /\ asked' = [asked EXCEPT ![c] = @ + 1] /\ call' = [call EXCEPT ![c] = op]
  BY DEF Send
<1>2. \A o \in Client : o # c =>
        /\ phase'[o] = phase[o] /\ asked'[o] = asked[o] /\ call'[o] = call[o]
        /\ answer'[o] = answer[o] /\ inbox'[o] = inbox[o]
  BY DEF Send, ConnInv, ConnType
<1>3. \A o \in Client : o # c => ConnOk(o)'
  BY <1>1, <1>2, Untouched DEF ConnInv, thread
<1>4. /\ inbox[c] = <<>> /\ outbox[c] = <<>> /\ handler[c] \in {"backlog", "reading", "gone"}
      /\ handler[c] # "gone" => handled[c] = asked[c]
  BY <1>1 DEF ConnInv, ConnOk
<1>5. asked'[c] = asked[c] + 1 /\ call'[c] = op /\ asked[c] \in Nat
  BY <1>1 DEF ConnInv, ConnType
<1>6. CASE handler[c] = "gone"
  <2>1. answer'[c] = "io" /\ phase'[c] = "gone" /\ outbox'[c] = <<>>
    BY <1>1, <1>4, <1>6 DEF Send, ConnInv, ConnType
  <2>2. ConnOk(c)'
    BY <2>1 DEF ConnOk
  <2>3. ConnType'
    <3>1. answer' = [answer EXCEPT ![c] = "io"] /\ phase' = [phase EXCEPT ![c] = "gone"]
          /\ UNCHANGED inbox
      BY <1>6 DEF Send
    <3> QED BY <1>0, <1>1, <3>1 DEF ConnType, thread
  <2> QED BY <1>3, <2>2, <2>3 DEF ConnInv
<1>7. CASE handler[c] # "gone"
  <2>1. /\ answer'[c] = "none" /\ phase'[c] = "calling" /\ inbox'[c] = Append(inbox[c], op)
        /\ outbox'[c] = <<>> /\ handler'[c] = handler[c] /\ handled'[c] = handled[c]
    BY <1>1, <1>4, <1>7 DEF Send, ConnInv, ConnType, thread
  <2>2. inbox'[c] = <<op>>
    BY <1>4, <2>1
  <2>3. Queued(c)'
    BY <1>4, <1>5, <1>7, <2>1, <2>2 DEF Queued
  <2>4. ConnOk(c)'
    BY <2>1, <2>3 DEF ConnOk
  <2>5. ConnType'
    <3>1. answer' = [answer EXCEPT ![c] = "none"] /\ phase' = [phase EXCEPT ![c] = "calling"]
          /\ inbox' = [inbox EXCEPT ![c] = Append(@, op)]
      BY <1>7 DEF Send
    <3>2. Append(inbox[c], op) \in Seq(Request \cup {Unknown})
      BY <1>0 DEF ConnType
    <3> QED BY <1>0, <1>1, <3>1, <3>2 DEF ConnType, thread
  <2> QED BY <1>3, <2>4, <2>5 DEF ConnInv
<1> QED BY <1>6, <1>7

\* What is left of a reply when its first message is taken.
LEMMA TailOf ==
    ASSUME NEW s \in Seq(Msg), s # <<>>, NEW n \in Nat, NEW op, NEW carried
    PROVE  /\ Events(s, n) => Events(Tail(s), n)
           /\ AnswerTo(s, n, op, carried) /\ s[1].type = "progress"
                => AnswerTo(Tail(s), n, op, carried)
           /\ AnswerTo(s, n, op, carried) /\ s[1].type # "progress"
                => Final(s[1], n, op, carried) /\ Tail(s) = <<>>
<1>1. Len(s) \in Nat /\ Len(s) > 0 /\ Tail(s) \in Seq(Msg) /\ Len(Tail(s)) = Len(s) - 1
  OBVIOUS
<1>2. \A i \in 1..(Len(s) - 1) : Tail(s)[i] = s[i + 1]
  OBVIOUS
<1>3. Events(s, n) => Events(Tail(s), n)
  BY <1>1, <1>2 DEF Events
<1>4. ASSUME AnswerTo(s, n, op, carried), s[1].type = "progress"
      PROVE  AnswerTo(Tail(s), n, op, carried)
  <2>1. Len(s) > 1
    BY <1>1, <1>4 DEF AnswerTo, Final
  <2>2. Tail(s)[Len(Tail(s))] = s[Len(s)]
    BY <1>1, <1>2, <2>1
  <2>3. \A i \in 1..(Len(Tail(s)) - 1) : Tail(s)[i].type = "progress" /\ Tail(s)[i].to = n
    BY <1>1, <1>2, <1>4, <2>1 DEF AnswerTo
  <2> QED BY <1>1, <1>4, <2>1, <2>2, <2>3 DEF AnswerTo
<1>5. ASSUME AnswerTo(s, n, op, carried), s[1].type # "progress"
      PROVE  Final(s[1], n, op, carried) /\ Tail(s) = <<>>
  <2>1. Len(s) = 1
    BY <1>1, <1>5 DEF AnswerTo
  <2>2. Len(Tail(s)) = 0
    BY <1>1, <2>1
  <2>3. Tail(s) = <<>>
    BY <1>1, <2>2, EmptySeq
  <2> QED BY <1>5, <2>1, <2>3 DEF AnswerTo
<1> QED BY <1>3, <1>4, <1>5

\* A message is received: an event, or the one that ends the call.
LEMMA ReceiveOk ==
    ASSUME ConnInv, NEW c \in Client, Receive(c) PROVE ConnInv'
<1> DEFINE s == outbox[c]
           m == Head(outbox[c])
<1>1. /\ phase[c] = "calling" /\ s # <<>> /\ outbox' = [outbox EXCEPT ![c] = Tail(@)]
      /\ UNCHANGED <<asked, call, thread, inbox, done>>
  BY DEF Receive
<1>2. /\ s \in Seq(Msg) /\ Len(s) \in Nat /\ Len(s) > 0 /\ m = s[1] /\ m \in Msg
      /\ asked[c] \in Nat
  BY <1>1 DEF ConnInv, ConnType
<1>3. /\ outbox'[c] = Tail(s) /\ Tail(s) \in Seq(Msg) /\ Len(Tail(s)) = Len(s) - 1
      /\ \A i \in 1..(Len(s) - 1) : Tail(s)[i] = s[i + 1]
  BY <1>1, <1>2 DEF ConnInv, ConnType
<1>4. ConnOk(c) /\ ~Queued(c)
  BY <1>1 DEF ConnInv, Queued
<1>5. Events(s, asked[c]) \/ Answered(c)
  BY <1>1, <1>4 DEF ConnOk, Served, Replied, Cut
<1>6. \A o \in Client : o # c => ConnOk(o)'
  <2>1. \A o \in Client : o # c => /\ phase'[o] = phase[o] /\ answer'[o] = answer[o]
                                   /\ outbox'[o] = outbox[o]
    BY DEF Receive, ConnInv, ConnType
  <2> QED BY <1>1, <2>1, Untouched DEF ConnInv, thread
<1>7. CASE m.type = "progress"
  <2>1. UNCHANGED <<answer, phase>>
    BY <1>7 DEF Receive
  <2>2. Events(s, asked[c]) => Events(outbox'[c], asked'[c])
    BY <1>1, <1>2, <1>3, TailOf
  <2>3. Answered(c) => Answered(c)'
    BY <1>1, <1>2, <1>3, <1>7, TailOf DEF Answered
  <2>4. ConnOk(c)'
    <3>1. Served(c) => Served(c)'
      BY <1>1, <2>2 DEF Served, thread
    <3>2. Replied(c) => Replied(c)'
      BY <1>1, <2>3 DEF Replied, thread
    <3>3. Cut(c) => Cut(c)'
      BY <1>1, <2>2, <2>3 DEF Cut, thread
    <3> QED BY <1>1, <1>4, <2>1, <3>1, <3>2, <3>3 DEF ConnOk
  <2>5. ConnType'
    BY <1>1, <1>3, <2>1 DEF ConnInv, ConnType, thread
  <2> QED BY <1>6, <2>4, <2>5 DEF ConnInv
<1>8. CASE m.type # "progress"
  <2>1. /\ answer' = [answer EXCEPT ![c] = Returned(c, m)]
        /\ phase' = [phase EXCEPT ![c] = "ready"]
    BY <1>8 DEF Receive
  <2>2. Answered(c)
    BY <1>2, <1>5, <1>8 DEF Events
  <2>3. Final(m, asked[c], call[c], done[c]) /\ outbox'[c] = <<>>
    BY <1>2, <1>3, <1>8, <2>2, TailOf DEF Answered
  <2>5. Returned(c, m) \in {"daemon", "ok"} /\ (Returned(c, m) = "ok" => asked[c] \in done[c])
    BY <2>3 DEF Returned, Final
  <2>6. Replied(c) \/ Cut(c)
    <3>1. ~Events(s, asked[c])
      BY <1>2, <1>8 DEF Events
    <3> QED BY <1>1, <1>4, <3>1 DEF ConnOk, Served
  <2>7. ConnOk(c)'
    <3>1. phase'[c] = "ready" /\ answer'[c] = Returned(c, m)
      BY <2>1 DEF ConnInv, ConnType
    <3> QED BY <1>1, <2>3, <2>5, <2>6, <3>1 DEF ConnOk, Replied, Cut, thread
  <2>8. ConnType'
    BY <1>1, <1>3, <2>1, <2>5 DEF ConnInv, ConnType, thread
  <2> QED BY <1>6, <2>7, <2>8 DEF ConnInv
<1> QED BY <1>7, <1>8

\* A message is added to a reply.
LEMMA AppendOf ==
    ASSUME NEW s \in Seq(Msg), NEW m \in Msg, NEW n \in Nat, NEW op, NEW carried, Events(s, n)
    PROVE  /\ Append(s, m) \in Seq(Msg)
           /\ m.type = "progress" /\ m.to = n => Events(Append(s, m), n)
           /\ Final(m, n, op, carried) => AnswerTo(Append(s, m), n, op, carried)
<1>1. /\ Append(s, m) \in Seq(Msg) /\ Len(s) \in Nat /\ Len(Append(s, m)) = Len(s) + 1
      /\ Append(s, m)[Len(s) + 1] = m /\ \A i \in 1..Len(s) : Append(s, m)[i] = s[i]
  OBVIOUS
<1>2. m.type = "progress" /\ m.to = n => Events(Append(s, m), n)
  BY <1>1 DEF Events
<1>3. Final(m, n, op, carried) => AnswerTo(Append(s, m), n, op, carried)
  BY <1>1 DEF Events, AnswerTo
<1> QED BY <1>1, <1>2, <1>3

\* The other steps of a client: it connects, finds the end, or leaves.
LEMMA ClientOk ==
    ASSUME ConnInv, NEW c \in Client, Connect(c) \/ ReceiveEof(c) \/ Disconnect(c)
    PROVE  ConnInv'
<1>0. ConnType /\ \A o \in Client : ConnOk(o)
  BY DEF ConnInv
<1>1. CASE Connect(c)
  <2>1. /\ phase[c] = "new" /\ phase' = [phase EXCEPT ![c] = "ready"]
        /\ handler' = [handler EXCEPT ![c] = "backlog"]
        /\ UNCHANGED <<asked, call, answer, running, handled, inbox, outbox, done>>
    BY <1>1 DEF Connect
  <2>2. ConnType'
    BY <1>0, <2>1 DEF ConnType, Doing
  <2>3. ConnOk(c)'
    BY <1>0, <2>1 DEF ConnOk, ConnType
  <2>4. \A o \in Client : o # c => ConnOk(o)'
    BY <1>0, <2>1, Untouched DEF ConnType
  <2> QED BY <2>2, <2>3, <2>4 DEF ConnInv
<1>2. CASE ReceiveEof(c)
  <2>1. /\ phase[c] = "calling" /\ outbox[c] = <<>> /\ phase' = [phase EXCEPT ![c] = "gone"]
        /\ answer' = [answer EXCEPT ![c] = "io"]
        /\ UNCHANGED <<asked, call, handler, running, handled, inbox, outbox, done>>
    BY <1>2 DEF ReceiveEof, thread
  <2>2. ConnType'
    BY <1>0, <2>1 DEF ConnType
  <2>3. ConnOk(c)'
    BY <1>0, <2>1 DEF ConnOk, ConnType
  <2>4. \A o \in Client : o # c => ConnOk(o)'
    BY <1>0, <2>1, Untouched DEF ConnType
  <2> QED BY <2>2, <2>3, <2>4 DEF ConnInv
<1>3. CASE Disconnect(c)
  <2>1. /\ phase' = [phase EXCEPT ![c] = "gone"] /\ outbox' = [outbox EXCEPT ![c] = <<>>]
        /\ call' = [call EXCEPT ![c] = None] /\ answer' = [answer EXCEPT ![c] = "none"]
        /\ UNCHANGED <<asked, handler, running, handled, inbox, done>>
    BY <1>3 DEF Disconnect, thread
  <2>2. ConnType'
    <3>1. <<>> \in Seq(Msg)
      OBVIOUS
    <3> QED BY <1>0, <2>1, <3>1 DEF ConnType
  <2>3. ConnOk(c)'
    BY <1>0, <2>1 DEF ConnOk, ConnType
  <2>4. \A o \in Client : o # c => ConnOk(o)'
    BY <1>0, <2>1, Untouched DEF ConnType
  <2> QED BY <2>2, <2>3, <2>4 DEF ConnInv
<1> QED BY <1>1, <1>2, <1>3

\* A process that ends cuts its connections.
LEMMA CloseAllOk ==
    ASSUME ConnInv, NEW d \in Daemon, CloseAll(d) PROVE ConnInv'
<1> DEFINE lost == {c \in Client : server[c] = d /\ handler[c] # "gone"}
<1>0. ConnType /\ \A o \in Client : ConnOk(o)
  BY DEF ConnInv
<1>1. /\ handler' = [c \in Client |-> IF c \in lost THEN "gone" ELSE handler[c]]
      /\ inbox' = [c \in Client |-> IF c \in lost THEN <<>> ELSE inbox[c]]
      /\ running' = [c \in Client |-> IF c \in lost THEN None ELSE running[c]]
      /\ UNCHANGED <<phase, asked, call, answer, handled, outbox, done>>
  BY DEF CloseAll, client
<1>2. ConnType'
  <2>1. <<>> \in Seq(Request \cup {Unknown})
    OBVIOUS
  <2>2. handler' \in [Client -> Doing]
    BY <1>0, <1>1 DEF ConnType, Doing
  <2>3. inbox' \in [Client -> Seq(Request \cup {Unknown})]
    BY <1>0, <1>1, <2>1 DEF ConnType
  <2>4. running' \in [Client -> Request \cup {Unknown, None}]
    BY <1>0, <1>1 DEF ConnType
  <2> QED BY <1>0, <1>1, <2>2, <2>3, <2>4 DEF ConnType
<1>3. ASSUME NEW c \in Client, c \notin lost PROVE ConnOk(c)'
  BY <1>0, <1>1, <1>3, Untouched
<1>4. ASSUME NEW c \in Client, c \in lost PROVE ConnOk(c)'
  <2>1. handler[c] # "gone" /\ handler'[c] = "gone" /\ inbox'[c] = <<>>
    BY <1>1, <1>4
  <2>2. Queued(c) => Events(outbox[c], asked[c])
    BY DEF Queued, Events
  <2>3. Events(outbox[c], asked[c]) => Events(outbox'[c], asked'[c])
    BY <1>1
  <2>4. Answered(c) => Answered(c)'
    BY <1>1 DEF Answered
  <2>5. phase[c] = "calling" => Cut(c)'
    BY <1>0, <1>1, <2>1, <2>2, <2>3, <2>4 DEF ConnOk, Served, Replied, Cut
  <2> QED BY <1>0, <1>1, <2>1, <2>5 DEF ConnOk
<1> QED BY <1>2, <1>3, <1>4 DEF ConnInv

\* One step of a daemon's process.
LEMMA SocketStepOk ==
    ASSUME ConnInv, NEW d \in Daemon, SocketStep(d) PROVE ConnInv'
<1>1. CASE KeepConnections
  <2>1. UNCHANGED <<phase, asked, call, answer, handler, running, handled, inbox, outbox, done>>
    BY <1>1 DEF KeepConnections, client, thread
  <2>2. \A c \in Client : ConnOk(c)'
    BY <2>1, Untouched DEF ConnInv
  <2> QED BY <2>1, <2>2 DEF ConnInv, ConnType
<1>2. CASE CloseAll(d)
  BY <1>2, CloseAllOk
<1> QED BY <1>1, <1>2 DEF SocketStep, Start, Probe, Unlink, Bind, Chmod, Signal, RemoveSocket,
                          Exit, Kill, End

\* What a thread's step may change: its own connection's columns only.
LEMMA HandlerOthers ==
    ASSUME ConnInv, NEW c \in Client, HandlerStep(c), NEW o \in Client, o # c
    PROVE  ConnOk(o)'
<1>1. UNCHANGED <<phase, asked, call, answer>>
  BY DEF HandlerStep, Accept, ReadRequest, ReadEof, TakeLock, Emit, Finish, Panic, Reply,
         KeepClient, client
<1>2. handler'[o] = handler[o] /\ running'[o] = running[o] /\ handled'[o] = handled[o]
  BY DEF HandlerStep, Accept, ReadRequest, ReadEof, TakeLock, Emit, Finish, Panic, Reply,
         Thread, ConnInv, ConnType
<1>3. inbox'[o] = inbox[o] /\ done'[o] = done[o]
  BY DEF HandlerStep, Accept, ReadRequest, ReadEof, TakeLock, Emit, Finish, Panic, Reply,
         ConnInv, ConnType
<1>4. outbox'[o] = outbox[o]
  BY DEF HandlerStep, Accept, ReadRequest, ReadEof, TakeLock, Emit, Finish, Panic, Reply,
         Write, ConnInv, ConnType
<1> QED BY <1>1, <1>2, <1>3, <1>4, Untouched DEF ConnInv

\* A thread takes its connection, and ends with it.
LEMMA ThreadEndsOk ==
    ASSUME ConnInv, NEW c \in Client, Accept(c) \/ ReadEof(c) \/ Panic(c)
    PROVE  ConnType' /\ ConnOk(c)'
<1>0. ConnType /\ ConnOk(c)
  BY DEF ConnInv
<1>1. CASE Accept(c)
  <2>1. /\ handler[c] = "backlog" /\ handler' = [handler EXCEPT ![c] = "reading"]
        /\ UNCHANGED <<phase, asked, call, answer, running, handled, inbox, outbox, done>>
    BY <1>1 DEF Accept, Thread, KeepClient, client
  <2>2. ConnType'
    BY <1>0, <2>1 DEF ConnType, Doing
  <2>3. Queued(c) => Queued(c)'
    BY <1>0, <2>1 DEF Queued, ConnType
  <2>4. ConnOk(c)'
    BY <1>0, <2>1, <2>3 DEF ConnOk, ConnType, Served, Replied, Cut
  <2> QED BY <2>2, <2>4
<1>2. CASE ReadEof(c)
  <2>1. /\ phase[c] = "gone" /\ handler' = [handler EXCEPT ![c] = "gone"]
        /\ UNCHANGED <<phase, asked, call, answer, running, handled, inbox, outbox, done>>
    BY <1>2 DEF ReadEof, Thread, KeepClient, client
  <2>2. ConnType'
    BY <1>0, <2>1 DEF ConnType, Doing
  <2>3. ConnOk(c)'
    BY <1>0, <2>1 DEF ConnOk
  <2> QED BY <2>2, <2>3
<1>3. CASE Panic(c)
  <2>1. /\ handler[c] = "working" /\ handler' = [handler EXCEPT ![c] = "gone"]
        /\ inbox' = [inbox EXCEPT ![c] = <<>>]
        /\ UNCHANGED <<phase, asked, call, answer, running, handled, outbox, done>>
    BY <1>3 DEF Panic, Thread, KeepClient, client
  <2>2. ConnType'
    <3>1. <<>> \in Seq(Request \cup {Unknown})
      OBVIOUS
    <3> QED BY <1>0, <2>1, <3>1 DEF ConnType, Doing
  <2>3. Served(c) => Cut(c)'
    <3>1. handler'[c] = "gone" /\ inbox'[c] = <<>>
      BY <1>0, <2>1 DEF ConnType
    <3> QED BY <2>1, <3>1 DEF Served, Cut
  <2>4. ConnOk(c)'
    BY <1>0, <2>1, <2>3 DEF ConnOk, Queued, Replied, Cut
  <2> QED BY <2>2, <2>4
<1> QED BY <1>1, <1>2, <1>3

\* A request is read: it is the one its caller waits on.
LEMMA ReadRequestOk ==
    ASSUME ConnInv, NEW c \in Client, ReadRequest(c) PROVE ConnType' /\ ConnOk(c)'
<1> DEFINE op == Head(inbox[c])
<1>0. ConnType /\ ConnOk(c)
  BY DEF ConnInv
<1>1. /\ handler[c] = "reading" /\ inbox[c] # <<>> /\ inbox' = [inbox EXCEPT ![c] = Tail(@)]
      /\ running' = [running EXCEPT ![c] = op] /\ handled' = [handled EXCEPT ![c] = @ + 1]
      /\ UNCHANGED <<phase, asked, call, answer, outbox>>
  BY DEF ReadRequest, KeepClient, client
<1>2. op \in Request \cup {Unknown} /\ Tail(inbox[c]) \in Seq(Request \cup {Unknown})
  BY <1>0, <1>1 DEF ConnType
<1>3. PICK l \in {"malformed", "ok", "waiting"} :
        /\ handler' = [handler EXCEPT ![c] = l]
        /\ l = "malformed" <=> op = Unknown
        /\ l = "ok" => op = "ping"
        /\ done' = [done EXCEPT ![c] = IF op = "ping" THEN @ \cup {handled'[c]} ELSE @]
  BY DEF ReadRequest, Thread, Unknown
<1>4. handled'[c] = handled[c] + 1 /\ handled[c] \in Nat /\ handler'[c] = l
      /\ running'[c] = op /\ inbox'[c] = Tail(inbox[c])
  BY <1>0, <1>1, <1>3 DEF ConnType
<1>5. ConnType'
  <2>1. done' \in [Client -> SUBSET Nat]
    BY <1>0, <1>3, <1>4 DEF ConnType
  <2> QED BY <1>0, <1>1, <1>2, <1>3, <2>1 DEF ConnType, Doing
<1>6. done[c] \subseteq done'[c] /\ (op = "ping" => handled'[c] \in done'[c])
  BY <1>0, <1>3 DEF ConnType
<1>7. Queued(c) => Served(c)'
  <2> SUFFICES ASSUME Queued(c) PROVE Served(c)'
    OBVIOUS
  <2>1. inbox[c] = <<call[c]>> /\ outbox[c] = <<>> /\ handled[c] + 1 = asked[c]
    BY DEF Queued
  <2>2. op = call[c] /\ Tail(inbox[c]) = <<>>
    BY <2>1
  <2>3. Events(outbox'[c], asked'[c])
    BY <1>1, <2>1 DEF Events
  <2>4. "ping" \in Request
    BY DEF Request, Replies
  <2> QED BY <1>1, <1>2, <1>3, <1>4, <1>6, <2>1, <2>2, <2>3, <2>4 DEF Served
<1>8. ConnOk(c)'
  BY <1>0, <1>1, <1>6, <1>7 DEF ConnOk, ConnType, Served, Replied, Cut
<1> QED BY <1>5, <1>8

\* The lock is taken, or found poisoned.
LEMMA TakeLockOk ==
    ASSUME ConnInv, NEW c \in Client, TakeLock(c) PROVE ConnType' /\ ConnOk(c)'
<1>0. ConnType /\ ConnOk(c)
  BY DEF ConnInv
<1>1. handler[c] = "waiting"
      /\ UNCHANGED <<phase, asked, call, answer, running, handled, outbox, done>>
  BY DEF TakeLock, KeepClient, client
<1>2. CASE handler' = [handler EXCEPT ![c] = "gone"] /\ inbox' = [inbox EXCEPT ![c] = <<>>]
  <2>1. ConnType'
    <3>1. <<>> \in Seq(Request \cup {Unknown})
      OBVIOUS
    <3> QED BY <1>0, <1>1, <1>2, <3>1 DEF ConnType, Doing
  <2>2. Served(c) => Cut(c)'
    <3>1. handler'[c] = "gone" /\ inbox'[c] = <<>>
      BY <1>0, <1>2 DEF ConnType
    <3> QED BY <1>1, <3>1 DEF Served, Cut
  <2>3. ConnOk(c)'
    BY <1>0, <1>1, <2>2 DEF ConnOk, Queued, Replied, Cut
  <2> QED BY <2>1, <2>3
<1>3. CASE handler' = [handler EXCEPT ![c] = "working"] /\ UNCHANGED inbox
  <2>1. ConnType'
    BY <1>0, <1>1, <1>3 DEF ConnType, Doing
  <2>2. Served(c) => Served(c)'
    <3>1. handler'[c] = "working"
      BY <1>0, <1>3 DEF ConnType
    <3> QED BY <1>1, <1>3, <3>1 DEF Served
  <2>3. ConnOk(c)'
    BY <1>0, <1>1, <1>3, <2>2 DEF ConnOk, Queued, Replied, Cut
  <2> QED BY <2>1, <2>3
<1> QED BY <1>2, <1>3 DEF TakeLock, Thread

\* The operation returns.
LEMMA FinishOk ==
    ASSUME ConnInv, NEW c \in Client, Finish(c) PROVE ConnType' /\ ConnOk(c)'
<1>0. ConnType /\ ConnOk(c)
  BY DEF ConnInv
<1>1. handler[c] = "working"
      /\ UNCHANGED <<phase, asked, call, answer, running, handled, inbox, outbox>>
  BY DEF Finish, KeepClient, client
<1>2. CASE Thread(c, "ok") /\ done' = [done EXCEPT ![c] = @ \cup {handled[c]}]
  <2>1. handler' = [handler EXCEPT ![c] = "ok"] /\ handler'[c] = "ok"
    BY <1>0, <1>2 DEF Thread, ConnType
  <2>2. ConnType'
    BY <1>0, <1>1, <1>2, <2>1 DEF ConnType, Doing
  <2>3. done[c] \subseteq done'[c] /\ handled[c] \in done'[c]
    BY <1>0, <1>2 DEF ConnType
  <2>4. Served(c) => Served(c)'
    BY <1>1, <2>1, <2>3 DEF Served
  <2>5. ConnOk(c)'
    BY <1>0, <1>1, <2>1, <2>3, <2>4 DEF ConnOk, Queued, Replied, Cut
  <2> QED BY <2>2, <2>5
<1>3. CASE Thread(c, "err") /\ UNCHANGED done
  <2>1. handler' = [handler EXCEPT ![c] = "err"] /\ handler'[c] = "err"
    BY <1>0, <1>3 DEF Thread, ConnType
  <2>2. ConnType'
    BY <1>0, <1>1, <1>3, <2>1 DEF ConnType, Doing
  <2>3. Served(c) => Served(c)'
    BY <1>1, <1>3, <2>1 DEF Served
  <2>4. ConnOk(c)'
    BY <1>0, <1>1, <1>3, <2>1, <2>3 DEF ConnOk, Queued, Replied, Cut
  <2> QED BY <2>2, <2>4
<1> QED BY <1>2, <1>3 DEF Finish

\* A message is written, unless the client is gone.
LEMMA WriteOf ==
    ASSUME ConnInv, NEW c \in Client, NEW type \in {"progress", "err", Unknown} \cup Payload,
           Write(c, type)
    PROVE  /\ outbox' \in [Client -> Seq(Msg)]
           /\ phase[c] = "gone" => outbox'[c] = outbox[c]
           /\ phase[c] # "gone" => outbox'[c] = Append(outbox[c], [type |-> type, to |-> handled[c]])
<1>1. outbox \in [Client -> Seq(Msg)] /\ [type |-> type, to |-> handled[c]] \in Msg
  BY DEF ConnInv, ConnType, Msg
<1>2. Append(outbox[c], [type |-> type, to |-> handled[c]]) \in Seq(Msg)
  BY <1>1
<1> QED BY <1>1, <1>2 DEF Write

\* An event is written for the call in progress.
LEMMA EmitOk ==
    ASSUME ConnInv, "newer_daemon" \notin Faults, NEW c \in Client, Emit(c)
    PROVE  ConnType' /\ ConnOk(c)'
<1>0. ConnType /\ ConnOk(c)
  BY DEF ConnInv
<1>1. /\ handler[c] = "working" /\ Write(c, "progress")
      /\ UNCHANGED <<phase, asked, call, answer, handler, running, handled, inbox, done>>
  BY DEF Emit, KeepClient, client
<1>2. /\ outbox' \in [Client -> Seq(Msg)]
      /\ phase[c] = "gone" => outbox'[c] = outbox[c]
      /\ phase[c] # "gone" =>
           outbox'[c] = Append(outbox[c], [type |-> "progress", to |-> handled[c]])
  BY <1>1, WriteOf
<1>3. ConnType'
  BY <1>0, <1>1, <1>2 DEF ConnType
<1>4. Served(c) /\ phase[c] # "gone" => Served(c)'
  <2> SUFFICES ASSUME Served(c), phase[c] # "gone" PROVE Served(c)'
    OBVIOUS
  <2>1. Events(outbox[c], asked[c]) /\ handled[c] = asked[c]
    BY DEF Served
  <2>2. outbox[c] \in Seq(Msg) /\ [type |-> "progress", to |-> handled[c]] \in Msg
        /\ asked[c] \in Nat
    BY <1>0 DEF ConnType, Msg
  <2>3. Events(Append(outbox[c], [type |-> "progress", to |-> handled[c]]), asked[c])
    BY <2>1, <2>2, AppendOf
  <2>4. Events(outbox'[c], asked'[c])
    BY <1>1, <1>2, <2>3
  <2> QED BY <1>1, <2>4 DEF Served
<1>5. ConnOk(c)'
  BY <1>0, <1>1, <1>2, <1>4 DEF ConnOk, ConnType, Queued, Replied, Cut
<1> QED BY <1>3, <1>5

\* A final message is written, and the thread goes on, or ends.
ReplyWith(c, type, l) ==
    /\ handler[c] \in {"ok", "err", "malformed"} /\ Write(c, type)
    /\ handler' = [handler EXCEPT ![c] = l]
    /\ UNCHANGED inbox \/ (l = "gone" /\ inbox' = [inbox EXCEPT ![c] = <<>>])
    /\ Served(c) => Final([type |-> type, to |-> asked[c]], asked[c], call[c], done[c])

\* The final message is written after the events, and once.
LEMMA ReplyOk ==
    ASSUME ConnInv, NEW c \in Client, Reply(c) PROVE ConnType' /\ ConnOk(c)'
<1>0. ConnType /\ ConnOk(c)
  BY DEF ConnInv
<1>1. UNCHANGED <<phase, asked, call, answer, running, handled, done>>
  BY DEF Reply, KeepClient, client
<1>2. ASSUME NEW type \in {"err"} \cup Payload, NEW l \in {"reading", "gone"},
             ReplyWith(c, type, l)
      PROVE  ConnType' /\ ConnOk(c)'
  <2>0. /\ handler[c] \in {"ok", "err", "malformed"} /\ Write(c, type)
        /\ handler' = [handler EXCEPT ![c] = l]
        /\ UNCHANGED inbox \/ (l = "gone" /\ inbox' = [inbox EXCEPT ![c] = <<>>])
        /\ Served(c) => Final([type |-> type, to |-> asked[c]], asked[c], call[c], done[c])
    BY <1>2 DEF ReplyWith
  <2>1. /\ outbox' \in [Client -> Seq(Msg)]
        /\ phase[c] = "gone" => outbox'[c] = outbox[c]
        /\ phase[c] # "gone" =>
             outbox'[c] = Append(outbox[c], [type |-> type, to |-> handled[c]])
    BY <2>0, WriteOf
  <2>2. ConnType'
    <3>1. <<>> \in Seq(Request \cup {Unknown})
      OBVIOUS
    <3>2. inbox' \in [Client -> Seq(Request \cup {Unknown})]
      BY <1>0, <2>0, <3>1 DEF ConnType
    <3> QED BY <1>0, <1>1, <2>0, <2>1, <3>2 DEF ConnType, Doing
  <2>3. handler'[c] = l /\ (inbox[c] = <<>> => inbox'[c] = <<>>)
    BY <1>0, <2>0 DEF ConnType
  <2>4. Served(c) /\ phase[c] # "gone" => Replied(c)' \/ Cut(c)'
    <3> SUFFICES ASSUME Served(c), phase[c] # "gone" PROVE Replied(c)' \/ Cut(c)'
      OBVIOUS
    <3>1. Events(outbox[c], asked[c]) /\ handled[c] = asked[c] /\ inbox[c] = <<>>
      BY DEF Served
    <3>2. outbox[c] \in Seq(Msg) /\ [type |-> type, to |-> asked[c]] \in Msg /\ asked[c] \in Nat
      BY <1>0 DEF ConnType, Msg
    <3>3. AnswerTo(Append(outbox[c], [type |-> type, to |-> asked[c]]),
                   asked[c], call[c], done[c])
      BY <2>0, <3>1, <3>2, AppendOf
    <3>4. Answered(c)'
      BY <1>1, <2>1, <3>1, <3>3 DEF Answered
    <3> QED BY <1>1, <2>3, <3>1, <3>4 DEF Replied, Cut
  <2>5. ConnOk(c)'
    BY <1>0, <1>1, <2>0, <2>1, <2>3, <2>4 DEF ConnOk, ConnType, Queued, Replied, Cut
  <2> QED BY <2>2, <2>5
<1>3. CASE handler[c] = "ok" /\ Write(c, Replies[running[c]]) /\ Thread(c, "reading")
           /\ UNCHANGED inbox
  <2>1. CASE running[c] \in Request
    <3>1. PICK type \in Payload : type = Replies[running[c]]
      BY <2>1, TablesAgree
    <3>2. Served(c) => Final([type |-> type, to |-> asked[c]], asked[c], call[c], done[c])
      BY <1>3, <2>1, <3>1, TablesAgree DEF Served, Final
    <3>3. ReplyWith(c, type, "reading")
      BY <1>3, <3>1, <3>2 DEF ReplyWith, Thread
    <3> QED BY <1>2, <3>3
  <2>2. CASE running[c] \notin Request
    <3>1. phase[c] = "gone" /\ outbox[c] = <<>>
      BY <1>0, <1>3, <2>2 DEF ConnOk, ConnType, Queued, Served, Replied, Cut
    <3>2. outbox' = outbox /\ handler' = [handler EXCEPT ![c] = "reading"]
      BY <1>0, <1>3, <3>1 DEF Write, Thread, ConnType
    <3>3. ConnType'
      BY <1>0, <1>1, <1>3, <3>2 DEF ConnType, Doing
    <3>4. ConnOk(c)'
      BY <1>0, <1>1, <3>1, <3>2 DEF ConnOk
    <3> QED BY <3>3, <3>4
  <2> QED BY <2>1, <2>2
<1>4. ASSUME handler[c] \in {"err", "malformed"} PROVE
        Served(c) => Final([type |-> "err", to |-> asked[c]], asked[c], call[c], done[c])
  BY DEF Final, Unknown
<1>5. CASE handler[c] = "err" /\ Write(c, "err") /\ Thread(c, "reading") /\ UNCHANGED inbox
  <2>1. ReplyWith(c, "err", "reading")
    BY <1>4, <1>5 DEF ReplyWith, Thread
  <2> QED BY <1>2, <2>1
<1>6. CASE handler[c] = "malformed" /\ Write(c, "err") /\ Thread(c, "gone")
           /\ inbox' = [inbox EXCEPT ![c] = <<>>]
  <2>1. ReplyWith(c, "err", "gone")
    BY <1>4, <1>6 DEF ReplyWith, Thread
  <2> QED BY <1>2, <2>1
<1> QED BY <1>3, <1>5, <1>6 DEF Reply

\* One step of a connection's thread.
LEMMA HandlerStepOk ==
    ASSUME ConnInv, "newer_daemon" \notin Faults, NEW c \in Client, HandlerStep(c)
    PROVE  ConnInv'
<1>1. ConnType' /\ ConnOk(c)'
  BY ThreadEndsOk, ReadRequestOk, TakeLockOk, EmitOk, FinishOk, ReplyOk DEF HandlerStep
<1>2. \A o \in Client : o # c => ConnOk(o)'
  BY HandlerOthers
<1> QED BY <1>1, <1>2 DEF ConnInv

\* A connection and its call stay in step (protocol.rs:7-11) for any number of
\* daemons, clients and requests, whatever panics, dies or is disconnected, as
\* long as the client can parse what its daemon writes.
THEOREM ConnInvariant ==
    ASSUME "newer_daemon" \notin Faults PROVE Spec => []ConnInv
<1>1. Init => ConnInv
  <2> SUFFICES ASSUME Init PROVE ConnInv
    OBVIOUS
  <2>1. <<>> \in Seq(Request \cup {Unknown}) /\ <<>> \in Seq(Msg)
    OBVIOUS
  <2>2. ConnType
    BY <2>1 DEF Init, ConnType, Doing
  <2>3. \A c \in Client : ConnOk(c)
    BY DEF Init, ConnOk
  <2> QED BY <2>2, <2>3 DEF ConnInv
<1>2. ConnInv /\ [Next]_vars => ConnInv'
  <2> SUFFICES ASSUME ConnInv, [Next]_vars PROVE ConnInv'
    OBVIOUS
  <2>1. ASSUME NEW d \in Daemon, SocketStep(d) PROVE ConnInv'
    BY <2>1, SocketStepOk
  <2>2. ASSUME NEW c \in Client, ClientStep(c) PROVE ConnInv'
    <3>1. CASE Ask(c)
      <4>1. PICK op \in Request \cup {Unknown} : Send(c, op)
        BY <3>1, RequestAssumption DEF Ask
      <4> QED BY <4>1, SendOk
    <3> QED BY <2>2, <3>1, ReceiveOk, ClientOk DEF ClientStep
  <2>3. ASSUME NEW c \in Client, HandlerStep(c) PROVE ConnInv'
    BY <2>3, HandlerStepOk
  <2>4. CASE UNCHANGED vars
    <3>1. UNCHANGED <<phase, asked, call, answer, handler, running, handled, inbox, outbox, done>>
      BY <2>4 DEF vars
    <3>2. \A c \in Client : ConnOk(c)'
      BY <3>1, Untouched DEF ConnInv
    <3> QED BY <3>1, <3>2 DEF ConnInv, ConnType
  <2> QED BY <2>1, <2>2, <2>3, <2>4 DEF Next
<1> QED BY <1>1, <1>2, PTL DEF Spec

\* Property AnswersInStep (protocol.rs:7-11): whatever is in the socket belongs
\* to the call in progress, and ends with its one final message.
THEOREM AnswersStayInStep ==
    ASSUME "newer_daemon" \notin Faults PROVE Spec => []AnswersInStep
<1>1. ConnInv => AnswersInStep
  BY ConnInvImplies
<1> QED BY <1>1, ConnInvariant, PTL

\* Property OkMeansDone (client.rs:94-121, server.rs:302-308): a call that
\* returned success was carried out, and no answer is another call's.
THEOREM OkIsDone ==
    ASSUME "newer_daemon" \notin Faults PROVE Spec => []OkMeansDone
<1>1. ConnInv => OkMeansDone
  BY ConnInvImplies
<1> QED BY <1>1, ConnInvariant, PTL
=============================================================================
