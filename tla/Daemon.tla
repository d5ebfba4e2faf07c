------------------------------- MODULE Daemon -------------------------------
(***************************************************************************)
(* mitos-pkgd: daemon::server, the clients of daemon::client, and the      *)
(* protocol between them.  A daemon claims the socket path, serves every   *)
(* connection in a thread of its own under one RwLock<PackageService>, and *)
(* goes when it is signalled or killed; others may be started on the same  *)
(* path meanwhile.  One member of Client is one connection; a client that  *)
(* reconnects is another member.                                           *)
(*                                                                         *)
(* What an operation does to packages is the other modules' subject: here  *)
(* it streams up to MaxProgress events and succeeds or fails.              *)
(***************************************************************************)
EXTENDS Naturals, Sequences

CONSTANTS
    Daemon,       \* mitos-pkgd processes that may be started
    Client,       \* connections
    Used,         \* the requests clients make
    MaxRequests,  \* requests made over one connection (bound)
    MaxProgress,  \* progress events of one operation (bound)
    Capacity,     \* messages that fit into the socket's buffer
    Stalling,     \* connections whose client may stop reading
    Supervised,   \* a daemon is started only while no other is starting
    Faults,       \* see FaultKinds
    None, Stale   \* no file at the path; a socket nobody listens on

\* A panic under the write lock; SIGTERM; any other death; a connection that
\* its client drops; a daemon newer than the client, whose progress events
\* the client cannot parse, or a request the daemon cannot.
FaultKinds == {"panic", "signal", "kill", "disconnect", "newer_daemon", "newer_client"}

(***************************************************************************)
(* daemon::protocol.  What dispatch answers to each request, and what the  *)
(* method of DaemonClient that makes the request takes for an answer.      *)
(***************************************************************************)
Replies ==
    [ping    |-> "pong",      install |-> "installed", install_local |-> "installed",
     remove  |-> "removed",   upgrade |-> "upgraded",  hold    |-> "unit",
     unhold  |-> "unit",      autoremove |-> "removed", update |-> "unit",
     clean   |-> "freed",     list    |-> "listed",    search  |-> "searched",
     info    |-> "info",      verify  |-> "verified",  history |-> "history"]
Request == DOMAIN Replies

OfCommands ==
    [install |-> "installed", install_local |-> "installed", remove |-> "removed",
     upgrade |-> "upgraded",  hold |-> "unit", unhold |-> "unit",
     autoremove |-> "removed", update |-> "unit"]
OfQueries ==
    [ping |-> "pong", clean |-> "freed", list |-> "listed", search |-> "searched",
     info |-> "info", verify |-> "verified", history |-> "history"]
Expects(op) == IF op \in DOMAIN OfCommands THEN OfCommands[op] ELSE OfQueries[op]

\* Requests that dispatch runs under the write lock, and those of them whose
\* operation reports progress.
Mutating  == DOMAIN OfCommands
Streaming == Mutating \ {"hold", "unhold"}

Unknown == "unknown"     \* a line the other side's serde cannot parse

ASSUME DaemonAssumption == None \notin Daemon /\ Stale \notin Daemon /\ None # Stale
ASSUME RequestAssumption ==
    Used \subseteq Request /\ Stalling \subseteq Client /\ Supervised \in BOOLEAN
ASSUME BoundAssumption == MaxRequests \in Nat /\ MaxProgress \in Nat /\ Capacity \in Nat \ {0}
ASSUME FaultAssumption ==
    Faults \subseteq FaultKinds /\ ~({"newer_daemon", "newer_client"} \subseteq Faults)

VARIABLES
    path,      \* the socket file: the daemon that listens on it, Stale or None
    state,     \* [Daemon -> what the daemon is doing]
    poisoned,  \* daemons whose RwLock a panic has poisoned
    phase,     \* [Client -> what the client's end of the connection is doing]
    asked,     \* [Client -> requests made]
    call,      \* [Client -> the last of them]
    answer,    \* [Client -> what that call returned]
    server,    \* [Client -> the daemon it connected to]
    handler,   \* [Client -> what handle_connection is doing]
    running,   \* [Client -> the request it has read]
    handled,   \* [Client -> requests it has read]
    inbox,     \* [Client -> requests sent and not read]
    outbox,    \* [Client -> messages written and not received]
    left,      \* [Client -> progress events its operation has still to report]
    done       \* history: [Client -> the requests that were carried out]

socket == <<path, state>>
client == <<phase, asked, call, answer, server>>
thread == <<handler, running, handled, left>>
vars   == <<path, state, poisoned, phase, asked, call, answer, server,
            handler, running, handled, left, inbox, outbox, done>>

Starting  == {"probe", "unlink", "bind", "chmod"}
Accepting == {"serving", "signalled", "leaving"}
Doing     == {"gone", "backlog", "reading", "waiting", "working", "ok", "err", "malformed"}
Payload   == {Replies[op] : op \in Request}      \* the kinds of Message::Ok
Message   == [type : {"progress", "err", Unknown} \cup Payload, to : 1..MaxRequests]

TypeOK ==
    /\ path \in Daemon \cup {None, Stale}
    /\ state \in [Daemon -> {"off"} \cup Starting \cup Accepting]
    /\ poisoned \subseteq {d \in Daemon : state[d] \in Accepting}
    /\ phase \in [Client -> {"new", "ready", "calling", "gone"}]
    /\ asked \in [Client -> 0..MaxRequests] /\ handled \in [Client -> 0..MaxRequests]
    /\ call \in [Client -> Used \cup {Unknown, None}]
    /\ answer \in [Client -> {"none", "ok", "daemon", "io", "unexpected"}]
    /\ server \in [Client -> Daemon \cup {None}]
    /\ handler \in [Client -> Doing]
    /\ running \in [Client -> Used \cup {Unknown, None}]
    /\ left \in [Client -> 0..MaxProgress]
    /\ \A c \in Client :
        /\ Len(inbox[c]) <= MaxRequests
        /\ Len(outbox[c]) <= Capacity /\ \A i \in 1..Len(outbox[c]) : outbox[c][i] \in Message
        /\ done[c] \subseteq 1..handled[c]
        /\ handler[c] # "gone" => /\ server[c] \in Daemon
                                  /\ state[server[c]] \in Accepting \cup {"chmod"}

Init ==
    /\ path \in {None, Stale} /\ state = [d \in Daemon |-> "off"] /\ poisoned = {}
    /\ phase = [c \in Client |-> "new"] /\ asked = [c \in Client |-> 0]
    /\ call = [c \in Client |-> None] /\ answer = [c \in Client |-> "none"]
    /\ server = [c \in Client |-> None]
    /\ handler = [c \in Client |-> "gone"] /\ running = [c \in Client |-> None]
    /\ handled = [c \in Client |-> 0] /\ left = [c \in Client |-> 0]
    /\ inbox = [c \in Client |-> <<>>] /\ outbox = [c \in Client |-> <<>>]
    /\ done = [c \in Client |-> {}]

(***************************************************************************)
(* The socket: bind_socket, watch_for_shutdown.  None of it touches a      *)
(* connection, except that a process that ends closes all of its own.      *)
(***************************************************************************)
Become(d, s) == state' = [state EXCEPT ![d] = s]
KeepConnections == UNCHANGED <<client, thread, inbox, outbox, done, poisoned>>

\* mitos-pkgd is run: PackageService::open, then server::run.
Start(d) ==
    /\ state[d] = "off"
    /\ Supervised => \A o \in Daemon : state[o] \notin Starting
    /\ Become(d, "probe") /\ UNCHANGED path /\ KeepConnections

\* mutant of Probe: a socket file that exists is taken for a leftover.
ProbeBlind(d) ==
    /\ state[d] = "probe" /\ Become(d, IF path = None THEN "bind" ELSE "unlink")
    /\ UNCHANGED path /\ KeepConnections

\* Does anybody answer on the socket file, if there is one?
Probe(d) ==
    /\ state[d] = "probe"
    /\ Become(d, CASE path = None -> "bind" [] path = Stale -> "unlink" [] OTHER -> "off")
    /\ UNCHANGED path /\ KeepConnections

\* Nothing answered when it was asked; whatever is there now is deleted.
Unlink(d) ==
    /\ state[d] = "unlink" /\ path' = None /\ Become(d, "bind") /\ KeepConnections

\* bind fails with AddrInUse if another daemon has made the file meanwhile.
Bind(d) ==
    /\ state[d] = "bind"
    /\ IF path = None THEN path' = d /\ Become(d, "chmod")
                      ELSE UNCHANGED path /\ Become(d, "off")
    /\ KeepConnections

\* A process that ends: its connections are closed, requests not read yet are
\* lost, and its socket file, if it is still at the path, answers no more.
CloseAll(d) ==
    LET lost == {c \in Client : server[c] = d /\ handler[c] # "gone"} IN
    /\ handler' = [c \in Client |-> IF c \in lost THEN "gone" ELSE handler[c]]
    /\ inbox' = [c \in Client |-> IF c \in lost THEN <<>> ELSE inbox[c]]
    /\ running' = [c \in Client |-> IF c \in lost THEN None ELSE running[c]]
    /\ poisoned' = poisoned \ {d}
    /\ left' = [c \in Client |-> IF c \in lost THEN 0 ELSE left[c]]
    /\ UNCHANGED <<client, handled, outbox, done>>
End(d) ==
    /\ Become(d, "off") /\ CloseAll(d)
    /\ path' = IF path = d THEN Stale ELSE path

\* set_permissions fails if somebody has deleted the file.
Chmod(d) ==
    /\ state[d] = "chmod"
    /\ \/ path # None /\ Become(d, "serving") /\ UNCHANGED path /\ KeepConnections
       \/ path = None /\ End(d)

\* The handler of SIGTERM sets a flag; a thread sees it within 200 ms, deletes
\* the socket file, and ends the process: running requests are cut short.
Signal(d) ==
    /\ "signal" \in Faults /\ state[d] = "serving" /\ Become(d, "signalled")
    /\ UNCHANGED path /\ KeepConnections
RemoveSocket(d) ==
    /\ state[d] = "signalled" /\ path' = None /\ Become(d, "leaving") /\ KeepConnections
Exit(d) == state[d] = "leaving" /\ End(d)
Kill(d) == "kill" \in Faults /\ state[d] # "off" /\ End(d)

(***************************************************************************)
(* A client: DaemonClient::connect, call, and the end of the connection.   *)
(***************************************************************************)
KeepSocket == UNCHANGED <<path, state>>

\* The listener queues a connection even before the daemon accepts any.
Connect(c) ==
    /\ phase[c] = "new" /\ path \in Daemon
    /\ phase' = [phase EXCEPT ![c] = "ready"]
    /\ server' = [server EXCEPT ![c] = path]
    /\ handler' = [handler EXCEPT ![c] = "backlog"]
    /\ UNCHANGED <<poisoned, asked, call, answer, running, handled, left, inbox, outbox, done>>
    /\ KeepSocket

\* write_json_line of the request; it fails if the other end is closed.
Send(c, op) ==
    /\ phase[c] = "ready" /\ asked[c] < MaxRequests
    /\ asked' = [asked EXCEPT ![c] = @ + 1] /\ call' = [call EXCEPT ![c] = op]
    /\ IF handler[c] = "gone"
       THEN /\ answer' = [answer EXCEPT ![c] = "io"]
            /\ phase' = [phase EXCEPT ![c] = "gone"] /\ UNCHANGED inbox
       ELSE /\ answer' = [answer EXCEPT ![c] = "none"]
            /\ phase' = [phase EXCEPT ![c] = "calling"]
            /\ inbox' = [inbox EXCEPT ![c] = Append(@, op)]
    /\ UNCHANGED <<poisoned, server, thread, outbox, done>> /\ KeepSocket
Ask(c) ==
    \/ \E op \in Used : Send(c, op)
    \/ "newer_client" \in Faults /\ Send(c, Unknown)

\* What the caller gets for a message that ends the call.  After a line it
\* cannot parse the client returns, and keeps the connection.
Returned(c, m) ==
    CASE m.type = "err"   -> "daemon"
      [] m.type = Unknown -> "io"
      [] OTHER -> IF m.type = Expects(call[c]) THEN "ok" ELSE "unexpected"

Receive(c) ==
    /\ phase[c] = "calling" /\ outbox[c] # <<>>
    /\ outbox' = [outbox EXCEPT ![c] = Tail(@)]
    /\ LET m == Head(outbox[c]) IN
       \/ m.type = "progress" /\ UNCHANGED <<answer, phase>>
       \/ /\ m.type # "progress"
          /\ answer' = [answer EXCEPT ![c] = Returned(c, m)]
          /\ phase' = [phase EXCEPT ![c] = "ready"]
    /\ UNCHANGED <<poisoned, asked, call, server, thread, inbox, done>> /\ KeepSocket

\* "mitos-pkgd closed the connection before replying"
ReceiveEof(c) ==
    /\ phase[c] = "calling" /\ outbox[c] = <<>> /\ handler[c] = "gone"
    /\ answer' = [answer EXCEPT ![c] = "io"] /\ phase' = [phase EXCEPT ![c] = "gone"]
    /\ UNCHANGED <<poisoned, asked, call, server, thread, inbox, outbox, done>> /\ KeepSocket

\* The client drops the connection, or dies, whatever it was waiting for.
Disconnect(c) ==
    /\ "disconnect" \in Faults /\ phase[c] \in {"ready", "calling"}
    /\ phase' = [phase EXCEPT ![c] = "gone"] /\ outbox' = [outbox EXCEPT ![c] = <<>>]
    /\ call' = [call EXCEPT ![c] = None] /\ answer' = [answer EXCEPT ![c] = "none"]
    /\ UNCHANGED <<poisoned, asked, server, thread, inbox, done>> /\ KeepSocket

(***************************************************************************)
(* The thread of one connection: handle_connection, dispatch.              *)
(***************************************************************************)
Thread(c, does) == handler' = [handler EXCEPT ![c] = does]
KeepClient == UNCHANGED client /\ KeepSocket

Accept(c) ==
    /\ handler[c] = "backlog" /\ state[server[c]] \in Accepting
    /\ Thread(c, "reading")
    /\ UNCHANGED <<poisoned, running, handled, left, inbox, outbox, done>> /\ KeepClient

ReadRequest(c) ==
    /\ handler[c] = "reading" /\ inbox[c] # <<>>
    /\ inbox' = [inbox EXCEPT ![c] = Tail(@)]
    /\ running' = [running EXCEPT ![c] = Head(inbox[c])]
    /\ handled' = [handled EXCEPT ![c] = @ + 1]
    /\ LET op == Head(inbox[c]) IN
       /\ Thread(c, CASE op = Unknown -> "malformed" [] op = "ping" -> "ok"
                      [] OTHER -> "waiting")
       /\ done' = [done EXCEPT ![c] = IF op = "ping" THEN @ \cup {handled'[c]} ELSE @]
    /\ UNCHANGED <<poisoned, left, outbox>> /\ KeepClient

\* mutant of ReadEof: the empty line of an end of file is skipped as blank.
ReadEofBlank(c) ==
    /\ handler[c] = "reading" /\ inbox[c] = <<>> /\ phase[c] = "gone" /\ UNCHANGED vars
ReadEof(c) ==
    /\ handler[c] = "reading" /\ inbox[c] = <<>> /\ phase[c] = "gone" /\ Thread(c, "gone")
    /\ UNCHANGED <<poisoned, running, handled, left, inbox, outbox, done>> /\ KeepClient

\* The RwLock: one operation under the write lock, or any number of queries.
Holders(d) == {c \in Client : server[c] = d /\ handler[c] = "working"}
LockFree(c) ==
    \A o \in Holders(server[c]) : running[c] \notin Mutating /\ running[o] \notin Mutating
Reports(op) == IF op \in Streaming THEN 0..MaxProgress ELSE {0}

\* mutant of TakeLock: a poisoned lock is answered instead of ending the thread.
TakeLockLenient(c) ==
    /\ handler[c] = "waiting" /\ LockFree(c)
    /\ Thread(c, IF server[c] \in poisoned THEN "ok" ELSE "working")
    /\ \E n \in Reports(running[c]) : left' = [left EXCEPT ![c] = n]
    /\ UNCHANGED <<poisoned, running, handled, inbox, outbox, done>> /\ KeepClient

\* expect("package service lock poisoned") ends the thread.
TakeLock(c) ==
    /\ handler[c] = "waiting" /\ LockFree(c)
    /\ \/ /\ server[c] \in poisoned /\ Thread(c, "gone")
          /\ inbox' = [inbox EXCEPT ![c] = <<>>] /\ UNCHANGED left
       \/ /\ server[c] \notin poisoned /\ Thread(c, "working") /\ UNCHANGED inbox
          /\ \E n \in Reports(running[c]) : left' = [left EXCEPT ![c] = n]
    /\ UNCHANGED <<poisoned, running, handled, outbox, done>> /\ KeepClient

\* write_json_line: blocks while the buffer is full, and fails, unnoticed, when
\* the client has closed its end.
CanWrite(c) == phase[c] = "gone" \/ Len(outbox[c]) < Capacity
Write(c, type) ==
    outbox' = [outbox EXCEPT ![c] =
                 IF phase[c] = "gone" THEN @ ELSE Append(@, [type |-> type, to |-> handled[c]])]

\* emit_progress, called by the operation, so under the write lock.
Emit(c) ==
    /\ handler[c] = "working" /\ left[c] > 0 /\ CanWrite(c)
    /\ left' = [left EXCEPT ![c] = @ - 1]
    /\ \/ Write(c, "progress")
       \/ "newer_daemon" \in Faults /\ Write(c, Unknown)
    /\ UNCHANGED <<poisoned, handler, running, handled, inbox, done>> /\ KeepClient

\* The operation returns and the lock is released, before the final message.
Finish(c) ==
    /\ handler[c] = "working" /\ left[c] = 0
    /\ \/ Thread(c, "ok") /\ done' = [done EXCEPT ![c] = @ \cup {handled[c]}]
       \/ Thread(c, "err") /\ UNCHANGED done
    /\ UNCHANGED <<poisoned, running, handled, left, inbox, outbox>> /\ KeepClient

\* The operation panics.  A panic under the write lock poisons it.
Panic(c) ==
    /\ "panic" \in Faults /\ handler[c] = "working" /\ Thread(c, "gone")
    /\ poisoned' = IF running[c] \in Mutating THEN poisoned \cup {server[c]} ELSE poisoned
    /\ left' = [left EXCEPT ![c] = 0] /\ inbox' = [inbox EXCEPT ![c] = <<>>]
    /\ UNCHANGED <<running, handled, outbox, done>> /\ KeepClient

\* mutants of Reply: a failed operation ends without a message; or is answered
\* twice, its error followed by an empty success.
ReplySilent(c) ==
    /\ handler[c] \in {"ok", "err"} /\ CanWrite(c) /\ Thread(c, "reading")
    /\ IF handler[c] = "ok" THEN Write(c, Replies[running[c]]) ELSE UNCHANGED outbox
    /\ UNCHANGED <<poisoned, running, handled, left, inbox, done>> /\ KeepClient
ReplyTwice(c) ==
    /\ handler[c] \in {"ok", "err"} /\ CanWrite(c)
    /\ \/ handler[c] = "ok" /\ Write(c, Replies[running[c]]) /\ Thread(c, "reading")
       \/ handler[c] = "err" /\ Write(c, "err") /\ Thread(c, "ok")
    /\ UNCHANGED <<poisoned, running, handled, left, inbox, done>> /\ KeepClient

\* The final message.  A request that did not parse also ends the connection.
Reply(c) ==
    /\ CanWrite(c)
    /\ \/ handler[c] = "ok"  /\ Write(c, Replies[running[c]]) /\ Thread(c, "reading") /\ UNCHANGED inbox
       \/ handler[c] = "err" /\ Write(c, "err") /\ Thread(c, "reading") /\ UNCHANGED inbox
       \/ /\ handler[c] = "malformed" /\ Write(c, "err") /\ Thread(c, "gone")
          /\ inbox' = [inbox EXCEPT ![c] = <<>>]
    /\ UNCHANGED <<poisoned, running, handled, left, done>> /\ KeepClient

SocketStep(d) == Start(d) \/ Probe(d) \/ Unlink(d) \/ Bind(d) \/ Chmod(d)
                 \/ Signal(d) \/ RemoveSocket(d) \/ Exit(d) \/ Kill(d)
ClientStep(c) == Connect(c) \/ Ask(c) \/ Receive(c) \/ ReceiveEof(c) \/ Disconnect(c)
HandlerStep(c) == Accept(c) \/ ReadRequest(c) \/ ReadEof(c) \/ TakeLock(c) \/ Emit(c)
                  \/ Finish(c) \/ Panic(c) \/ Reply(c)
Next == (\E d \in Daemon : SocketStep(d)) \/ (\E c \in Client : ClientStep(c) \/ HandlerStep(c))

\* A thread that can run does, and so does a client that waits for an answer
\* unless it is one that may stall.  Nobody need connect, ask or leave.  Requests
\* are finite, so a lock that is asked for over and over is not starved.
Fairness ==
    /\ \A d \in Daemon : WF_vars(Chmod(d)) /\ WF_vars(RemoveSocket(d)) /\ WF_vars(Exit(d))
    /\ \A c \in Client : WF_vars(HandlerStep(c))
    /\ \A c \in Client \ Stalling : WF_vars(Receive(c) \/ ReceiveEof(c))

Spec == Init /\ [][Next]_vars
FairSpec == Spec /\ Fairness

(***************************************************************************)
(* Properties.                                                             *)
(***************************************************************************)

\* A daemon that serves can be reached until it removes its own socket file:
\* the file at the path is its own.  Others that start, stop, or remove their
\* file on the way out meanwhile do not take the path from it, so no two are
\* listening at once (server.rs:30-76, 115-124).  It needs Supervised.
SocketReachable == \A d \in Daemon : state[d] \in {"serving", "signalled"} => path = d

\* protocol.rs:7-11: any number of events, then exactly one final message, and
\* the connection is good for the next request.  Whatever is in the socket
\* belongs to the call in progress, its final message is the last thing there,
\* and between two calls nothing is left over.
AnswersInStep ==
    \A c \in Client :
      /\ phase[c] = "ready" => outbox[c] = <<>> /\ inbox[c] = <<>>
      /\ \A i \in 1..Len(outbox[c]) :
           /\ outbox[c][i].to = asked[c]
           /\ i < Len(outbox[c]) => outbox[c][i].type = "progress"

\* A call that returned success was carried out, by this daemon, while the
\* connection lasted: never one that a crash, a panic or a poisoned lock cut
\* short, and never an answer to something else (client.rs:94-113,
\* server.rs:302-308).
OkMeansDone ==
    \A c \in Client : /\ answer[c] # "unexpected"
                      /\ answer[c] = "ok" => asked[c] \in done[c]

\* Every call of a client that keeps reading returns, whatever happens to the
\* daemon, to its lock, and to the other clients (client.rs:94-113).
EveryCallReturns == \A c \in Client \ Stalling : phase[c] = "calling" ~> phase[c] # "calling"

\* A thread does not outlive its client: the daemon does not collect threads,
\* or locks, of connections that are gone (server.rs:158-186).
ThreadsEnd == \A c \in Client : phase[c] = "gone" ~> handler[c] = "gone"
=============================================================================
