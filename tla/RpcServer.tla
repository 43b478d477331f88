------------------------------- MODULE RpcServer -------------------------------
(***************************************************************************)
(* The RPC server (rpc/server.rs): a thread with a current-thread tokio    *)
(* runtime that accepts clients and gives each a task, commands that run   *)
(* as blocking tasks beside it, and the runtime's shutdown, which a client *)
(* may ask for and which stops the server and joins its thread.  A         *)
(* connection is used once: a client that comes back is another one.  The  *)
(* bytes of a frame are left out; what a request asks is one of Requests.  *)
(***************************************************************************)
EXTENDS Naturals, FiniteSets

CONSTANTS
  Clients,     \* connections
  MaxClients   \* config.max_clients

ASSUME ServerAssumption == IsFiniteSet(Clients) /\ MaxClients \in Nat \ {0}

Requests == {"command", "shutdown", "otherVersion", "malformed"}

VARIABLES
  transport,   \* config.transport
  server,      \* run_server and its thread
  handle,      \* RpcServerHandle in the hands of the runtime
  asked,       \* the watch channel holds true
  permits,     \* of the semaphore
  client,      \* what each client sees
  request,     \* the request each client has sent and got no answer for
  task,        \* its serve_connection
  job,         \* the blocking task of its command
  reply,       \* the outcome its task is about to write
  workers      \* a thread handle_rpc_post_action spawned is to call shutdown()

serverVars == <<transport, server, handle, asked, permits, client, request, task, job,
                reply, workers>>

Serving == {c \in Clients : task[c] \in {"reading", "handling", "writing"}}

\* serve_connection returns: the stream and the permit are dropped.
Return(c) ==
  /\ task' = [task EXCEPT ![c] = "done"]
  /\ client' = [client EXCEPT ![c] = "closed"]
  /\ request' = [request EXCEPT ![c] = "none"]
  /\ reply' = [reply EXCEPT ![c] = "none"]
  /\ permits' = permits + 1

ServeInit ==
  /\ transport \in {"tcp", "namedPipe"}
  /\ server = "starting" /\ handle = "none" /\ asked = FALSE
  /\ permits = MaxClients
  /\ client = [c \in Clients |-> "new"]
  /\ request = [c \in Clients |-> "none"]
  /\ task = [c \in Clients |-> "none"]
  /\ job = [c \in Clients |-> "none"]
  /\ reply = [c \in Clients |-> "none"]
  /\ workers = FALSE

(***************************************************************************)
(* The clients (rpc/client.rs): a call writes a request and waits.         *)
(***************************************************************************)

\* A pipe has one instance at a time that waits for a client.
Connect(c) ==
  /\ client[c] = "new" /\ server \in {"listening", "draining"}
  /\ transport = "namedPipe" => \A d \in Clients : client[d] # "queued"
  /\ client' = [client EXCEPT ![c] = "queued"]
  /\ UNCHANGED <<transport, server, handle, asked, permits, request, task, job, reply, workers>>

Call(c) ==
  /\ client[c] = "open"
  /\ client' = [client EXCEPT ![c] = "waiting"]
  /\ \E r \in Requests : request' = [request EXCEPT ![c] = r]
  /\ UNCHANGED <<transport, server, handle, asked, permits, task, job, reply, workers>>

\* A client may go at any time, its call unanswered; what it has sent may still be read.
Leave(c) ==
  /\ client[c] \in {"queued", "open", "waiting"}
  /\ client' = [client EXCEPT ![c] = IF client[c] = "queued" THEN "closed" ELSE "left"]
  /\ UNCHANGED <<transport, server, handle, asked, permits, request, task, job, reply, workers>>

(***************************************************************************)
(* start_server, run_tcp, run_named_pipe                                   *)
(***************************************************************************)

Bind ==
  /\ server = "starting"
  /\ server' = "listening" /\ handle' = "held"
  /\ UNCHANGED <<transport, asked, permits, client, request, task, job, reply, workers>>

\* No runtime, an address in use, not a loopback one: start_server fails.
BindFails ==
  /\ server = "starting"
  /\ server' = "ended"
  /\ UNCHANGED <<transport, handle, asked, permits, client, request, task, job, reply, workers>>

\* The next pipe instance is made before the client is served or refused; the
\* operating system allows max_clients of them, the connected ones included.
NoInstance == transport = "namedPipe" /\ Cardinality(Serving) + 1 >= MaxClients

Admit(c) ==
  /\ server = "listening" /\ client[c] = "queued"
  /\ ~NoInstance /\ permits > 0
  /\ permits' = permits - 1
  /\ client' = [client EXCEPT ![c] = "open"]
  /\ task' = [task EXCEPT ![c] = "reading"]
  /\ UNCHANGED <<transport, server, handle, asked, request, job, reply, workers>>

Refuse(c) ==
  /\ server = "listening" /\ client[c] = "queued"
  /\ ~NoInstance /\ permits = 0
  /\ client' = [client EXCEPT ![c] = "closed"]
  /\ UNCHANGED <<transport, server, handle, asked, permits, request, task, job, reply, workers>>

\* run_tcp or run_named_pipe returns an error: the JoinSet goes out of scope and
\* aborts every connection where it waits.
Abort ==
  /\ server' = "aborted"
  /\ client' = [c \in Clients |-> IF client[c] = "new" THEN "new" ELSE "closed"]
  /\ request' = [c \in Clients |-> "none"]
  /\ task' = [c \in Clients |-> IF task[c] = "none" THEN "none" ELSE "done"]
  /\ reply' = [c \in Clients |-> "none"]
  /\ permits' = permits + Cardinality(Serving)
  /\ UNCHANGED <<transport, handle, asked, job, workers>>

InstanceFails(c) ==
  /\ server = "listening" /\ client[c] = "queued" /\ NoInstance
  /\ Abort

\* accept(), set_nodelay() or connect() reports an error, such as a client that
\* went before it was accepted.
AcceptFails == server = "listening" /\ Abort

ServerSeesShutdown ==
  /\ server = "listening" /\ asked
  /\ server' = "draining"
  /\ UNCHANGED <<transport, handle, asked, permits, client, request, task, job, reply, workers>>

\* shutdown_connections has joined every task; the listener goes with its queue.
Drained ==
  /\ server = "draining" /\ Serving = {}
  /\ server' = "returned"
  /\ client' = [c \in Clients |-> IF client[c] = "queued" THEN "closed" ELSE client[c]]
  /\ UNCHANGED <<transport, handle, asked, permits, request, task, job, reply, workers>>

\* Fault: the thread does not wait for the commands that run.
ThreadEndsAtOnce ==
  /\ server \in {"returned", "aborted"}
  /\ server' = "ended"
  /\ job' = [c \in Clients |-> IF job[c] = "queued" THEN "none" ELSE job[c]]
  /\ UNCHANGED <<transport, handle, asked, permits, client, request, task, reply, workers>>

\* Dropping the tokio runtime drops the blocking tasks that have not begun and
\* waits for the others.
ThreadEnds ==
  /\ server \in {"returned", "aborted"}
  /\ \A c \in Clients : job[c] # "running"
  /\ server' = "ended"
  /\ job' = [c \in Clients |-> "none"]
  /\ UNCHANGED <<transport, handle, asked, permits, client, request, task, reply, workers>>

(***************************************************************************)
(* serve_connection, handle_request                                        *)
(***************************************************************************)

\* Fault: a request of another protocol version is not answered.
ReadIgnores(c) ==
  /\ task[c] = "reading" /\ request[c] # "none"
  /\ IF request[c] = "malformed"
       THEN Return(c) /\ UNCHANGED job
       ELSE /\ request[c] # "otherVersion"
            /\ task' = [task EXCEPT ![c] = "handling"]
            /\ job' = [job EXCEPT ![c] = "queued"]
            /\ UNCHANGED <<client, permits, request, reply>>
  /\ UNCHANGED <<transport, server, handle, asked, workers>>

\* A request of another protocol version is answered without being executed.  A
\* client that left after its request is answered like one that waits.
Read(c) ==
  /\ task[c] = "reading" /\ request[c] # "none"
  /\ IF request[c] = "malformed"
       THEN Return(c) /\ UNCHANGED job
       ELSE /\ IF request[c] = "otherVersion"
                 THEN /\ task' = [task EXCEPT ![c] = "writing"]
                      /\ reply' = [reply EXCEPT ![c] = "plain"]
                      /\ UNCHANGED job
                 ELSE /\ task' = [task EXCEPT ![c] = "handling"]
                      /\ job' = [job EXCEPT ![c] = "queued"]
                      /\ UNCHANGED reply
            /\ UNCHANGED <<client, permits, request>>
  /\ UNCHANGED <<transport, server, handle, asked, workers>>

\* The end of the stream; a connection that is reset loses the request it carried.
SeesEnd(c) ==
  /\ task[c] = "reading" /\ client[c] = "left"
  /\ Return(c)
  /\ UNCHANGED <<transport, server, handle, asked, job, workers>>

\* Fault: a connection ends with its client only.
SeesShutdownNever(c) ==
  /\ task[c] = "reading" /\ asked /\ client[c] = "left"
  /\ Return(c)
  /\ UNCHANGED <<transport, server, handle, asked, job, workers>>

SeesShutdown(c) ==
  /\ task[c] = "reading" /\ asked
  /\ Return(c)
  /\ UNCHANGED <<transport, server, handle, asked, job, workers>>

BeginWork(c) ==
  /\ job[c] = "queued" /\ server # "ended"
  /\ job' = [job EXCEPT ![c] = "running"]
  /\ UNCHANGED <<transport, server, handle, asked, permits, client, request, task, reply, workers>>

\* CommandExecutor::execute returns a result, an error or a panic, or accepts a
\* shutdown with a post action; nobody takes the outcome of an aborted task.
Execute(c) ==
  /\ job[c] = "running"
  /\ job' = [job EXCEPT ![c] = "none"]
  /\ IF task[c] = "handling"
       THEN /\ task' = [task EXCEPT ![c] = "writing"]
            /\ \E r \in {"plain"} \cup (IF request[c] = "shutdown" THEN {"postAction"} ELSE {}) :
                 reply' = [reply EXCEPT ![c] = r]
       ELSE UNCHANGED <<task, reply>>
  /\ UNCHANGED <<transport, server, handle, asked, permits, client, request, workers>>

\* The answer is out, which a client that left does not always prevent; then the
\* post action is performed, without a wait between: a thread, unless none can be
\* spawned, that calls shutdown().
Write(c) ==
  /\ task[c] = "writing"
  /\ client' = [client EXCEPT ![c] = IF @ = "waiting" THEN "open" ELSE @]
  /\ task' = [task EXCEPT ![c] = "reading"]
  /\ request' = [request EXCEPT ![c] = "none"]
  /\ reply' = [reply EXCEPT ![c] = "none"]
  /\ workers' \in {workers, workers \/ reply[c] = "postAction"}
  /\ UNCHANGED <<transport, server, handle, asked, permits, job>>

\* The client is gone or the answer too large: a post action is dropped.
WriteFails(c) ==
  /\ task[c] = "writing"
  /\ Return(c)
  /\ UNCHANGED <<transport, server, handle, asked, job, workers>>

(***************************************************************************)
(* runtime::shutdown() takes the handle once and calls stop(): the watch   *)
(* is set, the thread joined.                                              *)
(***************************************************************************)

Stop ==
  /\ handle = "held"
  /\ handle' = "joining" /\ asked' = TRUE
  /\ UNCHANGED <<transport, server, permits, client, request, task, job, reply>>

\* Somebody else in the process calls shutdown().
HostStops == Stop /\ UNCHANGED workers

WorkerStops == workers /\ Stop /\ workers' = FALSE

\* shutdown() fails before it takes the handle, or finds it taken.
WorkerReturns ==
  /\ workers
  /\ workers' = FALSE
  /\ UNCHANGED <<transport, server, handle, asked, permits, client, request, task, job, reply>>

Joined ==
  /\ handle = "joining" /\ server = "ended"
  /\ handle' = "stopped"
  /\ UNCHANGED <<transport, server, asked, permits, client, request, task, job, reply, workers>>

-----------------------------------------------------------------------------

Reactor ==
  \/ \E c \in Clients : Admit(c) \/ Refuse(c) \/ InstanceFails(c)
  \/ ServerSeesShutdown \/ Drained \/ ThreadEnds

Connection(c) == Read(c) \/ SeesEnd(c) \/ Write(c) \/ WriteFails(c)

Blocking(c) == BeginWork(c) \/ Execute(c)

ServeNext ==
  \/ Bind \/ BindFails \/ AcceptFails \/ Reactor
  \/ HostStops \/ WorkerStops \/ WorkerReturns \/ Joined
  \/ \E c \in Clients :
       Connect(c) \/ Call(c) \/ Leave(c) \/ Connection(c) \/ SeesShutdown(c) \/ Blocking(c)

\* The reactor polls what is ready, and its select! picks at random among the
\* branches that are; a command ends; a client that waits reads or leaves.
ServeFairness ==
  /\ WF_serverVars(Bind) /\ WF_serverVars(Reactor) /\ WF_serverVars(ServerSeesShutdown)
  /\ \A c \in Clients :
       WF_serverVars(Connection(c)) /\ SF_serverVars(SeesShutdown(c)) /\ WF_serverVars(Blocking(c))
  /\ WF_serverVars(Joined)

ServeSpec == ServeInit /\ [][ServeNext]_serverVars /\ ServeFairness

-----------------------------------------------------------------------------
(* Properties *)

\* When stop() has returned, nothing of the server is left that could send a
\* command to the executor, which the runtime shuts down next.
Quiet ==
  handle = "stopped" =>
    \A c \in Clients : job[c] = "none" /\ c \notin Serving /\ client[c] \notin {"open", "waiting"}

\* stop() returns, whatever commands run and whatever the clients go on asking,
\* the one that asked for the shutdown and is still connected included.
StopReturns == handle = "joining" ~> handle = "stopped"

\* A client that connects or calls is served, answered or let go.
ClientsAnswered == \A c \in Clients : client[c] \in {"queued", "waiting"} ~> client[c] \notin {"queued", "waiting"}

=============================================================================
