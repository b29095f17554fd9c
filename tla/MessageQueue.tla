---------------------------- MODULE MessageQueue ----------------------------
(***************************************************************************)
(* src/1_ipc/msgq: server.c and client.c over POSIX message queues.  The   *)
(* server may be killed and started again, clients may be killed anywhere, *)
(* and a client may get the process id of one that has ended.              *)
(*                                                                         *)
(* A queue outlives its processes and loses its name by mq_unlink only;    *)
(* with its messages and its limit it stays usable to who has it open.     *)
(* Each life of the server has a queue of its own; queues of clients are   *)
(* told apart by the process id in their name and by how often the name    *)
(* has been created.  What is left in a queue that has lost its name and   *)
(* its last reader stays in the model, where nobody can reach it.          *)
(* Messages are reduced to whom they come from, replies to whom they are   *)
(* meant for.                                                              *)
(***************************************************************************)
EXTENDS Integers, Sequences, Functions

CONSTANTS
    Pids,           \* process ids of clients
    MSG_MAX_COUNT,  \* messages a queue holds
    MaxRuns,        \* bound: clients started with each process id
    MaxCrashes,     \* bound: clients killed
    MaxLives        \* bound: starts of the server

ASSUME MessageQueueAssumption ==
    MSG_MAX_COUNT \in Nat \ {0} /\ MaxRuns \in Nat /\ MaxCrashes \in Nat /\ MaxLives \in Nat

VARIABLES
    server,         \* where the server is
    life,           \* how often it was started: the queue behind SERVER_QNAME
    req,            \* the request in hand
    client_qd,      \* which queue of that name it has open for the reply, 0 for none
    requests,       \* requests[l]: the queue of the l-th life
    cpc,            \* cpc[p]: how far the client with process id p is, 0 without one
    run,            \* run[p]: which client with that id
    qd_server,      \* the life whose queue it has opened
    linked,         \* linked[p]: its name refers to a queue
    made,           \* made[p]: how often that name has been created
    replies,        \* replies[p][n]: what is in the n-th of these queues
    crashed         \* crashed[p]: clients with that id that were killed

serverVars == <<server, life, req, client_qd>>
clientVars == <<cpc, run, qd_server>>
queues == <<linked, made, replies>>
vars == <<serverVars, requests, clientVars, queues, crashed>>

Runs == 0 .. MaxRuns
Messages == [pid : Pids, run : Runs]

Init ==
    /\ server = "down" /\ life = 0 /\ client_qd = 0
    /\ req \in [pid : Pids, run : {0}]
    /\ requests = [l \in 1 .. MaxLives |-> <<>>]
    /\ cpc = [p \in Pids |-> 0] /\ run = [p \in Pids |-> 0]
    /\ qd_server = [p \in Pids |-> 0]
    /\ linked = [p \in Pids |-> FALSE] /\ made = [p \in Pids |-> 0]
    /\ replies = [p \in Pids |-> [n \in 1 .. MaxRuns |-> <<>>]]
    /\ crashed = [p \in Pids |-> 0]

\* The name is the prefix and the process id.
PrefixOnly(pid) == CHOOSE p \in Pids : TRUE       \* mutant of QueueOf
QueueOf(pid) == pid

OneLess(queue) == Len(queue) + 1 < MSG_MAX_COUNT    \* mutant of HasRoom
HasRoom(queue) == Len(queue) < MSG_MAX_COUNT

-----------------------------------------------------------------------------
(***************************************************************************)
(* The server.                                                             *)
(***************************************************************************)

\* mq_unlink and mq_open: the name refers to a new queue.
StartServer ==
    /\ server = "down" /\ server' = "receive"
    /\ life < MaxLives /\ life' = life + 1
    /\ UNCHANGED <<req, client_qd, requests, clientVars, queues, crashed>>

KillServer ==
    /\ server # "down" /\ server' = "down" /\ client_qd' = 0
    /\ life < MaxLives
    /\ UNCHANGED <<life, req, requests, clientVars, queues, crashed>>

ReceiveRequest ==
    /\ server = "receive" /\ server' = "open"
    /\ requests[life] # <<>>
    /\ req' = Head(requests[life])
    /\ requests' = [requests EXCEPT ![life] = Tail(@)]
    /\ UNCHANGED <<life, client_qd, clientVars, queues, crashed>>

OpenClientQueue ==
    /\ server = "open" /\ server' = "send"
    /\ client_qd' = IF linked[QueueOf(req.pid)] THEN made[QueueOf(req.pid)] ELSE 0
    /\ UNCHANGED <<life, req, requests, clientVars, queues, crashed>>

\* mq_send blocks while the queue is full, with a name or without, and fails on what
\* was not opened; mq_close.
Opened == replies[QueueOf(req.pid)][client_qd]
SendReply ==
    /\ server = "send" /\ server' = "receive" /\ client_qd' = 0
    /\ \/ /\ client_qd # 0 /\ HasRoom(Opened)
          /\ replies' = [replies EXCEPT ![QueueOf(req.pid)][client_qd] = Append(@, req)]
       \/ client_qd = 0 /\ UNCHANGED replies
    /\ UNCHANGED <<life, req, requests, clientVars, linked, made, crashed>>

Server == ReceiveRequest \/ OpenClientQueue \/ SendReply

-----------------------------------------------------------------------------
(***************************************************************************)
(* A client.                                                               *)
(***************************************************************************)
UnlinkEarly == <<"create", "send", "unlink", "receive">>    \* mutant of Program
Program == <<"create", "send", "receive", "unlink">>

At(p, call) == cpc[p] # 0 /\ Program[cpc[p]] = call
Step(p, call) ==
    /\ At(p, call)
    /\ cpc' = [cpc EXCEPT ![p] = IF @ = Len(Program) THEN 0 ELSE @ + 1]

\* Without a queue of the server a client ends at once.
StartClient(p) ==
    /\ cpc[p] = 0 /\ cpc' = [cpc EXCEPT ![p] = 1]
    /\ run[p] < MaxRuns /\ run' = [run EXCEPT ![p] = @ + 1]
    /\ life > 0 /\ qd_server' = [qd_server EXCEPT ![p] = life]
    /\ UNCHANGED <<serverVars, requests, queues, crashed>>

\* O_CREAT without O_EXCL: a queue of that name is opened as it is, with what is in it.
CreateQueue(p) ==
    /\ Step(p, "create")
    /\ linked' = [linked EXCEPT ![QueueOf(p)] = TRUE]
    /\ made' = [made EXCEPT ![QueueOf(p)] = IF linked[QueueOf(p)] THEN @ ELSE @ + 1]
    /\ UNCHANGED <<serverVars, requests, run, qd_server, replies, crashed>>

SendRequest(p) ==
    /\ Step(p, "send")
    /\ HasRoom(requests[qd_server[p]])
    /\ requests' = [requests EXCEPT ![qd_server[p]] = Append(@, [pid |-> p, run |-> run[p]])]
    /\ UNCHANGED <<serverVars, run, qd_server, queues, crashed>>

\* The queue it created or found is the one behind its name: only it unlinks that name.
Own(p) == replies[QueueOf(p)][made[QueueOf(p)]]
ReceiveReply(p) ==
    /\ Step(p, "receive")
    /\ Own(p) # <<>>
    /\ replies' = [replies EXCEPT ![QueueOf(p)][made[QueueOf(p)]] = Tail(@)]
    /\ UNCHANGED <<serverVars, requests, run, qd_server, linked, made, crashed>>

\* mq_unlink takes the name away, not the queue from a server that has it open.
UnlinkQueue(p) ==
    /\ Step(p, "unlink")
    /\ linked' = [linked EXCEPT ![QueueOf(p)] = FALSE]
    /\ UNCHANGED <<serverVars, requests, run, qd_server, made, replies, crashed>>

\* Killed anywhere: the queue stays, as does the request.
KillClient(p) ==
    /\ cpc[p] # 0 /\ cpc' = [cpc EXCEPT ![p] = 0]
    /\ FoldFunction(+, 0, crashed) < MaxCrashes /\ crashed' = [crashed EXCEPT ![p] = @ + 1]
    /\ UNCHANGED <<serverVars, requests, run, qd_server, queues>>

Client(p) == CreateQueue(p) \/ SendRequest(p) \/ ReceiveReply(p) \/ UnlinkQueue(p)

Next ==
    \/ StartServer \/ KillServer \/ Server
    \/ \E p \in Pids : StartClient(p) \/ Client(p) \/ KillClient(p)

Spec == Init /\ [][Next]_vars

\* Processes run when they can; nobody has to start or to kill one.
Fairness == WF_vars(Server) /\ \A p \in Pids : WF_vars(Client(p))
FairSpec == Spec /\ Fairness

-----------------------------------------------------------------------------
\* What the queues hold and how much of it, and where the processes are.
TypeOK ==
    /\ server \in {"down", "receive", "open", "send"} /\ life \in 0 .. MaxLives
    /\ req \in Messages /\ client_qd \in 0 .. MaxRuns
    /\ requests \in [1 .. MaxLives -> Seq(Messages)]
    /\ replies \in [Pids -> [1 .. MaxRuns -> Seq(Messages)]]
    /\ \A l \in 1 .. MaxLives : Len(requests[l]) <= MSG_MAX_COUNT
    /\ \A p \in Pids : \A n \in 1 .. MaxRuns : Len(replies[p][n]) <= MSG_MAX_COUNT
    /\ cpc \in [Pids -> 0 .. Len(Program)] /\ run \in [Pids -> Runs]
    /\ qd_server \in [Pids -> 0 .. life]
    /\ linked \in [Pids -> BOOLEAN] /\ made \in [Pids -> Runs]
    /\ crashed \in [Pids -> Nat]

\* "Use process_id in the queue name to ensure every process get a unique queue
\* name": a client gets the reply to its own request, unless a client with its
\* process id was killed before; that one's reply it may get instead.
ReplyIsOwn ==
    [][\A p \in Pids : ReceiveReply(p) =>
          /\ Head(Own(p)).pid = p
          /\ Head(Own(p)).run = run[p] \/ crashed[p] > 0]_vars

\* The server waits for room in a queue nobody is going to read: its name is gone or
\* stands for another queue by now, or its client is no more, or waits itself for
\* room in the queue of a server.
Orphaned == ~ linked[QueueOf(req.pid)] \/ client_qd # made[QueueOf(req.pid)]
Blocked ==
    /\ server = "send" /\ client_qd # 0 /\ ~ HasRoom(Opened)
    /\ \/ Orphaned
       \/ cpc[req.pid] = 0
       \/ At(req.pid, "send") /\ ~ HasRoom(requests[qd_server[req.pid]])

\* It comes to that only when more clients with that process id were killed than a
\* queue holds replies.
BlockedOnlyBehindCrashes == Blocked => crashed[req.pid] > MSG_MAX_COUNT

\* Every client that has sent its request gets a reply, unless its server dies or
\* blocks and stays blocked, although replies go astray.
Abandoned(p) == server = "down" \/ qd_server[p] < life
EveryWaitEnds ==
    \A p \in Pids : At(p, "receive") ~> ~ At(p, "receive") \/ Abandoned(p) \/ []Blocked
=============================================================================
