----------------------------- MODULE FtpSession -----------------------------
(***************************************************************************)
(* src/5_ftp: client.py and server.py over helper.py.  The server serves   *)
(* one connection at a time with one RequestHandler for all of them; the   *)
(* others wait in the backlog.  Each client is a process with a prompt and *)
(* a socket that times out after five seconds.                             *)
(*                                                                         *)
(* A request is its command and its number on the connection; a response   *)
(* carries the number of the request it answers, a history field that no   *)
(* guard reads.  They travel whole, but for a put that times out half sent *)
(* or half answered: its remains spoil what comes after them.              *)
(* What commands do to files is left out: of the commands behind the login *)
(* "cmd" stands for all that are answered whatever happens, "crash" for    *)
(* one whose handler raises an exception that is not a TypeError (size     *)
(* without an argument, pwd in a directory that is gone).                  *)
(***************************************************************************)
EXTENDS Integers, Sequences

CONSTANTS
    Clients,        \* client processes, each with a user of the same name
    MaxConns,       \* bound: connections opened
    MaxRequests,    \* bound: requests on a connection
    Root, None

ASSUME FtpAssumption ==
    /\ Root \notin Clients /\ None \notin Clients /\ Root # None
    /\ MaxConns \in Nat /\ MaxRequests \in Nat \ {0, 1}     \* a ping and a login

Conns == 1 .. MaxConns
NoConn == 0
Unconnected == MaxConns + 1     \* a socket that connect was never called on

VARIABLES
    \* the connections
    queue,              \* queue[k][e]: what has been sent to end e and not read
    closed,             \* closed[k]: the ends that have closed it
    reset,              \* connections a reset has been sent on
    opened,             \* connections opened so far
    \* the server
    spc,                \* where the server is between accept and shutdown
    current,            \* the connection it serves
    request,            \* the request in hand
    response,           \* the code of the response to it
    handler,            \* the RequestHandler and the effective user id
    \* the clients
    cpc,                \* where each client is
    sock,               \* FTPClient.sock
    is_connected, is_authenticated,
    asked,              \* requests each client has sent on its connection
    given_up,           \* of these, those it has not waited out
    \* history
    sessions,           \* connections that have set the session of the handler
    aborted,            \* connections an exception ended while there was a session
    closes_sent         \* connections a close has been sent on behind the first request

network == <<queue, closed, reset, opened>>
serverVars == <<spc, current, request, response, handler>>
clientVars == <<cpc, sock, is_connected, is_authenticated, asked, given_up>>
history == <<sessions, aborted, closes_sent>>
vars == <<network, serverVars, clientVars, history>>

Ends == {"client", "server"}
Peer(e) == IF e = "client" THEN "server" ELSE "client"

Logins == {"auth_good", "auth_bad", "auth_anonymous"}
Commands == {"cmd", "crash", "put"}
Remains == {"torn", "garbage"}  \* of a message; after it has swallowed others
Requests == [command : {"ping", "close"} \cup Logins \cup Commands \cup Remains,
             number : 1 .. MaxRequests + 1, user : Clients \cup {None}]
Codes == {"ready", "granted", "refused", "done", "nothing", "torn"}
Responses == [code : Codes, number : 1 .. MaxRequests + 1]

NoSession == [is_authenticated |-> FALSE, anonymous |-> FALSE, user_data |-> None, euid |-> Root]

Init ==
    /\ queue = [k \in Conns |-> [e \in Ends |-> <<>>]]
    /\ closed = [k \in Conns |-> {}]
    /\ reset = {}
    /\ opened = 0
    /\ spc = "accept" /\ current = NoConn
    /\ request = [command |-> "ping", number |-> 1, user |-> None]
    /\ response = "ready"
    /\ handler = NoSession
    /\ cpc = [c \in Clients |-> "prompt"]
    /\ sock = [c \in Clients |-> NoConn]
    /\ is_connected = [c \in Clients |-> FALSE]
    /\ is_authenticated = [c \in Clients |-> FALSE]
    /\ asked = [c \in Clients |-> 0]
    /\ given_up = [c \in Clients |-> 0]
    /\ sessions = {} /\ aborted = {} /\ closes_sent = {}

-----------------------------------------------------------------------------
(***************************************************************************)
(* Sockets.  What is sent to an end that has closed is lost and may be     *)
(* answered with a reset, which makes sending fail and, once the data is   *)
(* used up or before, receiving too.  An end closed in order is read as an *)
(* end of stream.                                                          *)
(***************************************************************************)
Send(k, from, message) ==
    /\ k \notin reset
    /\ IF Peer(from) \in closed[k]
       THEN UNCHANGED queue /\ reset' \in {reset, reset \cup {k}}
       ELSE /\ queue' = [queue EXCEPT ![k][Peer(from)] = Append(@, message)]
            /\ UNCHANGED reset

SendFails(k, from) ==
    /\ k \in reset \/ Peer(from) \in closed[k]
    /\ reset' = reset \cup {k}

Spoilt(k, e) ==
    /\ queue[k][e] # <<>>
    /\ IF e = "client" THEN Head(queue[k][e]).code = "torn"
                       ELSE Head(queue[k][e]).command \in Remains
Arrived(k, e) == queue[k][e] # <<>> /\ ~ Spoilt(k, e)
Receive(k, e) == queue' = [queue EXCEPT ![k][e] = Tail(@)]
ReceiveFails(k) == k \in reset
AtEOF(k, e) ==
    /\ queue[k][e] = <<>> \/ (Spoilt(k, e) /\ Len(queue[k][e]) = 1)
    /\ Peer(e) \in closed[k] /\ k \notin reset

\* close() of an end; data left unread turns it into a reset.
Close(k, e) ==
    /\ closed' = [closed EXCEPT ![k] = @ \cup {e}]
    /\ reset' \in IF queue[k][e] = <<>> THEN {reset} ELSE {reset, reset \cup {k}}
    /\ queue' = [queue EXCEPT ![k][e] = <<>>]

-----------------------------------------------------------------------------
(***************************************************************************)
(* The server.                                                             *)
(***************************************************************************)
ServerGoto(from, to) == spc = from /\ spc' = to
NextRequest == Head(queue[current]["server"])

Backlog == current < opened

\* accept() of the oldest connection in the backlog.
Accept ==
    /\ ServerGoto("accept", "ignore") /\ Backlog
    /\ current' = current + 1
    /\ UNCHANGED <<network, request, response, handler, clientVars, history>>

GreetUnread ==                                  \* mutant of IgnoreFirst
    /\ ServerGoto("ignore", "respond")
    /\ response' = "ready"
    /\ UNCHANGED <<network, current, request, handler, clientVars, history>>

\* sock_ignore reads the first request, whatever it is; the greeting answers it.
IgnoreFirst ==
    /\ ServerGoto("ignore", "respond")
    /\ Arrived(current, "server") /\ Receive(current, "server")
    /\ request' = NextRequest
    /\ response' = "ready"
    /\ UNCHANGED <<closed, reset, opened, current, handler, clientVars, history>>

CloseIsACommand(req) == FALSE                   \* mutant of IsClose
IsClose(req) == req.command = "close"

ReadRequest ==
    /\ spc = "read" /\ Arrived(current, "server")
    /\ spc' = IF IsClose(NextRequest) THEN "detach" ELSE "handle"
    /\ Receive(current, "server")
    /\ request' = NextRequest
    /\ UNCHANGED <<closed, reset, opened, current, response, handler, clientVars, history>>

\* The rest of a request is taken from those that follow it ...
SwallowRequest ==
    /\ spc = "read" /\ Spoilt(current, "server") /\ Len(queue[current]["server"]) > 1
    /\ queue' = [queue EXCEPT ![current]["server"] = <<Head(@)>> \o Tail(Tail(@))]
    /\ UNCHANGED <<closed, reset, opened, serverVars, clientVars, history>>

\* ... until there is enough for a put with a damaged file ...
ReadDamagedPut ==
    /\ ServerGoto("read", "handle")
    /\ Spoilt(current, "server") /\ NextRequest.command = "torn"
    /\ Len(queue[current]["server"]) > 1
    /\ request' = [NextRequest EXCEPT !.command = "put"]
    /\ queue' = [queue EXCEPT ![current]["server"] =
                     <<[Head(@) EXCEPT !.command = "garbage"]>> \o Tail(Tail(@))]
    /\ UNCHANGED <<closed, reset, opened, current, response, handler, clientVars, history>>

\* ... or for something that is no object.
ReadGarbage ==
    /\ ServerGoto("read", "raise")
    /\ Spoilt(current, "server")
    /\ NextRequest.command = "garbage" \/ Len(queue[current]["server"]) > 1
    /\ UNCHANGED <<network, current, request, response, handler, clientVars, history>>

\* read_bytes at the end of the stream asks for bytes for ever.
ReadEOF ==
    /\ spc \in {"ignore", "read"} /\ spc' = "spin"
    /\ AtEOF(current, "server")
    /\ UNCHANGED <<network, current, request, response, handler, clientVars, history>>

SpinAtEOF == spc = "spin" /\ UNCHANGED vars

ReadFails ==
    /\ spc \in {"ignore", "read"} /\ spc' = "raise"
    /\ ReceiveFails(current)
    /\ UNCHANGED <<network, current, request, response, handler, clientVars, history>>

HandleCommand ==
    /\ ServerGoto("handle", "respond")
    /\ request.command \notin Logins \cup {"crash"}
    /\ response' = "done"
    /\ UNCHANGED <<network, current, request, handler, clientVars, history>>

HandlerRaises ==
    /\ ServerGoto("handle", "raise")
    /\ request.command = "crash"
    /\ UNCHANGED <<network, current, request, response, handler, clientVars, history>>

\* What auth.authenticate may come to: the id of the user, None for a wrong name or
\* password, or an exception, since the shadow file is for root only; the name is
\* looked up before.  A password field without a hash is a ValueError and refused.
authenticate(req) ==
    (IF req.command = "auth_good" /\ handler.euid = Root THEN {"user_id"} ELSE {})
    \cup (IF req.command = "auth_bad" THEN {"None"} ELSE {})
    \cup (IF req.command \in {"auth_good", "auth_bad"} /\ handler.euid # Root
          THEN {"exception"} ELSE {})

\* The session is set before os.chdir, which raises when the home is missing.
HandleLogin ==
    /\ spc = "handle" /\ spc' \in {"respond", "raise"}
    /\ "user_id" \in authenticate(request)
    /\ handler' = [is_authenticated |-> TRUE, anonymous |-> FALSE,
                   user_data |-> request.user, euid |-> request.user]
    /\ sessions' = sessions \cup {current}
    /\ response' = "granted"
    /\ UNCHANGED <<network, current, request, clientVars, aborted, closes_sent>>

HandleAnonymousLogin ==
    /\ ServerGoto("handle", "respond")
    /\ request.command = "auth_anonymous"
    /\ handler' = [handler EXCEPT !.is_authenticated = TRUE, !.anonymous = TRUE]
    /\ sessions' = sessions \cup {current}
    /\ response' = "nothing"
    /\ UNCHANGED <<network, current, request, clientVars, aborted, closes_sent>>

RefuseLogin ==
    /\ ServerGoto("handle", "respond")
    /\ "None" \in authenticate(request)
    /\ response' = "refused"
    /\ UNCHANGED <<network, current, request, handler, clientVars, history>>

\* The exception is neither KeyError nor ValueError.
ShadowFileUnreadable ==
    /\ ServerGoto("handle", "raise")
    /\ "exception" \in authenticate(request)
    /\ UNCHANGED <<network, current, request, response, handler, clientVars, history>>

SendResponse ==
    /\ ServerGoto("respond", "read")
    /\ Send(current, "server", [code |-> response, number |-> request.number])
    /\ UNCHANGED <<closed, opened, current, request, response, handler, clientVars, history>>

SendResponseFails ==
    /\ ServerGoto("respond", "raise")
    /\ SendFails(current, "server")
    /\ UNCHANGED <<queue, closed, opened, current, request, response, handler,
                   clientVars, history>>

NotShutDown == handler                          \* mutant of ShutDown
ShutDown == NoSession

\* client.close() and handler.shutdown().
Detach ==
    /\ ServerGoto("detach", "accept")
    /\ Close(current, "server")
    /\ handler' = ShutDown
    /\ UNCHANGED <<opened, current, request, response, clientVars, history>>

\* The exception reaches the main loop, which logs it; nobody refers to the socket any more.
Abort ==
    /\ ServerGoto("raise", "accept")
    /\ Close(current, "server")
    /\ aborted' = IF handler # NoSession THEN aborted \cup {current} ELSE aborted
    /\ UNCHANGED <<opened, current, request, response, handler, clientVars, sessions, closes_sent>>

Server ==
    \/ Accept \/ IgnoreFirst
    \/ ReadRequest \/ SwallowRequest \/ ReadDamagedPut \/ ReadGarbage \/ ReadEOF \/ SpinAtEOF \/ ReadFails
    \/ HandleCommand \/ HandlerRaises
    \/ HandleLogin \/ HandleAnonymousLogin \/ RefuseLogin \/ ShadowFileUnreadable
    \/ SendResponse \/ SendResponseFails \/ Detach \/ Abort

-----------------------------------------------------------------------------
(***************************************************************************)
(* A client.  FTPError brings it back to its prompt; any other exception,  *)
(* a time-out among them, ends it ("dying").                               *)
(***************************************************************************)
ClientGoto(c, from, to) == cpc[c] = from /\ cpc' = [cpc EXCEPT ![c] = to]
flags == <<is_connected, is_authenticated>>

Request(c, command) == [command |-> command, number |-> asked[c] + 1, user |-> c]

\* open with a port that is not a number: the new socket is kept.
OpenBadPort(c) ==
    /\ cpc[c] = "prompt" /\ ~ is_connected[c]
    /\ sock' = [sock EXCEPT ![c] = Unconnected]
    /\ UNCHANGED <<network, serverVars, cpc, flags, asked, given_up, history>>

\* The ping is the first request, or the close if the interrupt key comes before it.
Open(c) ==
    /\ cpc[c] = "prompt" /\ ~ is_connected[c] /\ opened < MaxConns
    /\ opened' = opened + 1
    /\ sock' = [sock EXCEPT ![c] = opened + 1]
    /\ \E first \in {"ping", "close"} :
          /\ queue' = [queue EXCEPT ![opened + 1]["server"] =
                           <<[command |-> first, number |-> 1, user |-> c]>>]
          /\ cpc' = [cpc EXCEPT ![c] = IF first = "ping" THEN "ping" ELSE "exiting"]
    /\ asked' = [asked EXCEPT ![c] = 1]
    /\ given_up' = [given_up EXCEPT ![c] = 0]
    /\ UNCHANGED <<closed, reset, serverVars, flags, history>>

\* The response to the ping, whatever it is; init_auth follows.
TakeGreeting(c) ==
    /\ ClientGoto(c, "ping", "name")
    /\ Arrived(sock[c], "client") /\ Receive(sock[c], "client")
    /\ is_connected' = [is_connected EXCEPT ![c] = TRUE]
    /\ UNCHANGED <<closed, reset, opened, serverVars, sock, is_authenticated,
                   asked, given_up, history>>

SendLogin(c, login) ==
    /\ ClientGoto(c, "name", "login")
    /\ login \in Logins
    /\ Send(sock[c], "client", Request(c, login))
    /\ asked' = [asked EXCEPT ![c] = @ + 1]
    /\ UNCHANGED <<closed, opened, serverVars, sock, flags, given_up, history>>

LoginResponse(c) == Head(queue[sock[c]]["client"]).code

AnyLogin(c) == TRUE                             \* mutant of LoginGranted
LoginGranted(c) == LoginResponse(c) = "granted"

\* An anonymous login is answered with None, which has no code.
TakeLoginResponse(c) ==
    /\ cpc[c] = "login" /\ Arrived(sock[c], "client")
    /\ cpc' = [cpc EXCEPT ![c] = IF LoginResponse(c) = "nothing" THEN "dying" ELSE "prompt"]
    /\ Receive(sock[c], "client")
    /\ is_authenticated' = [is_authenticated EXCEPT ![c] = LoginGranted(c)]
    /\ UNCHANGED <<closed, reset, opened, serverVars, sock, is_connected,
                   asked, given_up, history>>

Ask(c, command) ==
    /\ ClientGoto(c, "prompt", IF command = "put" THEN "put" ELSE "reply")
    /\ is_connected[c] /\ is_authenticated[c] /\ asked[c] < MaxRequests
    /\ Send(sock[c], "client", Request(c, command))
    /\ asked' = [asked EXCEPT ![c] = @ + 1]
    /\ UNCHANGED <<closed, opened, serverVars, sock, flags, given_up, history>>

TakeReply(c) ==
    /\ cpc[c] \in {"put", "reply"} /\ cpc' = [cpc EXCEPT ![c] = "prompt"]
    /\ Arrived(sock[c], "client") /\ Receive(sock[c], "client")
    /\ UNCHANGED <<closed, reset, opened, serverVars, sock, flags, asked, given_up, history>>

\* put makes an FTPError of every OSError, of the time-out too.
GiveUpPut(c) ==
    /\ ClientGoto(c, "put", "prompt")
    /\ given_up' = [given_up EXCEPT ![c] = @ + 1]
    /\ UNCHANGED <<network, serverVars, sock, flags, asked, history>>

\* The time-out strikes when a part of the request is sent ...
TearRequest(c) ==
    /\ cpc[c] = "prompt"
    /\ is_connected[c] /\ is_authenticated[c] /\ asked[c] < MaxRequests
    /\ Send(sock[c], "client", Request(c, "torn"))
    /\ asked' = [asked EXCEPT ![c] = @ + 1]
    /\ given_up' = [given_up EXCEPT ![c] = @ + 1]
    /\ UNCHANGED <<closed, opened, serverVars, cpc, sock, flags, history>>

\* ... or a part of the response read.
TearResponse(c) ==
    /\ ClientGoto(c, "put", "prompt")
    /\ Arrived(sock[c], "client")
    /\ queue' = [queue EXCEPT ![sock[c]]["client"] =
                     <<[Head(@) EXCEPT !.code = "torn"]>> \o Tail(@)]
    /\ given_up' = [given_up EXCEPT ![c] = @ + 1]
    /\ UNCHANGED <<closed, reset, opened, serverVars, sock, flags, asked, history>>

\* The time-out of any other request, a reset, or bytes that are no object.
WaitFails(c) ==
    /\ cpc[c] \in {"ping", "login", "reply"}
       \/ (cpc[c] = "put" /\ Spoilt(sock[c], "client"))
    /\ cpc' = [cpc EXCEPT ![c] = "dying"]
    /\ UNCHANGED <<network, serverVars, sock, flags, asked, given_up, history>>

\* The end of the input, at the prompt or where init_auth asks for a name, ends the client.
EndOfInput(c) ==
    /\ cpc[c] \in {"prompt", "name"} /\ cpc' = [cpc EXCEPT ![c] = "dying"]
    /\ UNCHANGED <<network, serverVars, sock, flags, asked, given_up, history>>

\* The server has closed: read_bytes asks for bytes for ever.
HangAtEOF(c) ==
    /\ cpc[c] \in {"ping", "login", "put", "reply"} /\ cpc' = [cpc EXCEPT ![c] = "hung"]
    /\ AtEOF(sock[c], "client")
    /\ UNCHANGED <<network, serverVars, sock, flags, asked, given_up, history>>

\* A request that cannot be sent; the user of a put is told, any other client ends.
RequestFails(c) ==
    /\ \/ ClientGoto(c, "name", "dying")
       \/ is_authenticated[c] /\ \E to \in {"prompt", "dying"} : ClientGoto(c, "prompt", to)
    /\ SendFails(sock[c], "client")
    /\ UNCHANGED <<queue, closed, opened, serverVars, sock, flags, asked, given_up, history>>

\* close, exit, or the interrupt key at any moment: the request goes out first.
SendClose(c) ==
    /\ \/ ClientGoto(c, "prompt", "closing")
       \/ /\ cpc[c] \in {"prompt", "ping", "name", "login", "put", "reply", "hung"}
          /\ cpc' = [cpc EXCEPT ![c] = "exiting"]
    /\ sock[c] \in Conns
    /\ Send(sock[c], "client", Request(c, "close"))
    /\ closes_sent' = closes_sent \cup {sock[c]}
    /\ UNCHANGED <<closed, opened, serverVars, sock, flags, asked, given_up, sessions, aborted>>

NotReset(flag) == flag                          \* mutant of Reset
Reset(flag) == FALSE

FinishClose(c) ==
    /\ ClientGoto(c, "closing", "prompt")
    /\ Close(sock[c], "client")
    /\ sock' = [sock EXCEPT ![c] = NoConn]
    /\ is_connected' = [is_connected EXCEPT ![c] = Reset(@)]
    /\ is_authenticated' = [is_authenticated EXCEPT ![c] = Reset(@)]
    /\ UNCHANGED <<opened, serverVars, asked, given_up, history>>

CloseFails(c) ==
    /\ cpc[c] \in {"prompt", "hung"} /\ cpc' = [cpc EXCEPT ![c] = "dying"]
    /\ \/ sock[c] = Unconnected /\ UNCHANGED reset
       \/ sock[c] \in Conns /\ SendFails(sock[c], "client")
    /\ UNCHANGED <<queue, closed, opened, serverVars, sock, flags, asked, given_up, history>>

\* The process ends, and with it its socket.
End(c) ==
    /\ cpc[c] \in {"exiting", "dying"} \/ (cpc[c] = "prompt" /\ sock[c] = NoConn)
    /\ cpc' = [cpc EXCEPT ![c] = "ended"]
    /\ IF sock[c] \in Conns THEN Close(sock[c], "client") ELSE UNCHANGED <<queue, closed, reset>>
    /\ UNCHANGED <<opened, serverVars, sock, flags, asked, given_up, history>>

Client(c) ==
    \/ OpenBadPort(c) \/ Open(c) \/ TakeGreeting(c)
    \/ (\E login \in Logins : SendLogin(c, login)) \/ TakeLoginResponse(c)
    \/ (\E command \in Commands : Ask(c, command)) \/ TakeReply(c)
    \/ GiveUpPut(c) \/ TearRequest(c) \/ TearResponse(c)
    \/ WaitFails(c) \/ EndOfInput(c) \/ HangAtEOF(c) \/ RequestFails(c)
    \/ SendClose(c) \/ FinishClose(c) \/ CloseFails(c) \/ End(c)

\* All clients have ended or hang, the server has nothing to accept.
Quiet ==
    /\ \A c \in Clients : cpc[c] \in {"ended", "hung"}
    /\ spc = "accept" /\ current = opened
    /\ UNCHANGED vars

Next == Server \/ (\E c \in Clients : Client(c)) \/ Quiet

Spec == Init /\ [][Next]_vars

-----------------------------------------------------------------------------
\* The shared handler, the connections with what is on them, and the clients: one
\* that takes itself for connected has a socket that is.
TypeOK ==
    /\ DOMAIN queue = Conns
    /\ \A k \in Conns : /\ queue[k]["server"] \in Seq(Requests)
                        /\ queue[k]["client"] \in Seq(Responses)
    /\ closed \in [Conns -> SUBSET Ends]
    /\ reset \subseteq Conns /\ opened \in 0 .. MaxConns
    /\ spc \in {"accept", "ignore", "read", "handle", "respond", "detach", "raise", "spin"}
    /\ current \in 0 .. opened
    /\ request \in Requests /\ response \in Codes
    /\ handler \in [is_authenticated : BOOLEAN, anonymous : BOOLEAN,
                    user_data : Clients \cup {None}, euid : Clients \cup {Root}]
    /\ cpc \in [Clients -> {"prompt", "ping", "name", "login", "put", "reply",
                            "closing", "exiting", "dying", "hung", "ended"}]
    /\ sock \in [Clients -> Conns \cup {NoConn, Unconnected}]
    /\ \A c \in Clients : is_connected[c] => sock[c] \in Conns
    /\ is_connected \in [Clients -> BOOLEAN] /\ is_authenticated \in [Clients -> BOOLEAN]
    /\ asked \in [Clients -> 0 .. MaxRequests] /\ given_up \in [Clients -> 0 .. MaxRequests]
    /\ sessions \subseteq Conns /\ aborted \subseteq Conns /\ closes_sent \subseteq Conns

(***************************************************************************)
(* Requests are answered one by one and in order: what a client takes for  *)
(* the response to its last request answers the request as many places     *)
(* before as there are puts it has given up on this connection.            *)
(***************************************************************************)
TakesResponse(c) == TakeGreeting(c) \/ TakeLoginResponse(c) \/ TakeReply(c)

ResponsesLagByPutsGivenUp ==
    [][\A c \in Clients : TakesResponse(c) =>
           Head(queue[sock[c]]["client"]).number = asked[c] - given_up[c]]_vars

(***************************************************************************)
(* A client takes itself for logged in only on a connection for which the  *)
(* server has opened a session, and is connected then.                     *)
(***************************************************************************)
LoggedInAtBothEnds ==
    \A c \in Clients : is_authenticated[c] => is_connected[c] /\ sock[c] \in sessions

(***************************************************************************)
(* The one handler of all connections has a session only from the login of *)
(* the connection it serves, unless an exception has ended a connection    *)
(* that had one; and while it acts as a user that user is its user.        *)
(***************************************************************************)
SessionOfCurrentConnection ==
    /\ handler # NoSession /\ aborted = {} => spc # "accept" /\ current \in sessions
    /\ handler.euid # Root => handler.user_data = handler.euid

(***************************************************************************)
(* Comment in shutdown: "Revert back to the privileaged user".  When the   *)
(* server waits for the next connection, it acts as root again: as anybody *)
(* else it cannot read the shadow file and grants no login.                *)
(***************************************************************************)
AcceptsAsPrivilegedUser == spc = "accept" => handler.euid = Root

(***************************************************************************)
(* read_bytes does not see the end of the stream and keeps the only thread *)
(* of the server in its loop.  That takes a client that has ended and has  *)
(* sent no close behind its first request, which sock_ignore reads, or     *)
(* remains of a request that swallowed the close: close, exit and the      *)
(* interrupt key let the server go on.                                     *)
(***************************************************************************)
SpinsOnlyWithoutClose ==
    spc = "spin" =>
        \/ /\ current \notin closes_sent
           /\ \E c \in Clients : sock[c] = current /\ cpc[c] = "ended"
        \/ Spoilt(current, "server")
=============================================================================
