---------------------------- MODULE SmtpSession ----------------------------
(***************************************************************************)
(* src/6_smtp: smtp_client.py and smtp_server.py over common.py.  The      *)
(* server keeps one transaction, whoever the datagrams come from.  A       *)
(* client waits for a response after each line, but not from its data      *)
(* command to the line with the dot.                                       *)
(*                                                                         *)
(* A line is its verb and what the server finds in its argument; "text" is *)
(* a line that is no command.  Datagrams and responses carry history       *)
(* fields that no guard reads: the number of the line on its client, and   *)
(* whether the client waits for the response to it.  The header of a mail  *)
(* (host, address and date) and the wording of responses are left out.     *)
(***************************************************************************)
EXTENDS Integers, Sequences, Functions

CONSTANTS
    Clients,        \* client processes
    Mailboxes,      \* addresses of users of the server's machine
    Unknown,        \* an address is_valid_mail rejects
    Malformed,      \* an argument the pattern of the verb does not match
    None,
    Typed,          \* the lines that users type
    MaxLines,       \* bound: lines sent by all clients
    MaxFaults       \* bound: datagrams lost or overtaken, interrupts of the server

Arguments == Mailboxes \cup {Unknown, Malformed}
Stamps == [from : Clients, number : Nat]
Verbs == {"helo", "mail", "rcpt", "data", "dot", "text"}

ASSUME SmtpAssumption ==
    /\ Unknown \notin Mailboxes /\ Malformed \notin Mailboxes /\ Unknown # Malformed
    /\ None \notin Stamps
    /\ Typed \subseteq [verb : Verbs, arg : Arguments]
    /\ MaxLines \in Nat /\ MaxFaults \in Nat

VARIABLES
    server,             \* down, waiting for the connect datagram, or serving
    next_handler, mail_from, recps, data,
    cpc,                \* where each client is
    wait_for_response,
    sent,               \* sent[c]: lines sent; the connect datagram has number 0
    requests, responses,    \* datagrams not yet read, by client, oldest first
    faults,
    \* history
    mails,              \* what was written to mailboxes, oldest first
    answered,           \* clients that got a response to a line of their data mode
    unanswered          \* clients that wait for a response nobody will send

transaction == <<next_handler, mail_from, recps, data>>
clientVars == <<cpc, wait_for_response, sent>>
vars == <<server, transaction, clientVars, requests, responses, faults,
          mails, answered, unanswered>>

Stamp(d) == [from |-> d.from, number |-> d.number]
Datagrams == [verb : Verbs \cup {"connect"}, arg : Arguments, from : Clients,
              number : Nat, awaited : BOOLEAN]
Responses == [status : {"ready", "ok", "error"}, verb : Verbs \cup {"connect"},
              number : Nat]
Data == [opened : Stamps \cup {None}, text : Seq(Stamps)]
NoData == [opened |-> None, text |-> <<>>]

Init ==
    /\ server = "down"
    /\ next_handler = "helo" /\ mail_from = None /\ recps = <<>> /\ data = NoData
    /\ cpc = [c \in Clients |-> "start"]
    /\ wait_for_response = [c \in Clients |-> TRUE]
    /\ sent = [c \in Clients |-> 0]
    /\ requests = [c \in Clients |-> <<>>] /\ responses = [c \in Clients |-> <<>>]
    /\ faults = 0
    /\ mails = <<>> /\ answered = {} /\ unanswered = {}

-----------------------------------------------------------------------------
(***************************************************************************)
(* The server.  A handler is a relation of the datagram in hand, d, and    *)
(* the transaction before and after.                                       *)
(***************************************************************************)
Respond(d, status) ==
    /\ responses' = IF cpc[d.from] = "ended" THEN responses
                    ELSE [responses EXCEPT ![d.from] = Append(@,
                             [status |-> status, verb |-> d.verb, number |-> d.number])]
    /\ answered' = IF d.awaited \/ next_handler = "store" THEN answered
                                                          ELSE answered \cup {d.from}
    /\ UNCHANGED unanswered

NoResponse(d) ==
    /\ unanswered' = IF d.awaited THEN unanswered \cup {d.from} ELSE unanswered
    /\ UNCHANGED <<responses, answered>>

Refuse(d) == Respond(d, "error") /\ UNCHANGED <<server, transaction, mails>>

HandleMail(d) ==
    /\ mail_from' = Stamp(d) /\ next_handler' = "rcpt"
    /\ Respond(d, "ok")
    /\ UNCHANGED <<server, recps, data, mails>>

HandleHelo(d) ==
    \/ /\ d.verb = "helo" /\ d.arg # Malformed
       /\ Respond(d, "ok") /\ UNCHANGED <<server, transaction, mails>>
    \/ d.verb = "mail" /\ d.arg # Malformed /\ HandleMail(d)
    \/ (d.verb \notin {"helo", "mail"} \/ d.arg = Malformed) /\ Refuse(d)

IsValidMail(arg) == arg \in Mailboxes

HandleRcpt(d) ==
    \/ /\ d.verb = "rcpt" /\ IsValidMail(d.arg)
       /\ recps' = Append(recps, d.arg) /\ next_handler' = "data"
       /\ Respond(d, "ok")
       /\ UNCHANGED <<server, mail_from, data, mails>>
    \/ ~ (d.verb = "rcpt" /\ IsValidMail(d.arg)) /\ Refuse(d)

\* Nothing is sent in answer to data: the client does not wait.
HandleData(d) ==
    \/ d.verb = "rcpt" /\ HandleRcpt(d)
    \/ /\ d.verb = "data"
       /\ data' = [opened |-> Stamp(d), text |-> <<>>] /\ next_handler' = "store"
       /\ NoResponse(d)
       /\ UNCHANGED <<server, mail_from, recps, mails>>
    \/ d.verb \notin {"rcpt", "data"} /\ Refuse(d)

StoreTextAnswered(d) ==                         \* mutant of StoreText
    /\ d.verb # "dot" /\ data' = [data EXCEPT !.text = Append(@, Stamp(d))]
    /\ Respond(d, "ok") /\ UNCHANGED <<server, next_handler, mail_from, recps, mails>>
StoreNoCommand(d) ==                            \* mutant of StoreText
    /\ d.verb # "dot" /\ NoResponse(d)
    /\ data' = [data EXCEPT !.text = IF d.verb = "text" THEN Append(@, Stamp(d)) ELSE @]
    /\ UNCHANGED <<server, next_handler, mail_from, recps, mails>>
StoreText(d) ==
    /\ d.verb # "dot"
    /\ data' = [data EXCEPT !.text = Append(@, Stamp(d))]
    /\ NoResponse(d)
    /\ UNCHANGED <<server, next_handler, mail_from, recps, mails>>

\* The mail as it is in the mailboxes of the first recipients, "copies" of them.
SaveMail(d, copies) ==
    mails' = Append(mails, [closed |-> Stamp(d), opened |-> data.opened,
                            text |-> data.text, recps |-> recps, copies |-> copies])

ResetButRecipients ==                           \* mutant of Reset
    /\ next_handler' = "helo" /\ mail_from' = None /\ data' = NoData /\ UNCHANGED recps
Reset ==
    /\ next_handler' = "helo"
    /\ mail_from' = None /\ recps' = <<>> /\ data' = NoData

StoreMailUnanswered(d) ==                       \* mutant of StoreMail
    /\ d.verb = "dot" /\ SaveMail(d, Len(recps)) /\ Reset
    /\ UNCHANGED <<server, responses, answered, unanswered>>
StoreMailAnyway(d) ==                           \* mutant of StoreMail
    /\ d.verb = "dot" /\ (\E copies \in 0 .. Len(recps) : SaveMail(d, copies))
    /\ Reset /\ Respond(d, "ok") /\ UNCHANGED server
StoreMail(d) ==
    /\ d.verb = "dot"
    /\ SaveMail(d, Len(recps)) /\ Reset /\ Respond(d, "ok")
    /\ UNCHANGED server

\* The mailbox of one recipient cannot be opened: nothing catches the exception.
SaveFails(d) ==
    /\ d.verb = "dot"
    /\ \E copies \in 0 .. Len(recps) - 1 : SaveMail(d, copies)
    /\ server' = "down"
    /\ NoResponse(d)
    /\ UNCHANGED transaction

Handle(d) ==
    \/ next_handler = "helo" /\ HandleHelo(d)
    \/ next_handler = "rcpt" /\ HandleRcpt(d)
    \/ next_handler = "data" /\ HandleData(d)
    \/ next_handler = "store" /\ (StoreText(d) \/ StoreMail(d) \/ SaveFails(d))

\* connect() takes the first datagram for a greeting, whatever it says.
Connect(d) ==
    /\ server = "greeting" /\ server' = "serving"
    /\ next_handler' = "helo"
    /\ Respond(d, "ready")
    /\ UNCHANGED <<mail_from, recps, data, mails>>

Accept(d) == server = "serving" /\ Handle(d)

\* Datagrams may overtake each other.
Without(queue, i) == SubSeq(queue, 1, i - 1) \o SubSeq(queue, i + 1, Len(queue))
Unread(queue, i) ==
    /\ i \in 1 .. Len(queue)
    /\ faults' = IF i = 1 THEN faults ELSE faults + 1
    /\ faults' <= MaxFaults

Receive(c, i) ==
    /\ Unread(requests[c], i)
    /\ requests' = [requests EXCEPT ![c] = Without(@, i)]
    /\ Connect(requests[c][i]) \/ Accept(requests[c][i])
    /\ UNCHANGED clientVars

StartServer ==
    /\ server = "down" /\ server' = "greeting"
    /\ Reset
    /\ UNCHANGED <<clientVars, requests, responses, faults, mails, answered, unanswered>>

\* The interrupt key.
StopServer ==
    /\ server # "down" /\ server' = "down"
    /\ faults < MaxFaults /\ faults' = faults + 1
    /\ UNCHANGED <<transaction, clientVars, requests, responses, mails, answered, unanswered>>

Server == (\E c \in Clients : \E i \in 1 .. Len(requests[c]) : Receive(c, i))
          \/ StartServer \/ StopServer

-----------------------------------------------------------------------------
(***************************************************************************)
(* The network.                                                            *)
(***************************************************************************)
LoseRequest(c) ==
    /\ requests[c] # <<>>
    /\ faults' = IF server = "down" THEN faults ELSE faults + 1     \* no socket
    /\ faults' <= MaxFaults
    /\ NoResponse(Head(requests[c]))
    /\ requests' = [requests EXCEPT ![c] = Tail(@)]
    /\ UNCHANGED <<server, transaction, clientVars, mails>>

LoseResponse(c) ==
    /\ responses[c] # <<>> /\ faults < MaxFaults
    /\ faults' = faults + 1
    /\ responses' = [responses EXCEPT ![c] = Tail(@)]
    /\ unanswered' = unanswered \cup {c}
    /\ UNCHANGED <<server, transaction, clientVars, requests, mails, answered>>

-----------------------------------------------------------------------------
(***************************************************************************)
(* A client.  It is at its prompt, or waits in recv_response.              *)
(***************************************************************************)
Send(c, verb, arg, number, awaited) ==
    requests' = [requests EXCEPT ![c] = Append(@, [verb |-> verb, arg |-> arg,
                    from |-> c, number |-> number, awaited |-> awaited])]

StartClient(c) ==
    /\ cpc[c] = "start" /\ cpc' = [cpc EXCEPT ![c] = "waiting"]
    /\ Send(c, "connect", Malformed, 0, TRUE)
    /\ UNCHANGED <<server, transaction, wait_for_response, sent, responses, faults,
                   mails, answered, unanswered>>

TakeResponse(c, i) ==
    /\ cpc[c] = "waiting" /\ cpc' = [cpc EXCEPT ![c] = "prompt"]
    /\ Unread(responses[c], i)
    /\ responses' = [responses EXCEPT ![c] = Without(@, i)]
    /\ UNCHANGED <<server, transaction, wait_for_response, sent, requests,
                   mails, answered, unanswered>>

AfterLine(c) == cpc' = [cpc EXCEPT ![c] = IF wait_for_response'[c] THEN "waiting" ELSE "prompt"]

WaitsAfter(c, line) ==
    line.verb # "data" /\ (line.verb = "dot" \/ wait_for_response[c])

LinesSent == FoldFunction(+, 0, sent)

TypeLine(c, line) ==
    /\ cpc[c] = "prompt" /\ LinesSent < MaxLines
    /\ wait_for_response' = [wait_for_response EXCEPT ![c] = WaitsAfter(c, line)]
    /\ sent' = [sent EXCEPT ![c] = @ + 1]
    /\ Send(c, line.verb, line.arg, sent[c] + 1, wait_for_response'[c])
    /\ AfterLine(c)
    /\ UNCHANGED <<server, transaction, responses, faults, mails, answered,
                   unanswered>>

\* An empty line is not sent, and the client waits all the same.
TypeNothing(c) ==
    /\ cpc[c] = "prompt" /\ wait_for_response[c]
    /\ UNCHANGED wait_for_response /\ AfterLine(c)
    /\ unanswered' = unanswered \cup {c}
    /\ UNCHANGED <<server, transaction, sent, requests, responses, faults,
                   mails, answered>>

\* quit, which is not sent either, the interrupt key, or the end of the input.
Quit(c) ==
    /\ cpc[c] \in {"prompt", "waiting"} /\ cpc' = [cpc EXCEPT ![c] = "ended"]
    /\ responses' = [responses EXCEPT ![c] = <<>>]
    /\ UNCHANGED <<server, transaction, wait_for_response, sent, requests, faults,
                   mails, answered, unanswered>>

Client(c) ==
    \/ StartClient(c) \/ TypeNothing(c) \/ Quit(c)
    \/ \E i \in 1 .. Len(responses[c]) : TakeResponse(c, i)
    \/ \E line \in Typed : TypeLine(c, line)

Next == Server \/ \E c \in Clients : Client(c) \/ LoseRequest(c) \/ LoseResponse(c)

Spec == Init /\ [][Next]_vars

-----------------------------------------------------------------------------
\* What variables of server and clients, the sockets and mailboxes hold.
TypeOK ==
    /\ server \in {"down", "greeting", "serving"}
    /\ next_handler \in {"helo", "rcpt", "data", "store"}
    /\ mail_from \in Stamps \cup {None} /\ recps \in Seq(Mailboxes) /\ data \in Data
    /\ cpc \in [Clients -> {"start", "waiting", "prompt", "ended"}]
    /\ wait_for_response \in [Clients -> BOOLEAN] /\ sent \in [Clients -> Nat]
    /\ requests \in [Clients -> Seq(Datagrams)] /\ responses \in [Clients -> Seq(Responses)]
    /\ faults \in 0 .. MaxFaults
    /\ mails \in Seq([closed : Stamps, opened : Stamps, text : Seq(Stamps),
                      recps : Seq(Mailboxes), copies : Nat])
    /\ answered \subseteq Clients /\ unanswered \subseteq Clients

\* The next handler knows no more of a mail than what has been accepted: there is
\* a sender behind rcpt, a recipient behind data, and nothing is left of the mail
\* before, whoever sent the lines, across interrupts and failures of the server.
HandlerFitsMail ==
    /\ next_handler = "helo" => mail_from = None
    /\ next_handler # "helo" => mail_from # None
    /\ next_handler \in {"helo", "rcpt"} => recps = <<>>
    /\ next_handler \in {"data", "store"} => recps # <<>>
    /\ next_handler = "store" => data.opened # None

\* A client whose dot is answered with 250 may rely on the mail being in the
\* mailbox of every recipient, although save_mail may fail half way.
AcknowledgedMeansStored ==
    \A c \in Clients : \A i \in 1 .. Len(responses[c]) :
        LET r == responses[c][i]
        IN  r.verb = "dot" /\ r.status = "ok" =>
                \E m \in Range(mails) :
                    /\ m.closed = [from |-> c, number |-> r.number]
                    /\ m.recps # <<>> /\ m.copies = Len(m.recps)

\* The lines of text that the client wrote whose data command opened it are those
\* from there up to the number last, in order.
HoldsLinesUpTo(opened, text, last) ==
    LET own == {i \in DOMAIN text : text[i].from = opened.from}
    IN  /\ {text[i].number : i \in own} = opened.number + 1 .. last
        /\ \A i, j \in own : i < j => text[i].number < text[j].number

\* When the network is in order, a mail opened and closed by one client holds every
\* line it typed in between, in order, whatever others send into the transaction.
LinesOfTheWriterKept ==
    \A m \in Range(mails) :
        faults = 0 /\ m.opened.from = m.closed.from =>
            HoldsLinesUpTo(m.opened, m.text, m.closed.number - 1)

\* A client waits for nothing only after an empty line, a lost datagram, a line that
\* went into the text of a mail, or the death of the server in save_mail.
WaitsForSomething ==
    \A c \in Clients :
        cpc[c] = "waiting" /\ c \notin unanswered =>
            \/ responses[c] # <<>>
            \/ \E i \in 1 .. Len(requests[c]) : requests[c][i].awaited

\* A client reads the response to an earlier line for that to its last one only if
\* the server answered a line of its data mode instead of storing it.
LateOnlyAfterRefusedData ==
    [][\A c \in Clients : \A i \in 1 .. Len(responses[c]) :
           TakeResponse(c, i) /\ responses[c][i].number # sent[c] => c \in answered]_vars
=============================================================================
