----------------------------- MODULE SmtpProofs -----------------------------
(***************************************************************************)
(* What holds of smtp_server.py and smtp_client.py for any number of       *)
(* clients, mailboxes and lines, and any number of datagrams lost or       *)
(* overtaken and interrupts of the server.                                 *)
(***************************************************************************)
EXTENDS SmtpSession, SequenceTheorems, TLAPS

\* A queue of datagrams without its i-th: the others, in their order.
LEMMA WithoutElements ==
    ASSUME NEW S, NEW q \in Seq(S), NEW i \in 1 .. Len(q)
    PROVE  /\ Without(q, i) \in Seq(S)
           /\ Len(Without(q, i)) = Len(q) - 1
           /\ \A j \in 1 .. Len(q) - 1 :
                  Without(q, i)[j] = IF j < i THEN q[j] ELSE q[j + 1]
<1> DEFINE a == SubSeq(q, 1, i - 1)
           b == SubSeq(q, i + 1, Len(q))
<1>1. /\ a \in Seq(S) /\ Len(a) = i - 1
      /\ \A j \in 1 .. i - 1 : a[j] = q[j]
  OBVIOUS
<1>2. /\ b \in Seq(S) /\ Len(b) = Len(q) - i
      /\ \A j \in 1 .. Len(q) - i : b[j] = q[j + i]
  OBVIOUS
<1>3. Without(q, i) = a \o b
  BY DEF Without
<1> HIDE DEF a, b
<1>4. /\ a \o b \in Seq(S) /\ Len(a \o b) = Len(a) + Len(b)
      /\ \A j \in 1 .. Len(a) + Len(b) : (a \o b)[j] = IF j <= Len(a) THEN a[j] ELSE b[j - Len(a)]
  <2>1. a \in Seq(S) /\ b \in Seq(S)
    BY <1>1, <1>2
  <2> QED
    BY <2>1, ConcatProperties, Zenon
<1>5. Len(a) + Len(b) = Len(q) - 1
  BY <1>1, <1>2
<1>6. ASSUME NEW j \in 1 .. Len(q) - 1
      PROVE  (a \o b)[j] = IF j < i THEN q[j] ELSE q[j + 1]
  <2>1. CASE j < i
    BY <2>1, <1>1, <1>4, <1>5
  <2>2. CASE ~ (j < i)
    <3>1. (a \o b)[j] = b[j - (i - 1)]
      BY <2>2, <1>1, <1>4, <1>5
    <3>2. j - (i - 1) \in 1 .. Len(q) - i /\ (j - (i - 1)) + i = j + 1
      BY <2>2
    <3> QED
      BY <3>1, <3>2, <1>2, <2>2
  <2> QED
    BY <2>1, <2>2
<1> QED
  BY <1>3, <1>4, <1>5, <1>6

\* What is left was there, and nothing but the i-th is missing.
LEMMA WithoutKeeps ==
    ASSUME NEW S, NEW q \in Seq(S), NEW i \in 1 .. Len(q)
    PROVE  /\ \A j \in 1 .. Len(Without(q, i)) :
                  \E k \in 1 .. Len(q) : k # i /\ Without(q, i)[j] = q[k]
           /\ \A k \in 1 .. Len(q) : k # i =>
                  \E j \in 1 .. Len(Without(q, i)) : Without(q, i)[j] = q[k]
<1>1. ASSUME NEW j \in 1 .. Len(Without(q, i))
      PROVE  \E k \in 1 .. Len(q) : k # i /\ Without(q, i)[j] = q[k]
  <2>1. j \in 1 .. Len(q) - 1
    BY WithoutElements
  <2>2. CASE j < i
    BY <2>1, <2>2, WithoutElements
  <2>3. CASE ~ (j < i)
    <3>1. j + 1 \in 1 .. Len(q) /\ j + 1 # i
      BY <2>1, <2>3
    <3> QED
      BY <2>1, <2>3, <3>1, WithoutElements
  <2> QED
    BY <2>2, <2>3
<1>2. ASSUME NEW k \in 1 .. Len(q), k # i
      PROVE  \E j \in 1 .. Len(Without(q, i)) : Without(q, i)[j] = q[k]
  <2>1. CASE k < i
    <3>1. k \in 1 .. Len(q) - 1
      BY <2>1
    <3> QED
      BY <2>1, <3>1, WithoutElements
  <2>2. CASE k > i
    <3>1. k - 1 \in 1 .. Len(q) - 1 /\ ~ (k - 1 < i) /\ (k - 1) + 1 = k
      BY <2>2
    <3>2. Without(q, i)[k - 1] = q[k]
      BY <3>1, WithoutElements
    <3> QED
      BY <3>1, <3>2, WithoutElements
  <2> QED
    BY <1>2, <2>1, <2>2
<1> QED
  BY <1>1, <1>2

-----------------------------------------------------------------------------
(***************************************************************************)
(* The handlers.  Each takes a datagram and leaves a transaction that fits *)
(* the handler to come; that it does so across a restart of the server     *)
(* rests on the server being back at helo when it waits for a greeting.    *)
(***************************************************************************)
FreshGreeting == server = "greeting" => next_handler = "helo"

TransactionOK ==
    /\ server \in {"down", "greeting", "serving"}
    /\ next_handler \in {"helo", "rcpt", "data", "store"}
    /\ mail_from \in Stamps \cup {None} /\ recps \in Seq(Mailboxes) /\ data \in Data
    /\ mails \in Seq([closed : Stamps, opened : Stamps, text : Seq(Stamps),
                      recps : Seq(Mailboxes), copies : Nat])
    /\ HandlerFitsMail /\ FreshGreeting

\* The stamp of a datagram is one, and is not None.
LEMMA StampIsOne ==
    ASSUME NEW d \in Datagrams
    PROVE  Stamp(d) \in Stamps /\ Stamp(d) # None
<1>1. Stamp(d) \in Stamps
  BY DEF Stamp, Stamps, Datagrams
<1> QED
  BY <1>1, SmtpAssumption

\* A transaction thrown away is one of the right shape.
LEMMA ResetOK ==
    ASSUME Reset
    PROVE  /\ next_handler' = "helo" /\ mail_from' = None /\ recps' = <<>>
           /\ recps' \in Seq(Mailboxes) /\ data' \in Data
<1>1. NoData \in Data
  BY DEF NoData, Data
<1> QED
  BY <1>1 DEF Reset

\* A mail is saved as it was composed.
LEMMA SaveMailOK ==
    ASSUME TransactionOK, next_handler = "store",
           NEW d \in Datagrams, NEW copies \in Nat, SaveMail(d, copies)
    PROVE  mails' \in Seq([closed : Stamps, opened : Stamps, text : Seq(Stamps),
                           recps : Seq(Mailboxes), copies : Nat])
<1>1. data.opened \in Stamps /\ data.text \in Seq(Stamps)
  BY DEF TransactionOK, HandlerFitsMail, Data
<1>2. Stamp(d) \in Stamps
  BY StampIsOne
<1>3. [closed |-> Stamp(d), opened |-> data.opened, text |-> data.text,
       recps |-> recps, copies |-> copies]
        \in [closed : Stamps, opened : Stamps, text : Seq(Stamps),
             recps : Seq(Mailboxes), copies : Nat]
  BY <1>1, <1>2 DEF TransactionOK
<1> QED
  BY <1>3, AppendProperties DEF SaveMail, TransactionOK

\* Every handler leaves a transaction of which it knows enough.
LEMMA HandlerStep ==
    ASSUME TransactionOK, NEW d \in Datagrams, Connect(d) \/ Accept(d)
    PROVE  TransactionOK'
<1> USE DEF FreshGreeting
<1>1. CASE Connect(d)
  BY <1>1 DEF Connect, TransactionOK, HandlerFitsMail
<1>2. CASE Accept(d) /\ Refuse(d)
  BY <1>2 DEF Accept, Refuse, transaction, TransactionOK, HandlerFitsMail
<1>3. ASSUME Accept(d), next_handler = "helo", HandleMail(d) PROVE TransactionOK'
  BY <1>3, StampIsOne DEF Accept, HandleMail, TransactionOK, HandlerFitsMail
<1>4. ASSUME Accept(d), next_handler \in {"rcpt", "data"}, HandleRcpt(d), ~ Refuse(d)
      PROVE  TransactionOK'
  <2>1. IsValidMail(d.arg) /\ recps' = Append(recps, d.arg) /\ next_handler' = "data"
        /\ UNCHANGED <<server, mail_from, data, mails>>
    BY <1>4 DEF HandleRcpt
  <2>2. d.arg \in Mailboxes
    BY <2>1 DEF IsValidMail
  <2>3. recps' \in Seq(Mailboxes) /\ recps' # <<>>
    BY <2>1, <2>2 DEF TransactionOK
  <2> QED
    BY <1>4, <2>1, <2>3 DEF Accept, TransactionOK, HandlerFitsMail
<1>5. ASSUME Accept(d), next_handler = "data", d.verb = "data", HandleData(d), ~ Refuse(d)
      PROVE  TransactionOK'
  <2>1. /\ data' = [opened |-> Stamp(d), text |-> <<>>] /\ next_handler' = "store"
        /\ UNCHANGED <<server, mail_from, recps, mails>>
    BY <1>5 DEF HandleData
  <2>2. data' \in Data /\ data'.opened # None
    BY <2>1, StampIsOne DEF Data
  <2> QED
    BY <1>5, <2>1, <2>2 DEF Accept, TransactionOK, HandlerFitsMail
<1>6. ASSUME Accept(d), next_handler = "store", StoreText(d) PROVE TransactionOK'
  <2>1. Append(data.text, Stamp(d)) \in Seq(Stamps)
    BY StampIsOne DEF TransactionOK, Data
  <2>2. data' \in Data /\ data'.opened = data.opened
    <3> DEFINE text == Append(data.text, Stamp(d))
    <3>1. text \in Seq(Stamps) /\ data' = [data EXCEPT !.text = text] /\ data \in Data
      BY <1>6, <2>1 DEF StoreText, TransactionOK
    <3> HIDE DEF text
    <3> QED
      BY <3>1 DEF Data
  <2> QED
    BY <1>6, <2>2 DEF Accept, StoreText, TransactionOK, HandlerFitsMail
<1>7. ASSUME Accept(d), next_handler = "store", StoreMail(d) PROVE TransactionOK'
  <2>1. Len(recps) \in Nat
    BY DEF TransactionOK
  <2>2. SaveMail(d, Len(recps)) /\ Reset /\ UNCHANGED server
    BY <1>7 DEF StoreMail
  <2> QED
    BY <1>7, <2>1, <2>2, ResetOK, SaveMailOK DEF Accept, TransactionOK, HandlerFitsMail
<1>8. ASSUME Accept(d), next_handler = "store", SaveFails(d) PROVE TransactionOK'
  <2>1. PICK copies \in 0 .. Len(recps) - 1 : SaveMail(d, copies)
    BY <1>8 DEF SaveFails
  <2>2. copies \in Nat
    BY <2>1 DEF TransactionOK
  <2> QED
    BY <1>8, <2>1, <2>2, SaveMailOK DEF SaveFails, transaction, TransactionOK, HandlerFitsMail
<1>9. CASE next_handler = "helo" /\ Accept(d)
  BY <1>9, <1>2, <1>3 DEF Accept, Handle, HandleHelo, Refuse, TransactionOK, HandlerFitsMail, transaction
<1> QED
  BY <1>1, <1>2, <1>4, <1>5, <1>6, <1>7, <1>8, <1>9 DEF Accept, Handle, HandleData, HandleRcpt

-----------------------------------------------------------------------------
(***************************************************************************)
(* Who waits.  A datagram is answered, or its sender is entered among      *)
(* those that wait in vain, if it waits.  The datagrams of a client are    *)
(* under its own name; a dot is always waited for, so that the answer to a *)
(* mail never comes unexpected.                                            *)
(***************************************************************************)
Reply(d) ==
    \/ NoResponse(d)
    \/ /\ d.awaited \/ next_handler # "store"
       /\ \E status \in {"ready", "ok", "error"} : Respond(d, status)

OwnDatagrams ==
    \A c \in Clients : \A i \in 1 .. Len(requests[c]) :
        /\ requests[c][i].from = c
        /\ requests[c][i].verb = "dot" => requests[c][i].awaited

NetworkOK ==
    /\ cpc \in [Clients -> {"start", "waiting", "prompt", "ended"}]
    /\ wait_for_response \in [Clients -> BOOLEAN] /\ sent \in [Clients -> Nat]
    /\ requests \in [Clients -> Seq(Datagrams)] /\ responses \in [Clients -> Seq(Responses)]
    /\ faults \in 0 .. MaxFaults
    /\ answered \subseteq Clients /\ unanswered \subseteq Clients
    /\ OwnDatagrams

\* Whatever handler a datagram meets, it is answered or its sender told off.
LEMMA ReplyStep ==
    ASSUME TransactionOK, NEW d \in Datagrams, d.verb = "dot" => d.awaited,
           Connect(d) \/ Accept(d)
    PROVE  Reply(d)
<1>1. CASE Connect(d)
  BY <1>1 DEF Connect, Reply, TransactionOK, FreshGreeting
<1>2. CASE Accept(d) /\ next_handler # "store"
  BY <1>2 DEF Accept, Handle, HandleHelo, HandleMail, HandleRcpt, HandleData, Refuse, Reply
<1>3. CASE Accept(d) /\ next_handler = "store"
  BY <1>3 DEF Accept, Handle, StoreText, StoreMail, SaveFails, Reply
<1> QED
  BY <1>1, <1>2, <1>3

\* An answer goes to the client the datagram came from.
LEMMA ReplyOK ==
    ASSUME NetworkOK, NEW d \in Datagrams, Reply(d)
    PROVE  /\ responses' \in [Clients -> Seq(Responses)]
           /\ answered' \subseteq Clients /\ unanswered' \subseteq Clients
<1>1. d.from \in Clients
  BY DEF Datagrams
<1>2. CASE NoResponse(d)
  BY <1>1, <1>2 DEF NoResponse, NetworkOK
<1>3. ASSUME NEW status \in {"ready", "ok", "error"}, Respond(d, status)
      PROVE  /\ responses' \in [Clients -> Seq(Responses)]
             /\ answered' \subseteq Clients /\ unanswered' \subseteq Clients
  <2> DEFINE r == [status |-> status, verb |-> d.verb, number |-> d.number]
  <2>1. r \in Responses
    BY DEF Datagrams, Responses
  <2>2. Append(responses[d.from], r) \in Seq(Responses)
    BY <1>1, <2>1 DEF NetworkOK
  <2>3. responses' \in [Clients -> Seq(Responses)]
    BY <1>3, <2>2 DEF Respond, NetworkOK
  <2> QED
    BY <1>1, <1>3, <2>3 DEF Respond, NetworkOK
<1> QED
  BY <1>2, <1>3 DEF Reply

\* A datagram less is no harm to the types of the queues.
LEMMA UnreadOK ==
    ASSUME NetworkOK, NEW c \in Clients, NEW i \in 1 .. Len(requests[c]),
           requests' = [requests EXCEPT ![c] = Without(@, i)]
    PROVE  requests' \in [Clients -> Seq(Datagrams)] /\ OwnDatagrams'
<1>1. requests[c] \in Seq(Datagrams)
  BY DEF NetworkOK
<1>2. Without(requests[c], i) \in Seq(Datagrams)
  BY <1>1, WithoutElements
<1>3. requests' \in [Clients -> Seq(Datagrams)]
  BY <1>2 DEF NetworkOK
<1>4. ASSUME NEW b \in Clients, NEW j \in 1 .. Len(requests'[b])
      PROVE  \E k \in 1 .. Len(requests[b]) : requests'[b][j] = requests[b][k]
  <2>1. CASE b = c
    <3>1. requests'[b] = Without(requests[c], i)
      BY <2>1 DEF NetworkOK
    <3>2. \A l \in 1 .. Len(Without(requests[c], i)) :
              \E k \in 1 .. Len(requests[c]) : k # i /\ Without(requests[c], i)[l] = requests[c][k]
      BY <1>1, WithoutKeeps, Zenon
    <3> QED
      BY <2>1, <3>1, <3>2
  <2>2. CASE b # c
    BY <2>2 DEF NetworkOK
  <2> QED
    BY <2>1, <2>2
<1>5. ASSUME NEW b \in Clients, NEW j \in 1 .. Len(requests'[b])
      PROVE  requests'[b][j].from = b /\ (requests'[b][j].verb = "dot" => requests'[b][j].awaited)
  <2>1. PICK k \in 1 .. Len(requests[b]) : requests'[b][j] = requests[b][k]
    BY <1>4
  <2> QED
    BY <2>1 DEF NetworkOK, OwnDatagrams
<1> QED
  BY <1>3, <1>5 DEF OwnDatagrams

\* A datagram more is none to them, if it is its client's own.
LEMMA SendOK ==
    ASSUME NetworkOK, NEW c \in Clients, NEW verb \in Verbs \cup {"connect"},
           NEW arg \in Arguments, NEW number \in Nat, NEW awaited \in BOOLEAN,
           Send(c, verb, arg, number, awaited), verb = "dot" => awaited
    PROVE  requests' \in [Clients -> Seq(Datagrams)] /\ OwnDatagrams'
<1> DEFINE d == [verb |-> verb, arg |-> arg, from |-> c, number |-> number,
                 awaited |-> awaited]
<1>1. d \in Datagrams /\ d.from = c /\ (d.verb = "dot" => d.awaited)
  BY DEF Datagrams
<1>2. requests[c] \in Seq(Datagrams) /\ requests' = [requests EXCEPT ![c] = Append(@, d)]
  BY DEF Send, NetworkOK
<1> HIDE DEF d
<1>3. /\ Append(requests[c], d) \in Seq(Datagrams)
      /\ Len(Append(requests[c], d)) = Len(requests[c]) + 1
      /\ \A i \in 1 .. Len(requests[c]) : Append(requests[c], d)[i] = requests[c][i]
      /\ Append(requests[c], d)[Len(requests[c]) + 1] = d
  BY <1>1, <1>2, AppendProperties
<1>4. requests' \in [Clients -> Seq(Datagrams)]
  BY <1>2, <1>3 DEF NetworkOK
<1>5. ASSUME NEW b \in Clients, NEW i \in 1 .. Len(requests'[b])
      PROVE  requests'[b][i].from = b /\ (requests'[b][i].verb = "dot" => requests'[b][i].awaited)
  <2>1. CASE b # c
    BY <1>2, <2>1 DEF NetworkOK, OwnDatagrams
  <2>2. CASE b = c
    <3>1. requests'[b] = Append(requests[c], d)
      BY <1>2, <2>2 DEF NetworkOK
    <3>2. i \in 1 .. Len(requests[c]) \/ i = Len(requests[c]) + 1
      BY <1>2, <1>3, <3>1
    <3> QED
      BY <1>1, <1>3, <2>2, <3>1, <3>2 DEF NetworkOK, OwnDatagrams
  <2> QED
    BY <2>1, <2>2
<1> QED
  BY <1>4, <1>5 DEF OwnDatagrams

\* The oldest datagram is one of them: losing it is as if it were read.
LEMMA TailIsWithout ==
    ASSUME NEW S, NEW q \in Seq(S), q # <<>>
    PROVE  1 \in 1 .. Len(q) /\ Tail(q) = Without(q, 1) /\ Head(q) = q[1]
<1>1. SubSeq(q, 1, 0) = <<>> /\ SubSeq(q, 2, Len(q)) = Tail(q)
  OBVIOUS
<1>2. <<>> \o Tail(q) = Tail(q)
  OBVIOUS
<1> QED
  BY <1>1, <1>2 DEF Without

Safe == TransactionOK /\ NetworkOK

\* A fresh server and clients that have not started.
LEMMA SafeInit == Init => Safe
<1> SUFFICES ASSUME Init PROVE Safe
  OBVIOUS
<1>1. NoData \in Data /\ 0 \in 0 .. MaxFaults
  BY SmtpAssumption DEF NoData, Data
<1>2. TransactionOK
  BY <1>1 DEF Init, TransactionOK, HandlerFitsMail, FreshGreeting
<1>3. NetworkOK
  BY <1>1 DEF Init, NetworkOK, OwnDatagrams
<1> QED
  BY <1>2, <1>3 DEF Safe

\* A fault more is one within the bound.
LEMMA FaultsOK ==
    ASSUME NetworkOK, faults' = faults \/ faults' = faults + 1, faults' <= MaxFaults
    PROVE  faults' \in 0 .. MaxFaults
  BY SmtpAssumption DEF NetworkOK

\* One step per action of the server, the network and the clients.
LEMMA SafeStep == Safe /\ [Next]_vars => Safe'
<1> SUFFICES ASSUME Safe, [Next]_vars PROVE TransactionOK' /\ NetworkOK'
  BY DEF Safe
<1> USE DEF Safe
<1>1. CASE UNCHANGED vars
  BY <1>1 DEF vars, transaction, clientVars, TransactionOK, HandlerFitsMail, FreshGreeting,
              NetworkOK, OwnDatagrams
<1>2. ASSUME NEW c \in Clients, NEW i \in 1 .. Len(requests[c]), Receive(c, i)
      PROVE  TransactionOK' /\ NetworkOK'
  <2> DEFINE d == requests[c][i]
  <2>1. d \in Datagrams /\ (d.verb = "dot" => d.awaited)
    BY DEF NetworkOK, OwnDatagrams
  <2>2. Connect(d) \/ Accept(d)
    BY <1>2 DEF Receive
  <2>3. TransactionOK' /\ Reply(d)
    BY <2>1, <2>2, HandlerStep, ReplyStep
  <2>4. requests' \in [Clients -> Seq(Datagrams)] /\ OwnDatagrams'
    BY <1>2, UnreadOK DEF Receive
  <2>5. faults' \in 0 .. MaxFaults
    BY <1>2, FaultsOK DEF Receive, Unread
  <2> QED
    BY <1>2, <2>1, <2>3, <2>4, <2>5, ReplyOK DEF Receive, clientVars, NetworkOK
<1>3. CASE StartServer
  BY <1>3, ResetOK DEF StartServer, clientVars, TransactionOK, HandlerFitsMail, FreshGreeting,
              NetworkOK, OwnDatagrams
<1>4. CASE StopServer
  <2>1. faults' \in 0 .. MaxFaults
    BY <1>4, SmtpAssumption DEF StopServer, NetworkOK
  <2> QED
    BY <1>4, <2>1 DEF StopServer, transaction, clientVars, TransactionOK, HandlerFitsMail,
              FreshGreeting, NetworkOK, OwnDatagrams
<1>5. ASSUME NEW c \in Clients, LoseRequest(c) PROVE TransactionOK' /\ NetworkOK'
  <2>1. /\ 1 \in 1 .. Len(requests[c]) /\ Head(requests[c]) = requests[c][1]
        /\ Tail(requests[c]) = Without(requests[c], 1)
    BY <1>5, TailIsWithout DEF LoseRequest, NetworkOK
  <2>2. requests' \in [Clients -> Seq(Datagrams)] /\ OwnDatagrams'
    BY <1>5, <2>1, UnreadOK DEF LoseRequest
  <2>3. Head(requests[c]) \in Datagrams
    BY <2>1 DEF NetworkOK
  <2>4. unanswered' \subseteq Clients
    BY <1>5, <2>3 DEF LoseRequest, NoResponse, NetworkOK, Datagrams
  <2>5. faults' \in 0 .. MaxFaults
    BY <1>5, FaultsOK DEF LoseRequest
  <2> QED
    BY <1>5, <2>2, <2>4, <2>5 DEF LoseRequest, NoResponse, transaction, clientVars,
              TransactionOK, HandlerFitsMail, FreshGreeting, NetworkOK
<1>6. ASSUME NEW c \in Clients, LoseResponse(c) PROVE TransactionOK' /\ NetworkOK'
  <2>1. Tail(responses[c]) \in Seq(Responses)
    BY <1>6 DEF LoseResponse, NetworkOK
  <2>2. responses' \in [Clients -> Seq(Responses)]
    BY <1>6, <2>1 DEF LoseResponse, NetworkOK
  <2>3. faults' \in 0 .. MaxFaults
    BY <1>6, SmtpAssumption DEF LoseResponse, NetworkOK
  <2> QED
    BY <1>6, <2>2, <2>3 DEF LoseResponse, transaction, clientVars,
              TransactionOK, HandlerFitsMail, FreshGreeting, NetworkOK, OwnDatagrams
<1>7. ASSUME NEW c \in Clients, StartClient(c) PROVE TransactionOK' /\ NetworkOK'
  <2>1. requests' \in [Clients -> Seq(Datagrams)] /\ OwnDatagrams'
    BY <1>7, SendOK DEF StartClient, Arguments
  <2> QED
    BY <1>7, <2>1 DEF StartClient, transaction,
              TransactionOK, HandlerFitsMail, FreshGreeting, NetworkOK
<1>8. ASSUME NEW c \in Clients, NEW i \in 1 .. Len(responses[c]), TakeResponse(c, i)
      PROVE  TransactionOK' /\ NetworkOK'
  <2>1. Without(responses[c], i) \in Seq(Responses)
    BY WithoutElements DEF NetworkOK
  <2>2. responses' \in [Clients -> Seq(Responses)]
    BY <1>8, <2>1 DEF TakeResponse, NetworkOK
  <2>3. faults' \in 0 .. MaxFaults
    BY <1>8, FaultsOK DEF TakeResponse, Unread
  <2> QED
    BY <1>8, <2>2, <2>3 DEF TakeResponse, transaction,
              TransactionOK, HandlerFitsMail, FreshGreeting, NetworkOK, OwnDatagrams
<1>9. ASSUME NEW c \in Clients, NEW line \in Typed, TypeLine(c, line)
      PROVE  TransactionOK' /\ NetworkOK'
  <2>1. line.verb \in Verbs /\ line.arg \in Arguments
    BY SmtpAssumption
  <2>2. WaitsAfter(c, line) \in BOOLEAN /\ (line.verb = "dot" => WaitsAfter(c, line))
    BY DEF WaitsAfter, NetworkOK
  <2>3. wait_for_response' \in [Clients -> BOOLEAN] /\ wait_for_response'[c] = WaitsAfter(c, line)
    BY <1>9, <2>2 DEF TypeLine, NetworkOK
  <2>4. sent[c] + 1 \in Nat
    BY DEF NetworkOK
  <2>5. requests' \in [Clients -> Seq(Datagrams)] /\ OwnDatagrams'
    BY <1>9, <2>1, <2>2, <2>3, <2>4, SendOK DEF TypeLine
  <2>6. sent' \in [Clients -> Nat]
    BY <1>9, <2>4 DEF TypeLine, NetworkOK
  <2>7. cpc' \in [Clients -> {"start", "waiting", "prompt", "ended"}]
    BY <1>9 DEF TypeLine, AfterLine, NetworkOK
  <2> QED
    BY <1>9, <2>3, <2>5, <2>6, <2>7 DEF TypeLine, transaction,
              TransactionOK, HandlerFitsMail, FreshGreeting, NetworkOK
<1>10. ASSUME NEW c \in Clients, TypeNothing(c) PROVE TransactionOK' /\ NetworkOK'
  BY <1>10 DEF TypeNothing, AfterLine, transaction,
              TransactionOK, HandlerFitsMail, FreshGreeting, NetworkOK, OwnDatagrams
<1>11. ASSUME NEW c \in Clients, Quit(c) PROVE TransactionOK' /\ NetworkOK'
  BY <1>11 DEF Quit, transaction,
              TransactionOK, HandlerFitsMail, FreshGreeting, NetworkOK, OwnDatagrams
<1> QED
  BY <1>1, <1>2, <1>3, <1>4, <1>5, <1>6, <1>7, <1>8, <1>9, <1>10, <1>11 DEF Next, Server, Client

\* What the runs call TypeOK, and the first of the invariants.
LEMMA SafeMeans == Safe => TypeOK /\ HandlerFitsMail
  BY DEF Safe, TransactionOK, NetworkOK, TypeOK

(***************************************************************************)
(* A handler knows no more of a mail than what has been accepted, whoever  *)
(* sends what in which order: smtp_server.py, the handle_ methods.         *)
(***************************************************************************)
THEOREM HandlerSafety == Spec => [](TypeOK /\ HandlerFitsMail)
<1>1. Spec => []Safe
  BY SafeInit, SafeStep, PTL DEF Spec
<1> QED
  BY <1>1, SafeMeans, PTL

-----------------------------------------------------------------------------
(***************************************************************************)
(* What a client waits for.  Pending are its datagrams that it waits for   *)
(* the answer to.  When the i-th datagram is taken from the queue, what    *)
(* was behind it moves up, and nothing else changes.                       *)
(***************************************************************************)
Pending(c) == {i \in 1 .. Len(requests[c]) : requests[c][i].awaited}
Before(j, i) == IF j < i THEN j ELSE j + 1
Served(c) == responses[c] # <<>> \/ Pending(c) # {}

\* A datagram behind the one taken out moves up by one place.
LEMMA UnreadMovesUp ==
    ASSUME NetworkOK, NEW c \in Clients, NEW i \in 1 .. Len(requests[c]),
           requests' = [requests EXCEPT ![c] = Without(@, i)]
    PROVE  /\ \A b \in Clients : b # c => requests'[b] = requests[b]
           /\ \A j \in 1 .. Len(requests'[c]) :
                  /\ Before(j, i) \in 1 .. Len(requests[c]) /\ Before(j, i) # i
                  /\ requests'[c][j] = requests[c][Before(j, i)]
<1>1. requests[c] \in Seq(Datagrams)
  BY DEF NetworkOK
<1>2. requests'[c] = Without(requests[c], i) /\ \A b \in Clients : b # c => requests'[b] = requests[b]
  BY DEF NetworkOK
<1>3. /\ Len(Without(requests[c], i)) = Len(requests[c]) - 1
      /\ \A j \in 1 .. Len(requests[c]) - 1 :
             Without(requests[c], i)[j] = IF j < i THEN requests[c][j] ELSE requests[c][j + 1]
  BY <1>1, WithoutElements, Zenon
<1>4. ASSUME NEW j \in 1 .. Len(requests'[c])
      PROVE  /\ Before(j, i) \in 1 .. Len(requests[c]) /\ Before(j, i) # i
             /\ requests'[c][j] = requests[c][Before(j, i)]
  BY <1>1, <1>2, <1>3 DEF Before
<1> QED
  BY <1>2, <1>4

\* What is left in a queue was in it before, and is not the one taken out.
LEMMA UnreadKeeps ==
    ASSUME NetworkOK, NEW c \in Clients, NEW i \in 1 .. Len(requests[c]),
           requests' = [requests EXCEPT ![c] = Without(@, i)],
           NEW k \in 1 .. Len(requests[c]), k # i
    PROVE  \E j \in 1 .. Len(requests'[c]) : requests'[c][j] = requests[c][k]
<1>1. requests[c] \in Seq(Datagrams)
  BY DEF NetworkOK
<1>2. requests'[c] = Without(requests[c], i)
  BY DEF NetworkOK
<1>3. \A l \in 1 .. Len(requests[c]) : l # i =>
          \E j \in 1 .. Len(Without(requests[c], i)) : Without(requests[c], i)[j] = requests[c][l]
  BY <1>1, WithoutKeeps, Zenon
<1> QED
  BY <1>2, <1>3

\* A line that is sent goes behind the others.
LEMMA SendAppends ==
    ASSUME NetworkOK, NEW c \in Clients, NEW d \in Datagrams,
           requests' = [requests EXCEPT ![c] = Append(@, d)]
    PROVE  /\ \A b \in Clients : b # c => requests'[b] = requests[b]
           /\ Len(requests'[c]) = Len(requests[c]) + 1 /\ Len(requests[c]) \in Nat
           /\ \A i \in 1 .. Len(requests[c]) : requests'[c][i] = requests[c][i]
           /\ requests'[c][Len(requests[c]) + 1] = d
<1>1. requests[c] \in Seq(Datagrams)
  BY DEF NetworkOK
<1>2. requests'[c] = Append(requests[c], d) /\ \A b \in Clients : b # c => requests'[b] = requests[b]
  BY DEF NetworkOK
<1> QED
  BY <1>1, <1>2, AppendProperties

\* A client that types a line goes to wait exactly if the line is awaited.
LEMMA TypeLineSends ==
    ASSUME NetworkOK, NEW c \in Clients, NEW line \in Typed, TypeLine(c, line)
    PROVE  /\ \A b \in Clients : b # c => requests'[b] = requests[b] /\ cpc'[b] = cpc[b]
           /\ Len(requests'[c]) = Len(requests[c]) + 1 /\ Len(requests[c]) \in Nat
           /\ \A i \in 1 .. Len(requests[c]) : requests'[c][i] = requests[c][i]
           /\ cpc'[c] \in {"waiting", "prompt"}
           /\ requests'[c][Len(requests[c]) + 1].awaited <=> cpc'[c] = "waiting"
           /\ requests'[c][Len(requests[c]) + 1].number = sent[c] + 1
<1>1. line.verb \in Verbs /\ line.arg \in Arguments /\ sent[c] + 1 \in Nat
  BY SmtpAssumption DEF NetworkOK
<1>2. wait_for_response'[c] \in BOOLEAN
  BY DEF TypeLine, WaitsAfter, NetworkOK
<1>3. PICK d \in Datagrams : d = [verb |-> line.verb, arg |-> line.arg, from |-> c,
                                  number |-> sent[c] + 1, awaited |-> wait_for_response'[c]]
  BY <1>1, <1>2 DEF Datagrams
<1>4. requests' = [requests EXCEPT ![c] = Append(@, d)]
  BY <1>3 DEF TypeLine, Send
<1>5. cpc' = [cpc EXCEPT ![c] = IF d.awaited THEN "waiting" ELSE "prompt"]
  BY <1>3 DEF TypeLine, AfterLine
<1>6. d.number = sent[c] + 1
  BY <1>3
<1> QED
  BY <1>4, <1>5, <1>6, SendAppends DEF NetworkOK

\* The connect datagram is awaited, and is numbered 0.
LEMMA StartClientSends ==
    ASSUME NetworkOK, NEW c \in Clients, StartClient(c)
    PROVE  /\ \A b \in Clients : b # c => requests'[b] = requests[b]
           /\ Len(requests'[c]) = Len(requests[c]) + 1 /\ Len(requests[c]) \in Nat
           /\ \A i \in 1 .. Len(requests[c]) : requests'[c][i] = requests[c][i]
           /\ requests'[c][Len(requests[c]) + 1].awaited
           /\ requests'[c][Len(requests[c]) + 1].number = 0
<1>1. PICK d \in Datagrams : d = [verb |-> "connect", arg |-> Malformed, from |-> c,
                                  number |-> 0, awaited |-> TRUE]
  BY DEF Datagrams, Arguments
<1>2. requests' = [requests EXCEPT ![c] = Append(@, d)] /\ d.awaited /\ d.number = 0
  BY <1>1 DEF StartClient, Send
<1> QED
  BY <1>2, SendAppends

\* An answer goes behind the others, unless its receiver has ended.
LEMMA RespondAppends ==
    ASSUME NetworkOK, NEW d \in Datagrams, NEW status \in {"ready", "ok", "error"},
           Respond(d, status)
    PROVE  /\ \A b \in Clients : b # d.from => responses'[b] = responses[b]
           /\ cpc[d.from] = "ended" => responses' = responses
           /\ cpc[d.from] # "ended" =>
                  /\ Len(responses'[d.from]) = Len(responses[d.from]) + 1
                  /\ Len(responses[d.from]) \in Nat
                  /\ \A i \in 1 .. Len(responses[d.from]) :
                         responses'[d.from][i] = responses[d.from][i]
                  /\ responses'[d.from][Len(responses[d.from]) + 1]
                         = [status |-> status, verb |-> d.verb, number |-> d.number]
                  /\ responses'[d.from] # <<>>
<1> DEFINE r == [status |-> status, verb |-> d.verb, number |-> d.number]
<1>1. r \in Responses /\ d.from \in Clients
  BY DEF Datagrams, Responses
<1>2. responses[d.from] \in Seq(Responses)
  BY <1>1 DEF NetworkOK
<1>3. responses' = IF cpc[d.from] = "ended" THEN responses
                   ELSE [responses EXCEPT ![d.from] = Append(@, r)]
  BY DEF Respond
<1> HIDE DEF r
<1>4. cpc[d.from] # "ended" => responses'[d.from] = Append(responses[d.from], r)
  BY <1>1, <1>3 DEF NetworkOK
<1>5. /\ Len(Append(responses[d.from], r)) = Len(responses[d.from]) + 1
      /\ Append(responses[d.from], r) # <<>>
      /\ \A i \in 1 .. Len(responses[d.from]) : Append(responses[d.from], r)[i] = responses[d.from][i]
      /\ Append(responses[d.from], r)[Len(responses[d.from]) + 1] = r
  BY <1>1, <1>2, AppendProperties
<1>6. \A b \in Clients : b # d.from => responses'[b] = responses[b]
  BY <1>1, <1>3 DEF NetworkOK
<1>7. Len(responses[d.from]) \in Nat
  BY <1>2
<1> QED
  BY <1>3, <1>4, <1>5, <1>6, <1>7 DEF r

\* Nobody waits at the start.
LEMMA WaitsInit == Init => WaitsForSomething
  BY DEF Init, WaitsForSomething

\* Nothing a client waits for goes away without its being among the unanswered.
LEMMA WaitsStep == Safe /\ WaitsForSomething /\ [Next]_vars => WaitsForSomething'
<1> SUFFICES ASSUME Safe, WaitsForSomething, [Next]_vars,
                    NEW b \in Clients, cpc'[b] = "waiting", b \notin unanswered'
             PROVE  Served(b)'
  BY DEF WaitsForSomething, Served, Pending
<1> USE DEF Safe, Served, Pending
<1>1. CASE UNCHANGED vars
  BY <1>1 DEF vars, clientVars, WaitsForSomething
<1>2. ASSUME cpc[b] = "waiting", responses'[b] = responses[b], requests'[b] = requests[b],
             unanswered \subseteq unanswered'
      PROVE  Served(b)'
  BY <1>2 DEF WaitsForSomething
<1>3. ASSUME NEW c \in Clients, NEW i \in 1 .. Len(requests[c]), Reply(requests[c][i]),
             requests' = [requests EXCEPT ![c] = Without(@, i)], cpc' = cpc
      PROVE  Served(b)'
  <2> DEFINE d == requests[c][i]
  <2>1. d \in Datagrams /\ d.from = c /\ cpc[b] = "waiting"
    BY <1>3 DEF NetworkOK, OwnDatagrams
  <2>2. unanswered \subseteq unanswered'
    BY <1>3 DEF Reply, NoResponse, Respond
  <2>3. responses[b] # <<>> => responses'[b] # <<>>
    <3>1. CASE NoResponse(d)
      BY <3>1 DEF NoResponse
    <3>2. ASSUME NEW status \in {"ready", "ok", "error"}, Respond(d, status)
          PROVE  responses[b] # <<>> => responses'[b] # <<>>
      BY <2>1, <3>2, RespondAppends
    <3> QED
      BY <1>3, <3>1, <3>2 DEF Reply
  <2>4. ASSUME NEW k \in Pending(b), ~ (b = c /\ k = i) PROVE Pending(b)' # {}
    <3>1. CASE b = c
      <4>1. k \in 1 .. Len(requests[c]) /\ k # i /\ requests[c][k].awaited
        BY <2>4, <3>1
      <4>2. PICK j \in 1 .. Len(requests'[c]) : requests'[c][j] = requests[c][k]
        BY <1>3, <4>1, UnreadKeeps
      <4>3. j \in Pending(c)'
        BY <4>1, <4>2
      <4> QED
        BY <3>1, <4>3
    <3>2. CASE b # c
      <4>1. requests'[b] = requests[b]
        BY <1>3, <3>2, UnreadMovesUp
      <4> QED
        BY <4>1
    <3> QED
      BY <3>1, <3>2
  <2>5. ASSUME b = c, d.awaited PROVE responses'[b] # <<>>
    <3>1. ~ NoResponse(d)
      BY <2>1, <2>5 DEF NoResponse
    <3>2. PICK status \in {"ready", "ok", "error"} : Respond(d, status)
      BY <1>3, <3>1 DEF Reply
    <3> QED
      BY <2>1, <2>5, <3>2, RespondAppends
  <2>6. \/ responses[b] # <<>>
        \/ \E k \in 1 .. Len(requests[b]) : requests[b][k].awaited
    BY <2>1, <2>2 DEF WaitsForSomething
  <2> QED
    BY <2>3, <2>4, <2>5, <2>6
<1>4. ASSUME NEW c \in Clients, NEW i \in 1 .. Len(requests[c]), Receive(c, i)
      PROVE  Served(b)'
  <2>1. requests[c][i] \in Datagrams /\ (requests[c][i].verb = "dot" => requests[c][i].awaited)
    BY DEF NetworkOK, OwnDatagrams
  <2>2. Reply(requests[c][i])
    BY <1>4, <2>1, ReplyStep DEF Receive
  <2> QED
    BY <1>3, <1>4, <2>2 DEF Receive, clientVars
<1>5. CASE StartServer \/ StopServer
  BY <1>2, <1>5 DEF StartServer, StopServer, clientVars
<1>6. ASSUME NEW c \in Clients, LoseRequest(c)
      PROVE  Served(b)'
  <2>1. /\ 1 \in 1 .. Len(requests[c]) /\ Head(requests[c]) = requests[c][1]
        /\ Tail(requests[c]) = Without(requests[c], 1)
    BY <1>6, TailIsWithout DEF LoseRequest, NetworkOK
  <2> QED
    BY <1>3, <1>6, <2>1 DEF LoseRequest, Reply, clientVars
<1>7. ASSUME NEW c \in Clients, LoseResponse(c)
      PROVE  Served(b)'
  BY <1>2, <1>7 DEF LoseResponse, clientVars, NetworkOK
<1>8. ASSUME NEW c \in Clients, StartClient(c)
      PROVE  Served(b)'
  <2>1. /\ \A a \in Clients : a # c => requests'[a] = requests[a]
        /\ Len(requests'[c]) = Len(requests[c]) + 1 /\ Len(requests[c]) \in Nat
        /\ requests'[c][Len(requests[c]) + 1].awaited
    BY <1>8, StartClientSends
  <2>2. CASE b = c
    <3>1. Len(requests[c]) + 1 \in Pending(c)'
      BY <2>1
    <3> QED
      BY <2>2, <3>1
  <2>3. CASE b # c
    BY <1>2, <1>8, <2>1, <2>3 DEF StartClient, NetworkOK
  <2> QED
    BY <2>2, <2>3
<1>9. ASSUME NEW c \in Clients, NEW i \in 1 .. Len(responses[c]), TakeResponse(c, i)
      PROVE  Served(b)'
  BY <1>2, <1>9 DEF TakeResponse, NetworkOK
<1>10. ASSUME NEW c \in Clients, NEW line \in Typed, TypeLine(c, line)
       PROVE  Served(b)'
  <2>1. CASE b = c
    <3>1. Len(requests[c]) + 1 \in Pending(c)'
      BY <1>10, <2>1, TypeLineSends
    <3> QED
      BY <2>1, <3>1
  <2>2. CASE b # c
    BY <1>2, <1>10, <2>2, TypeLineSends DEF TypeLine
  <2> QED
    BY <2>1, <2>2
<1>11. ASSUME NEW c \in Clients, TypeNothing(c)
       PROVE  Served(b)'
  BY <1>2, <1>11 DEF TypeNothing, AfterLine, NetworkOK
<1>12. ASSUME NEW c \in Clients, Quit(c)
       PROVE  Served(b)'
  BY <1>2, <1>12 DEF Quit, NetworkOK
<1> QED
  BY <1>1, <1>4, <1>5, <1>6, <1>7, <1>8, <1>9, <1>10, <1>11, <1>12 DEF Next, Server, Client

(***************************************************************************)
(* A client that waits, waits for a response on its way or for a datagram  *)
(* to be answered, or is one of those that wait in vain: wait_for_response *)
(* of smtp_client.py and what the handlers return.                         *)
(***************************************************************************)
THEOREM WaitingSafety == Spec => []WaitsForSomething
<1>1. Init => Safe /\ WaitsForSomething
  BY SafeInit, WaitsInit
<1>2. Safe /\ WaitsForSomething /\ [Next]_vars => (Safe /\ WaitsForSomething)'
  BY SafeStep, WaitsStep
<1> QED
  BY <1>1, <1>2, PTL DEF Spec

-----------------------------------------------------------------------------
(***************************************************************************)
(* Which line a response answers.  As long as no response has come that    *)
(* the client did not wait for, the two are in step: at most one line of   *)
(* the client, its last one, is pending or answered and not read, and none *)
(* is while the client is at its prompt.                                   *)
(***************************************************************************)
InStepWith(c) ==
    /\ cpc[c] = "start" => sent[c] = 0
    /\ cpc[c] \in {"start", "prompt"} => responses[c] = <<>> /\ Pending(c) = {}
    /\ Len(responses[c]) <= 1
    /\ \A i \in 1 .. Len(responses[c]) : responses[c][i].number = sent[c]
    /\ responses[c] # <<>> => Pending(c) = {}
    /\ \A i, k \in Pending(c) : i = k
    /\ \A i \in Pending(c) : requests[c][i].number = sent[c]
InStep == \A c \in Clients : c \notin answered => InStepWith(c)

\* A client that has not started has nothing under way.
LEMMA InStepInit == Init => InStep
  BY DEF Init, InStep, InStepWith, Pending

\* The i-th datagram of c is taken out, answered or not.
LEMMA InStepUnread ==
    ASSUME Safe, InStep, NEW c \in Clients, NEW i \in 1 .. Len(requests[c]),
           Reply(requests[c][i]),
           requests' = [requests EXCEPT ![c] = Without(@, i)], UNCHANGED clientVars
    PROVE  InStep'
<1> DEFINE d == requests[c][i]
<1>1. NetworkOK /\ d \in Datagrams /\ d.from = c
  BY DEF Safe, NetworkOK, OwnDatagrams
<1>2. answered \subseteq answered'
  BY DEF Reply, NoResponse, Respond
<1>3. ASSUME NEW b \in Clients, b \notin answered', b # c PROVE InStepWith(b)'
  <2>1. InStepWith(b)
    BY <1>2, <1>3 DEF InStep
  <2>2. requests'[b] = requests[b]
    BY <1>1, <1>3, UnreadMovesUp
  <2>3. responses'[b] = responses[b]
    <3>1. CASE NoResponse(d)
      BY <3>1 DEF NoResponse
    <3>2. ASSUME NEW status \in {"ready", "ok", "error"}, Respond(d, status)
          PROVE  responses'[b] = responses[b]
      BY <1>1, <1>3, <3>2, RespondAppends, ZenonT(30)
    <3> QED
      BY <3>1, <3>2 DEF Reply
  <2> QED
    BY <2>1, <2>2, <2>3 DEF InStepWith, Pending, clientVars
<1>4. ASSUME c \notin answered' PROVE InStepWith(c)'
  <2>1. InStepWith(c)
    BY <1>2, <1>4 DEF InStep
  <2>2. \A j \in 1 .. Len(requests'[c]) :
            /\ Before(j, i) \in 1 .. Len(requests[c]) /\ Before(j, i) # i
            /\ requests'[c][j] = requests[c][Before(j, i)]
    BY <1>1, UnreadMovesUp
  <2>3. ASSUME NEW j \in Pending(c)'
        PROVE  /\ j \in Int /\ Before(j, i) \in Pending(c) /\ Before(j, i) # i
               /\ requests'[c][j] = requests[c][Before(j, i)]
    BY <2>2 DEF Pending
  <2>4. CASE d.awaited
    <3>1. i \in Pending(c)
      BY <2>4 DEF Pending
    <3>2. Pending(c)' = {}
      BY <2>1, <2>3, <3>1 DEF InStepWith
    <3>3. /\ responses[c] = <<>> /\ Len(responses[c]) = 0
          /\ cpc[c] \notin {"start", "prompt"} /\ d.number = sent[c]
      BY <2>1, <3>1 DEF InStepWith
    <3>4. /\ Len(responses'[c]) <= 1
          /\ \A l \in 1 .. Len(responses'[c]) : responses'[c][l].number = sent[c]
      <4>1. CASE responses' = responses
        BY <3>3, <4>1
      <4>2. ASSUME NEW status \in {"ready", "ok", "error"}, Respond(d, status),
                   cpc[c] # "ended"
            PROVE  /\ Len(responses'[c]) <= 1
                   /\ \A l \in 1 .. Len(responses'[c]) : responses'[c][l].number = sent[c]
        <5>1. /\ Len(responses'[c]) = 1
              /\ responses'[c][1] = [status |-> status, verb |-> d.verb, number |-> d.number]
          <6>1. cpc[d.from] # "ended" /\ Len(responses[d.from]) = 0
            BY <1>1, <3>3, <4>2
          <6>2. /\ Len(responses'[d.from]) = Len(responses[d.from]) + 1
                /\ responses'[d.from][Len(responses[d.from]) + 1]
                       = [status |-> status, verb |-> d.verb, number |-> d.number]
            BY <1>1, <4>2, <6>1, RespondAppends, Zenon
          <6> QED
            BY <1>1, <6>1, <6>2
        <5> QED
          BY <3>3, <5>1
      <4>3. ASSUME NEW status \in {"ready", "ok", "error"}, Respond(d, status),
                   cpc[c] = "ended"
            PROVE  responses' = responses
        <5>1. cpc[d.from] = "ended"
          BY <1>1, <4>3
        <5> QED
          BY <1>1, <4>3, <5>1, RespondAppends, Zenon
      <4> QED
        BY <4>1, <4>2, <4>3 DEF Reply, NoResponse
    <3> QED
      BY <2>1, <3>2, <3>3, <3>4 DEF InStepWith, clientVars
  <2>5. CASE ~ d.awaited
    <3>1. NoResponse(d)
      BY <1>1, <1>4, <2>5 DEF Reply, Respond
    <3>2. responses' = responses
      BY <3>1 DEF NoResponse
    <3>3. \A j, k \in Pending(c)' : j = k
      <4>1. ASSUME NEW j \in Pending(c)', NEW k \in Pending(c)' PROVE j = k
        <5>1. Before(j, i) = Before(k, i)
          BY <2>1, <2>3 DEF InStepWith
        <5> QED
          BY <2>3, <5>1 DEF Before
      <4> QED
        BY <4>1
    <3>4. \A j \in Pending(c)' : requests'[c][j].number = sent[c]
      BY <2>1, <2>3 DEF InStepWith
    <3>5. Pending(c) = {} => Pending(c)' = {}
      BY <2>3
    <3> QED
      BY <2>1, <3>2, <3>3, <3>4, <3>5 DEF InStepWith, clientVars
  <2> QED
    BY <2>4, <2>5
<1> QED
  BY <1>3, <1>4 DEF InStep

\* Only an answer to a line of the data mode puts a client out of step.
LEMMA InStepStep == Safe /\ InStep /\ [Next]_vars => InStep'
<1> SUFFICES ASSUME Safe, InStep, [Next]_vars PROVE InStep'
  OBVIOUS
<1>0. NetworkOK
  BY DEF Safe
<1>1. ASSUME NEW b \in Clients, InStepWith(b), cpc'[b] = cpc[b], sent' = sent,
             responses'[b] = responses[b], requests'[b] = requests[b]
      PROVE  InStepWith(b)'
  BY <1>1 DEF InStepWith, Pending
<1>2. CASE UNCHANGED vars
  BY <1>1, <1>2 DEF vars, clientVars, InStep
<1>3. ASSUME NEW c \in Clients, NEW i \in 1 .. Len(requests[c]), Receive(c, i) PROVE InStep'
  <2>1. requests[c][i] \in Datagrams /\ (requests[c][i].verb = "dot" => requests[c][i].awaited)
    BY <1>0 DEF NetworkOK, OwnDatagrams
  <2>2. Reply(requests[c][i])
    BY <1>3, <2>1, ReplyStep DEF Receive, Safe
  <2> QED
    BY <1>3, <2>2, InStepUnread DEF Receive
<1>4. CASE StartServer \/ StopServer
  BY <1>1, <1>4 DEF StartServer, StopServer, clientVars, InStep
<1>5. ASSUME NEW c \in Clients, LoseRequest(c) PROVE InStep'
  <2>1. /\ 1 \in 1 .. Len(requests[c]) /\ Head(requests[c]) = requests[c][1]
        /\ Tail(requests[c]) = Without(requests[c], 1)
    BY <1>0, <1>5, TailIsWithout DEF LoseRequest, NetworkOK
  <2>2. Reply(requests[c][1]) /\ requests' = [requests EXCEPT ![c] = Without(@, 1)]
    BY <1>5, <2>1 DEF LoseRequest, Reply
  <2> QED
    BY <1>5, <2>1, <2>2, InStepUnread DEF LoseRequest
<1>6. ASSUME NEW c \in Clients, LoseResponse(c) PROVE InStep'
  <2>1. ASSUME NEW b \in Clients, b \notin answered' PROVE InStepWith(b)'
    <3>1. InStepWith(b)
      BY <1>6, <2>1 DEF LoseResponse, InStep
    <3>2. CASE b # c
      BY <1>0, <1>1, <1>6, <3>1, <3>2 DEF LoseResponse, clientVars, NetworkOK
    <3>3. CASE b = c
      <4>1. responses[c] # <<>> /\ Len(responses[c]) <= 1 /\ responses[c] \in Seq(Responses)
        BY <1>0, <1>6, <3>1, <3>3 DEF LoseResponse, InStepWith, NetworkOK
      <4>2. responses'[c] = <<>>
        BY <1>0, <1>6, <4>1 DEF LoseResponse, NetworkOK
      <4> QED
        BY <1>6, <3>1, <3>3, <4>2 DEF LoseResponse, clientVars, InStepWith, Pending
    <3> QED
      BY <3>2, <3>3
  <2> QED
    BY <2>1 DEF InStep
<1>7. ASSUME NEW c \in Clients, StartClient(c) PROVE InStep'
  <2>1. ASSUME NEW b \in Clients, b \notin answered' PROVE InStepWith(b)'
    <3>1. InStepWith(b)
      BY <1>7, <2>1 DEF StartClient, InStep
    <3>2. CASE b # c
      BY <1>0, <1>1, <1>7, <3>1, <3>2, StartClientSends DEF StartClient, NetworkOK
    <3>3. CASE b = c
      <4>1. responses[c] = <<>> /\ Pending(c) = {} /\ sent[c] = 0
        BY <1>7, <3>1, <3>3 DEF StartClient, InStepWith
      <4>2. \A i \in Pending(c)' : i = Len(requests[c]) + 1
        BY <1>0, <1>7, <4>1, StartClientSends DEF Pending
      <4>3. cpc'[c] = "waiting" /\ responses' = responses /\ sent' = sent
        BY <1>0, <1>7 DEF StartClient, NetworkOK
      <4> QED
        BY <1>0, <1>7, <3>3, <4>1, <4>2, <4>3, StartClientSends DEF InStepWith
    <3> QED
      BY <3>2, <3>3
  <2> QED
    BY <2>1 DEF InStep
<1>8. ASSUME NEW c \in Clients, NEW i \in 1 .. Len(responses[c]), TakeResponse(c, i) PROVE InStep'
  <2>1. ASSUME NEW b \in Clients, b \notin answered' PROVE InStepWith(b)'
    <3>1. InStepWith(b)
      BY <1>8, <2>1 DEF TakeResponse, InStep
    <3>2. CASE b # c
      BY <1>0, <1>1, <1>8, <3>1, <3>2 DEF TakeResponse, NetworkOK
    <3>3. CASE b = c
      <4>0. responses[c] \in Seq(Responses) /\ Len(responses[c]) <= 1
        BY <1>0, <3>1, <3>3 DEF InStepWith, NetworkOK
      <4>1. Len(responses[c]) = 1
        <5>1. Len(responses[c]) \in Nat
          BY <4>0
        <5>2. Len(responses[c]) # 0
          BY <5>1
        <5>3. \A n \in Nat : n <= 1 /\ n # 0 => n = 1
          OBVIOUS
        <5>4. Len(responses[c]) <= 1
          BY <4>0
        <5> QED
          BY <5>1, <5>2, <5>3, <5>4, Zenon
      <4>2. responses[c] # <<>> /\ Pending(c) = {}
        BY <3>1, <3>3, <4>1 DEF InStepWith
      <4>3. Without(responses[c], i) = <<>>
        <5>1. Without(responses[c], i) \in Seq(Responses) /\ Len(Without(responses[c], i)) = 0
          <6>1. /\ Without(responses[c], i) \in Seq(Responses)
                /\ Len(Without(responses[c], i)) = Len(responses[c]) - 1
            BY <4>0, WithoutElements, Zenon
          <6> QED
            BY <4>1, <6>1
        <5> QED
          BY <5>1
      <4>4. responses'[c] = <<>> /\ cpc'[c] = "prompt"
        BY <1>0, <1>8, <4>3 DEF TakeResponse, NetworkOK
      <4> QED
        BY <1>8, <3>1, <3>3, <4>2, <4>4 DEF TakeResponse, InStepWith, Pending
    <3> QED
      BY <3>2, <3>3
  <2> QED
    BY <2>1 DEF InStep
<1>9. ASSUME NEW c \in Clients, NEW line \in Typed, TypeLine(c, line) PROVE InStep'
  <2>1. ASSUME NEW b \in Clients, b \notin answered' PROVE InStepWith(b)'
    <3>1. InStepWith(b)
      BY <1>9, <2>1 DEF TypeLine, InStep
    <3>2. CASE b # c
      <4>1. cpc'[b] = cpc[b] /\ requests'[b] = requests[b]
        BY <1>0, <1>9, <3>2, TypeLineSends
      <4>2. sent'[b] = sent[b] /\ responses' = responses
        BY <1>0, <1>9, <3>2 DEF TypeLine, NetworkOK
      <4> QED
        BY <3>1, <4>1, <4>2 DEF InStepWith, Pending
    <3>3. CASE b = c
      <4>1. responses[c] = <<>> /\ Pending(c) = {}
        BY <1>9, <3>1, <3>3 DEF TypeLine, InStepWith
      <4>2. /\ Len(requests'[c]) = Len(requests[c]) + 1 /\ Len(requests[c]) \in Nat
            /\ \A i \in 1 .. Len(requests[c]) : requests'[c][i] = requests[c][i]
            /\ cpc'[c] \in {"waiting", "prompt"}
            /\ requests'[c][Len(requests[c]) + 1].awaited <=> cpc'[c] = "waiting"
            /\ requests'[c][Len(requests[c]) + 1].number = sent[c] + 1
        BY <1>0, <1>9, TypeLineSends
      <4>3. \A i \in Pending(c)' : i = Len(requests[c]) + 1 /\ cpc'[c] = "waiting"
        BY <4>1, <4>2, SMTT(30) DEF Pending
      <4>4. responses'[c] = <<>> /\ sent'[c] = sent[c] + 1
        BY <1>0, <1>9, <4>1 DEF TypeLine, NetworkOK
      <4> QED
        BY <3>3, <4>2, <4>3, <4>4 DEF InStepWith
    <3> QED
      BY <3>2, <3>3
  <2> QED
    BY <2>1 DEF InStep
<1>10. ASSUME NEW c \in Clients, TypeNothing(c) PROVE InStep'
  <2>1. ASSUME NEW b \in Clients, InStepWith(b) PROVE InStepWith(b)'
    BY <1>0, <1>10, <2>1 DEF TypeNothing, AfterLine, InStepWith, Pending, NetworkOK
  <2> QED
    BY <1>10, <2>1 DEF TypeNothing, InStep
<1>11. ASSUME NEW c \in Clients, Quit(c) PROVE InStep'
  <2>1. ASSUME NEW b \in Clients, InStepWith(b) PROVE InStepWith(b)'
    BY <1>0, <1>11, <2>1 DEF Quit, InStepWith, Pending, NetworkOK
  <2> QED
    BY <1>11, <2>1 DEF Quit, InStep
<1> QED
  BY <1>2, <1>3, <1>4, <1>5, <1>6, <1>7, <1>8, <1>9, <1>10, <1>11 DEF Next, Server, Client

\* A client that reads another number than its last has got an answer out of turn.
LEMMA InStepMeansInTime ==
    ASSUME InStep, NEW c \in Clients, NEW i \in 1 .. Len(responses[c]),
           responses[c][i].number # sent[c]
    PROVE  c \in answered
  BY DEF InStep, InStepWith

(***************************************************************************)
(* Responses lag behind the lines of a client only once the server has     *)
(* answered a line that the client, after its data command, did not wait   *)
(* for: wait_for_response of smtp_client.py against store_data.            *)
(***************************************************************************)
THEOREM LateOnlyIfRefused == Spec => LateOnlyAfterRefusedData
<1>1. Init => Safe /\ InStep
  BY SafeInit, InStepInit
<1>2. Safe /\ InStep /\ [Next]_vars => (Safe /\ InStep)'
  BY SafeStep, InStepStep
<1>3. InStep => [\A c \in Clients : \A i \in 1 .. Len(responses[c]) :
                     TakeResponse(c, i) /\ responses[c][i].number # sent[c] => c \in answered]_vars
  BY InStepMeansInTime
<1> QED
  BY <1>1, <1>2, <1>3, PTL DEF Spec, LateOnlyAfterRefusedData
-----------------------------------------------------------------------------
(***************************************************************************)
(* What an answer to a dot promises.  Stored: the mail that a line closed  *)
(* is in the mailbox of each of its recipients, of whom there is one.      *)
(* Mails are never taken out again, and an answer that is not an error is  *)
(* sent to a dot by save_mail alone, when it has been through.             *)
(***************************************************************************)
Stored(c, number) ==
    \E m \in Range(mails) : /\ m.closed = [from |-> c, number |-> number]
                            /\ m.recps # <<>> /\ m.copies = Len(m.recps)
Kept(c, r) == r.verb = "dot" /\ r.status = "ok" => Stored(c, r.number)

\* A sequence that grows by an element keeps what it had, and has that element.
LEMMA AppendKeepsRange ==
    ASSUME NEW S, NEW q \in Seq(S), NEW e \in S
    PROVE  Range(q) \subseteq Range(Append(q, e)) /\ e \in Range(Append(q, e))
<1>1. /\ Len(Append(q, e)) = Len(q) + 1 /\ Len(q) \in Nat
      /\ \A i \in 1 .. Len(q) : Append(q, e)[i] = q[i]
      /\ Append(q, e)[Len(q) + 1] = e
  BY AppendProperties
<1>2. DOMAIN q = 1 .. Len(q) /\ DOMAIN Append(q, e) = 1 .. Len(q) + 1
  BY <1>1
<1>3. ASSUME NEW i \in 1 .. Len(q) PROVE i \in 1 .. Len(q) + 1
  BY <1>1
<1>4. Len(q) + 1 \in 1 .. Len(q) + 1
  BY <1>1
<1> QED
  BY <1>1, <1>2, <1>3, <1>4 DEF Range

\* A mail in the mailboxes stays there when the list of mails grows.
LEMMA StoredStays ==
    ASSUME Range(mails) \subseteq Range(mails'), NEW c, NEW number, Stored(c, number)
    PROVE  Stored(c, number)'
  BY DEF Stored

\* Whatever its handler does with a datagram, mails are only added, and what is said
\* to its client is not that a dot is done, unless the mail is where it should be.
LEMMA AnswerStep ==
    ASSUME TransactionOK, NEW d \in Datagrams, Connect(d) \/ Accept(d)
    PROVE  /\ Range(mails) \subseteq Range(mails')
           /\ \/ NoResponse(d)
              \/ \E status \in {"ready", "ok", "error"} :
                     /\ Respond(d, status)
                     /\ d.verb = "dot" /\ status = "ok" => Stored(d.from, d.number)'
<1> DEFINE Mails == [closed : Stamps, opened : Stamps, text : Seq(Stamps),
                     recps : Seq(Mailboxes), copies : Nat]
           Goal == /\ Range(mails) \subseteq Range(mails')
                   /\ \/ NoResponse(d)
                      \/ \E status \in {"ready", "ok", "error"} :
                             /\ Respond(d, status)
                             /\ d.verb = "dot" /\ status = "ok" => Stored(d.from, d.number)'
<1>1. ASSUME NEW copies \in Nat, SaveMail(d, copies), next_handler = "store"
      PROVE  /\ Range(mails) \subseteq Range(mails')
             /\ \E m \in Range(mails') : /\ m.closed = [from |-> d.from, number |-> d.number]
                                         /\ m.recps = recps /\ m.copies = copies
  <2> DEFINE m == [closed |-> Stamp(d), opened |-> data.opened, text |-> data.text,
                   recps |-> recps, copies |-> copies]
  <2>1. data.opened \in Stamps /\ data.text \in Seq(Stamps) /\ Stamp(d) \in Stamps
    BY <1>1, StampIsOne DEF TransactionOK, HandlerFitsMail, Data
  <2>2. m \in Mails
    BY <2>1 DEF TransactionOK
  <2>3. /\ m.closed = [from |-> d.from, number |-> d.number]
        /\ m.recps = recps /\ m.copies = copies
    BY DEF Stamp
  <2>4. mails' = Append(mails, m) /\ mails \in Seq(Mails)
    BY <1>1 DEF SaveMail, TransactionOK
  <2> HIDE DEF m, Mails
  <2> QED
    BY <2>2, <2>3, <2>4, AppendKeepsRange
<1>2. CASE Connect(d)
  BY <1>2 DEF Connect
<1>3. CASE Accept(d) /\ next_handler # "store"
  BY <1>3 DEF Accept, Handle, HandleHelo, HandleMail, HandleRcpt, HandleData, Refuse
<1>4. CASE next_handler = "store" /\ StoreText(d)
  BY <1>4 DEF StoreText
<1>5. CASE next_handler = "store" /\ StoreMail(d)
  <2>1. Len(recps) \in Nat /\ recps # <<>>
    BY <1>5 DEF TransactionOK, HandlerFitsMail
  <2>2. SaveMail(d, Len(recps)) /\ Respond(d, "ok")
    BY <1>5 DEF StoreMail
  <2>3. Stored(d.from, d.number)'
    BY <1>1, <1>5, <2>1, <2>2 DEF Stored
  <2> QED
    BY <1>1, <1>5, <2>1, <2>2, <2>3
<1>6. CASE next_handler = "store" /\ SaveFails(d)
  <2>1. PICK copies \in 0 .. Len(recps) - 1 : SaveMail(d, copies)
    BY <1>6 DEF SaveFails
  <2>2. copies \in Nat /\ NoResponse(d)
    BY <1>6, <2>1 DEF SaveFails, TransactionOK
  <2> QED
    BY <1>1, <1>6, <2>1, <2>2
<1>7. CASE Accept(d) /\ next_handler = "store"
  BY <1>4, <1>5, <1>6, <1>7 DEF Accept, Handle
<1> QED
  BY <1>2, <1>3, <1>7

\* An answer still to be read keeps its promise when nothing but that is read.
LEMMA KeptWithout ==
    ASSUME Safe, AcknowledgedMeansStored, Range(mails) \subseteq Range(mails'),
           NEW b \in Clients, NEW r, r \in Range(responses[b])
    PROVE  Kept(b, r)'
<1>1. PICK i \in 1 .. Len(responses[b]) : r = responses[b][i]
  BY DEF Range, Safe, NetworkOK
<1> QED
  BY <1>1, StoredStays DEF AcknowledgedMeansStored, Kept, Stored

\* No answer has been sent at the start.
LEMMA StoredInit == Init => AcknowledgedMeansStored
  BY DEF Init, AcknowledgedMeansStored

\* A dot is answered with 250 after the mail is stored, and answers are only read.
LEMMA StoredStep == Safe /\ AcknowledgedMeansStored /\ [Next]_vars => AcknowledgedMeansStored'
<1> SUFFICES ASSUME Safe, AcknowledgedMeansStored, [Next]_vars,
                    NEW b \in Clients, NEW j \in 1 .. Len(responses'[b]),
                    NEW r, r = responses'[b][j]
             PROVE  Kept(b, r)'
  BY DEF AcknowledgedMeansStored, Kept, Stored
<1>0. NetworkOK /\ \A c \in Clients : responses[c] \in Seq(Responses)
  BY DEF Safe, NetworkOK
<1>1. ASSUME Range(mails) \subseteq Range(mails'), r \in Range(responses[b])
      PROVE  Kept(b, r)'
  BY <1>1, KeptWithout DEF Kept, Stored
<1>2. ASSUME mails' = mails, responses'[b] = responses[b] PROVE Kept(b, r)'
  BY <1>0, <1>1, <1>2 DEF Range
<1>3. CASE UNCHANGED vars
  BY <1>2, <1>3 DEF vars
<1>4. ASSUME NEW c \in Clients, NEW i \in 1 .. Len(requests[c]), Receive(c, i)
      PROVE  Kept(b, r)'
  <2>1. PICK d \in Datagrams : d = requests[c][i]
    BY <1>0 DEF NetworkOK
  <2>2. Range(mails) \subseteq Range(mails')
    BY <1>4, <2>1, AnswerStep DEF Receive, Safe
  <2>3. CASE responses'[b] = responses[b]
    BY <1>0, <1>1, <2>2, <2>3 DEF Range
  <2>4. CASE NoResponse(d)
    BY <2>3, <2>4 DEF NoResponse
  <2>5. ASSUME NEW status \in {"ready", "ok", "error"}, Respond(d, status),
               d.verb = "dot" /\ status = "ok" => Stored(d.from, d.number)'
        PROVE  Kept(b, r)'
    <3>1. CASE b # d.from \/ cpc[d.from] = "ended"
      BY <1>0, <2>1, <2>3, <2>5, <3>1, RespondAppends, ZenonT(30)
    <3>2. CASE b = d.from /\ cpc[d.from] # "ended"
      <4>1. /\ Len(responses'[b]) = Len(responses[b]) + 1 /\ Len(responses[b]) \in Nat
            /\ \A k \in 1 .. Len(responses[b]) : responses'[b][k] = responses[b][k]
            /\ responses'[b][Len(responses[b]) + 1]
                   = [status |-> status, verb |-> d.verb, number |-> d.number]
        <5>1. cpc[d.from] # "ended"
          BY <3>2
        <5>2. /\ Len(responses'[d.from]) = Len(responses[d.from]) + 1
              /\ Len(responses[d.from]) \in Nat
              /\ \A k \in 1 .. Len(responses[d.from]) : responses'[d.from][k] = responses[d.from][k]
              /\ responses'[d.from][Len(responses[d.from]) + 1]
                     = [status |-> status, verb |-> d.verb, number |-> d.number]
          BY <1>0, <2>5, <5>1, RespondAppends, ZenonT(30)
        <5> QED
          BY <3>2, <5>2
      <4>2. CASE j \in 1 .. Len(responses[b])
        <5>1. r \in Range(responses[b])
          BY <1>0, <4>1, <4>2 DEF Range
        <5> QED
          BY <1>1, <2>2, <5>1
      <4>3. CASE j = Len(responses[b]) + 1
        <5>1. r = [status |-> status, verb |-> d.verb, number |-> d.number]
          BY <4>1, <4>3
        <5>2. r.status = status /\ r.verb = d.verb /\ r.number = d.number
          BY <5>1
        <5> QED
          BY <2>5, <3>2, <5>2 DEF Kept, Stored
      <4> QED
        BY <4>1, <4>2, <4>3
    <3> QED
      BY <3>1, <3>2
  <2>6. \/ NoResponse(d)
        \/ \E status \in {"ready", "ok", "error"} :
               /\ Respond(d, status)
               /\ d.verb = "dot" /\ status = "ok" => Stored(d.from, d.number)'
    BY <1>4, <2>1, AnswerStep DEF Receive, Safe
  <2> QED
    BY <2>4, <2>5, <2>6
<1>5. CASE StartServer \/ StopServer
  BY <1>2, <1>5 DEF StartServer, StopServer
<1>6. ASSUME NEW c \in Clients, LoseRequest(c) PROVE Kept(b, r)'
  BY <1>2, <1>6 DEF LoseRequest, NoResponse
<1>7. ASSUME NEW c \in Clients, LoseResponse(c) PROVE Kept(b, r)'
  <2>1. CASE b # c
    BY <1>0, <1>2, <1>7, <2>1 DEF LoseResponse, NetworkOK
  <2>2. CASE b = c
    <3>1. responses'[b] = Without(responses[b], 1) /\ 1 \in 1 .. Len(responses[b])
      BY <1>0, <1>7, <2>2, TailIsWithout DEF LoseResponse, NetworkOK
    <3>2. r \in Range(responses[b])
      BY <1>0, <3>1, WithoutKeeps DEF Range
    <3> QED
      BY <1>1, <1>7, <3>2 DEF LoseResponse
  <2> QED
    BY <2>1, <2>2
<1>8. ASSUME NEW c \in Clients, StartClient(c) PROVE Kept(b, r)'
  BY <1>2, <1>8 DEF StartClient
<1>9. ASSUME NEW c \in Clients, NEW i \in 1 .. Len(responses[c]), TakeResponse(c, i)
      PROVE  Kept(b, r)'
  <2>1. CASE b # c
    BY <1>0, <1>2, <1>9, <2>1 DEF TakeResponse, NetworkOK
  <2>2. CASE b = c
    <3>1. responses'[b] = Without(responses[b], i)
      BY <1>0, <1>9, <2>2 DEF TakeResponse, NetworkOK
    <3>2. r \in Range(responses[b])
      BY <1>0, <1>9, <2>2, <3>1, WithoutKeeps DEF Range
    <3> QED
      BY <1>1, <1>9, <3>2 DEF TakeResponse
  <2> QED
    BY <2>1, <2>2
<1>10. ASSUME NEW c \in Clients, NEW line \in Typed, TypeLine(c, line)
       PROVE  Kept(b, r)'
  BY <1>2, <1>10 DEF TypeLine
<1>11. ASSUME NEW c \in Clients, TypeNothing(c) PROVE Kept(b, r)'
  BY <1>2, <1>11 DEF TypeNothing
<1>12. ASSUME NEW c \in Clients, Quit(c) PROVE Kept(b, r)'
  <2>1. CASE b # c
    BY <1>0, <1>2, <1>12, <2>1 DEF Quit, NetworkOK
  <2>2. CASE b = c
    <3>1. responses'[b] = <<>>
      BY <1>0, <1>12, <2>2 DEF Quit, NetworkOK
    <3> QED
      BY <3>1
  <2> QED
    BY <2>1, <2>2
<1> QED
  BY <1>3, <1>4, <1>5, <1>6, <1>7, <1>8, <1>9, <1>10, <1>11, <1>12 DEF Next, Server, Client

(***************************************************************************)
(* A client whose dot is answered with 250 may rely on the mail being in   *)
(* the mailbox of every recipient, whoever else takes part in the one      *)
(* transaction, although save_mail may fail half way: store_data and       *)
(* save_mail of smtp_server.py.                                            *)
(***************************************************************************)
THEOREM AcknowledgedSafety == Spec => []AcknowledgedMeansStored
<1>1. Init => Safe /\ AcknowledgedMeansStored
  BY SafeInit, StoredInit
<1>2. Safe /\ AcknowledgedMeansStored /\ [Next]_vars => (Safe /\ AcknowledgedMeansStored)'
  BY SafeStep, StoredStep
<1> QED
  BY <1>1, <1>2, PTL DEF Spec

-----------------------------------------------------------------------------
(***************************************************************************)
(* The lines of a mail.  As long as no datagram of a client is lost or     *)
(* overtaken while the server runs, those not yet read are the last ones   *)
(* it has sent, in order; and a mail it has opened holds its lines up to   *)
(* the last one read.                                                      *)
(***************************************************************************)
\* The numbers of the lines last sent and last read; the first datagram has number 0.
LastSent(c) == IF cpc[c] = "start" THEN -1 ELSE sent[c]
LastRead(c) == LastSent(c) - Len(requests[c])

LinesNumbered ==
    \A c \in Clients :
        /\ cpc[c] = "start" => requests[c] = <<>> /\ sent[c] = 0
        /\ \A i \in 1 .. Len(requests[c]) : requests[c][i].number = LastRead(c) + i

Composing ==
    server = "serving" /\ next_handler = "store" =>
        /\ data.opened.number <= LastRead(data.opened.from)
        /\ HoldsLinesUpTo(data.opened, data.text, LastRead(data.opened.from))

LinesInv == faults = 0 => LinesNumbered /\ Composing

\* A line is added to the text: one of somebody else, or the next one of the writer.
LEMMA HoldsAppend ==
    ASSUME NEW opened \in Stamps, NEW text \in Seq(Stamps), NEW last \in Int,
           opened.number <= last, HoldsLinesUpTo(opened, text, last), NEW s \in Stamps
    PROVE  /\ s.from # opened.from => HoldsLinesUpTo(opened, Append(text, s), last)
           /\ s.from = opened.from /\ s.number = last + 1
                  => HoldsLinesUpTo(opened, Append(text, s), last + 1)
<1> DEFINE long == Append(text, s)
           Own(t) == {i \in DOMAIN t : t[i].from = opened.from}
<1>0. opened.number \in Nat
  BY DEF Stamps
<1>1. PICK n \in Nat : /\ n = Len(text) /\ DOMAIN text = 1 .. n /\ DOMAIN long = 1 .. n + 1
                       /\ \A i \in 1 .. n : long[i] = text[i]
                       /\ long[n + 1] = s
  <2>1. /\ long \in Seq(Stamps) /\ Len(long) = Len(text) + 1 /\ Len(text) \in Nat
        /\ \A i \in 1 .. Len(text) : long[i] = text[i]
        /\ long[Len(text) + 1] = s
    BY AppendProperties
  <2> HIDE DEF long
  <2>2. DOMAIN text = 1 .. Len(text) /\ DOMAIN long = 1 .. Len(text) + 1
    BY <2>1
  <2> QED
    BY <2>1, <2>2
<1> HIDE DEF long
<1>2. /\ {text[i].number : i \in Own(text)} = opened.number + 1 .. last
      /\ \A i, j \in Own(text) : i < j => text[i].number < text[j].number
  BY DEF HoldsLinesUpTo
<1>3. ASSUME s.from # opened.from PROVE HoldsLinesUpTo(opened, long, last)
  <2>1. Own(long) = Own(text)
    <3>1. \A i \in 1 .. n + 1 : i \in 1 .. n \/ i = n + 1
      OBVIOUS
    <3>2. \A i \in 1 .. n : i \in 1 .. n + 1
      OBVIOUS
    <3> QED
      BY <1>1, <1>3, <3>1, <3>2
  <2>2. \A i \in Own(text) : long[i] = text[i]
    BY <1>1
  <2>3. {long[i].number : i \in Own(long)} = {text[i].number : i \in Own(text)}
    BY <2>1, <2>2
  <2>4. \A i, j \in Own(long) : i < j => long[i].number < long[j].number
    BY <1>2, <2>1, <2>2
  <2> QED
    BY <1>2, <2>3, <2>4 DEF HoldsLinesUpTo
<1>4. ASSUME s.from = opened.from, s.number = last + 1
      PROVE  HoldsLinesUpTo(opened, long, last + 1)
  <2>1. Own(long) = Own(text) \cup {n + 1}
    <3>1. \A i \in 1 .. n + 1 : i \in 1 .. n \/ i = n + 1
      OBVIOUS
    <3>2. \A i \in 1 .. n : i \in 1 .. n + 1
      OBVIOUS
    <3>3. n + 1 \in 1 .. n + 1
      OBVIOUS
    <3> QED
      BY <1>1, <1>4, <3>1, <3>2, <3>3
  <2>2. \A i \in Own(text) : long[i] = text[i] /\ i < n + 1 /\ i \in Nat
    BY <1>1
  <2>3. \A i \in Own(text) : text[i].number \in opened.number + 1 .. last
    BY <1>2
  <2>4. {long[i].number : i \in Own(long)} = opened.number + 1 .. last + 1
    <3>1. {long[i].number : i \in Own(long)}
              = {text[i].number : i \in Own(text)} \cup {last + 1}
      BY <1>1, <1>4, <2>1, <2>2
    <3>2. (opened.number + 1 .. last) \cup {last + 1} = opened.number + 1 .. last + 1
      BY <1>0
    <3> QED
      BY <1>2, <3>1, <3>2
  <2>5. ASSUME NEW i \in Own(long), NEW j \in Own(long), i < j
        PROVE  long[i].number < long[j].number
    <3>1. CASE j \in Own(text) /\ i \in Own(text)
      BY <1>2, <2>2, <2>5, <3>1
    <3>2. CASE j = n + 1 /\ i \in Own(text)
      BY <1>0, <1>1, <1>4, <2>2, <2>3, <3>2
    <3>3. CASE i = n + 1
      BY <1>1, <2>1, <2>2, <2>5, <3>3
    <3> QED
      BY <2>1, <3>1, <3>2, <3>3
  <2> QED
    BY <2>4, <2>5 DEF HoldsLinesUpTo
<1> QED
  BY <1>3, <1>4 DEF long

\* Reading the oldest datagram of a client: its line is the one after the last read.
LEMMA OldestRead ==
    ASSUME Safe, LinesNumbered, NEW c \in Clients, requests[c] # <<>>,
           requests' = [requests EXCEPT ![c] = Without(@, 1)],
           UNCHANGED <<sent, cpc>>
    PROVE  /\ requests[c][1].number = LastRead(c) + 1 /\ LastRead(c)' = LastRead(c) + 1
           /\ \A b \in Clients : LastRead(b) \in Int /\ (b # c => LastRead(b)' = LastRead(b))
           /\ LinesNumbered'
<1>1. /\ requests \in [Clients -> Seq(Datagrams)] /\ sent \in [Clients -> Nat]
      /\ requests[c] \in Seq(Datagrams)
  BY DEF Safe, NetworkOK
<1>2. PICK k \in Nat : k = Len(requests[c]) /\ k >= 1
  BY <1>1
<1>3. /\ Len(requests'[c]) = k - 1
      /\ \A j \in 1 .. k - 1 : requests'[c][j] = requests[c][j + 1]
  <2>1. /\ Len(Without(requests[c], 1)) = k - 1
        /\ \A j \in 1 .. k - 1 :
               Without(requests[c], 1)[j] = IF j < 1 THEN requests[c][j] ELSE requests[c][j + 1]
    <3>1. 1 \in 1 .. Len(requests[c])
      BY <1>2
    <3> QED
      BY <1>1, <1>2, <3>1, WithoutElements
  <2>2. requests'[c] = Without(requests[c], 1)
    BY <1>1
  <2> QED
    BY <2>1, <2>2
<1>4. \A b \in Clients : b # c => requests'[b] = requests[b]
  BY <1>1
<1>5. \A b \in Clients : LastRead(b) \in Int /\ (b # c => LastRead(b)' = LastRead(b))
  <2>1. \A b \in Clients : LastSent(b) \in Int /\ LastSent(b)' = LastSent(b)
    BY <1>1 DEF LastSent
  <2> QED
    BY <1>1, <1>4, <2>1 DEF LastRead
<1>6. LastRead(c)' = LastRead(c) + 1
  <2>1. cpc[c] # "start"
    BY DEF LinesNumbered
  <2>2. sent[c] \in Nat /\ LastSent(c) = sent[c] /\ LastSent(c)' = sent[c]
    BY <1>1, <2>1 DEF LastSent
  <2> QED
    BY <1>2, <1>3, <2>2 DEF LastRead
<1>7. requests[c][1].number = LastRead(c) + 1
  BY <1>2 DEF LinesNumbered
<1>8. ASSUME NEW b \in Clients, NEW i \in 1 .. Len(requests'[b])
      PROVE  requests'[b][i].number = LastRead(b)' + i
  <2>1. CASE b = c
    <3>1. i \in 1 .. k - 1 /\ i + 1 \in 1 .. k /\ i \in Nat
      BY <1>2, <1>3, <1>8, <2>1
    <3>2. requests[c][i + 1].number = LastRead(c) + (i + 1)
      BY <1>2, <3>1 DEF LinesNumbered
    <3>3. requests'[c][i] = requests[c][i + 1]
      BY <1>3, <3>1
    <3>4. PICK l \in Int : l = LastRead(c) /\ LastRead(c)' = l + 1
      BY <1>5, <1>6
    <3>5. requests'[c][i].number = l + (i + 1)
      BY <3>2, <3>3, <3>4
    <3>6. l + (i + 1) = (l + 1) + i
      BY <3>1
    <3> QED
      BY <2>1, <3>4, <3>5, <3>6
  <2>2. CASE b # c
    BY <1>4, <1>5, <1>8, <2>2 DEF LinesNumbered
  <2> QED
    BY <2>1, <2>2
<1>9. \A b \in Clients : cpc'[b] = "start" => requests'[b] = <<>> /\ sent'[b] = 0
  <2>1. cpc[c] # "start"
    BY DEF LinesNumbered
  <2> QED
    BY <1>4, <2>1 DEF LinesNumbered
<1> QED
  BY <1>5, <1>6, <1>7, <1>8, <1>9 DEF LinesNumbered

\* What reading a line means to the mail under way and to those written.
LEMMA ReadKeepsLines ==
    ASSUME Safe, LinesOfTheWriterKept, Composing, faults = 0,
           NEW d \in Datagrams, Connect(d) \/ Accept(d),
           d.number = LastRead(d.from) + 1, LastRead(d.from)' = LastRead(d.from) + 1,
           \A b \in Clients : LastRead(b) \in Int /\ (b # d.from => LastRead(b)' = LastRead(b))
    PROVE  Composing' /\ LinesOfTheWriterKept'
<1> DEFINE Mails == [closed : Stamps, opened : Stamps, text : Seq(Stamps),
                     recps : Seq(Mailboxes), copies : Nat]
<1>0. /\ d.from \in Clients /\ d.number \in Nat /\ TransactionOK
      /\ Stamp(d) \in Stamps /\ Stamp(d).from = d.from /\ Stamp(d).number = d.number
  BY StampIsOne DEF Datagrams, Safe, Stamp
<1>1. ASSUME NEW copies \in Nat, SaveMail(d, copies), next_handler = "store", server = "serving"
      PROVE  LinesOfTheWriterKept'
  <2> DEFINE m == [closed |-> Stamp(d), opened |-> data.opened, text |-> data.text,
                   recps |-> recps, copies |-> copies]
  <2>1. data.opened \in Stamps /\ data.text \in Seq(Stamps)
    BY <1>0, <1>1 DEF TransactionOK, HandlerFitsMail, Data
  <2>2. m \in Mails /\ m.closed = Stamp(d) /\ m.opened = data.opened /\ m.text = data.text
    BY <1>0, <2>1 DEF TransactionOK
  <2>3. mails' = Append(mails, m) /\ mails \in Seq(Mails)
    BY <1>0, <1>1 DEF SaveMail, TransactionOK
  <2>4. m.opened.from = m.closed.from => HoldsLinesUpTo(m.opened, m.text, m.closed.number - 1)
    <3>1. HoldsLinesUpTo(data.opened, data.text, LastRead(data.opened.from))
      BY <1>1 DEF Composing
    <3>2. d.number - 1 = LastRead(d.from)
      BY <1>0
    <3> QED
      BY <1>0, <2>2, <3>1, <3>2
  <2> HIDE DEF m, Mails
  <2>5. \A x \in Range(mails') : x \in Range(mails) \/ x = m
    <3>1. /\ Len(mails') = Len(mails) + 1 /\ Len(mails) \in Nat
          /\ \A i \in 1 .. Len(mails) : mails'[i] = mails[i]
          /\ mails'[Len(mails) + 1] = m
          /\ DOMAIN mails' = 1 .. Len(mails) + 1 /\ DOMAIN mails = 1 .. Len(mails)
      BY <2>2, <2>3, AppendProperties
    <3>2. \A i \in 1 .. Len(mails) + 1 : i \in 1 .. Len(mails) \/ i = Len(mails) + 1
      BY <3>1
    <3> QED
      BY <3>1, <3>2 DEF Range
  <2> QED
    BY <1>1, <2>4, <2>5 DEF LinesOfTheWriterKept
<1>2. CASE mails' = mails /\ ~ (server' = "serving" /\ next_handler' = "store")
  BY <1>2 DEF LinesOfTheWriterKept, Composing
<1>3. CASE Connect(d)
  BY <1>2, <1>3 DEF Connect
<1>4. CASE Accept(d) /\ next_handler # "store" /\ next_handler' # "store"
  BY <1>2, <1>4 DEF Accept, Handle, HandleHelo, HandleMail, HandleRcpt, HandleData, Refuse
<1>5. CASE Accept(d) /\ next_handler # "store" /\ next_handler' = "store"
  <2>1. data' = [opened |-> Stamp(d), text |-> <<>>] /\ mails' = mails
    BY <1>5 DEF Accept, Handle, HandleHelo, HandleMail, HandleRcpt, HandleData, Refuse,
         transaction
  <2>2. data'.opened = Stamp(d) /\ data'.text = <<>>
    BY <2>1
  <2>3. LastRead(d.from)' = d.number
    BY <1>0
  <2>4. HoldsLinesUpTo(Stamp(d), <<>>, d.number)
    <3>1. d.number + 1 .. d.number = {} /\ DOMAIN <<>> = {}
      BY <1>0
    <3> QED
      BY <1>0, <3>1 DEF HoldsLinesUpTo
  <2>5. PICK o \in Stamps : o = Stamp(d) /\ o.from = d.from /\ o.number = d.number
    BY <1>0
  <2>6. LastRead(o.from)' = o.number /\ o.number <= o.number
    BY <1>0, <2>3, <2>5
  <2>7. data'.opened = o /\ data'.text = <<>> /\ HoldsLinesUpTo(o, <<>>, o.number)
    BY <2>2, <2>4, <2>5
  <2>8. Composing'
    BY <2>6, <2>7 DEF Composing
  <2> QED
    BY <2>1, <2>8 DEF LinesOfTheWriterKept
<1>6. CASE Accept(d) /\ next_handler = "store" /\ StoreText(d)
  <2>1. data.opened \in Stamps /\ data.text \in Seq(Stamps) /\ data \in Data
    BY <1>0, <1>6 DEF TransactionOK, HandlerFitsMail, Data
  <2>2. PICK o \in Stamps, t \in Seq(Stamps) : o = data.opened /\ t = data.text
    BY <2>1
  <2>3. data' = [data EXCEPT !.text = Append(t, Stamp(d))] /\ mails' = mails
    BY <1>6, <2>2 DEF StoreText
  <2>4. data'.opened = o /\ data'.text = Append(t, Stamp(d))
    BY <2>1, <2>2, <2>3 DEF Data
  <2>5. /\ server = "serving" /\ o.from \in Clients /\ o.number \in Nat
        /\ LastRead(o.from) \in Int
    BY <1>6, <2>2 DEF Accept, Stamps
  <2>6. o.number <= LastRead(o.from) /\ HoldsLinesUpTo(o, t, LastRead(o.from))
    BY <1>6, <2>2, <2>5 DEF Composing
  <2>7. /\ o.number <= LastRead(o.from)'
        /\ HoldsLinesUpTo(o, Append(t, Stamp(d)), LastRead(o.from)')
    <3>1. CASE o.from = d.from
      BY <1>0, <2>5, <2>6, <3>1, HoldsAppend
    <3>2. CASE o.from # d.from
      BY <1>0, <2>5, <2>6, <3>2, HoldsAppend
    <3> QED
      BY <3>1, <3>2
  <2>8. Composing'
    BY <2>4, <2>7 DEF Composing
  <2> QED
    BY <2>3, <2>8 DEF LinesOfTheWriterKept
<1>7. CASE Accept(d) /\ next_handler = "store" /\ StoreMail(d)
  <2>1. Len(recps) \in Nat /\ SaveMail(d, Len(recps)) /\ next_handler' = "helo"
        /\ server = "serving"
    BY <1>0, <1>7 DEF StoreMail, Reset, Accept, TransactionOK
  <2> QED
    BY <1>1, <1>7, <2>1 DEF Composing
<1>8. CASE Accept(d) /\ next_handler = "store" /\ SaveFails(d)
  <2>1. PICK copies \in 0 .. Len(recps) - 1 : SaveMail(d, copies)
    BY <1>8 DEF SaveFails
  <2>2. copies \in Nat /\ server = "serving" /\ server' = "down"
    BY <1>0, <1>8, <2>1 DEF SaveFails, Accept, TransactionOK
  <2> QED
    BY <1>1, <1>8, <2>1, <2>2 DEF Composing
<1> QED
  BY <1>3, <1>4, <1>5, <1>6, <1>7, <1>8 DEF Accept, Handle


\* Sending a line: it is the one after the last sent, and none is read.
LEMMA SentKeepsLines ==
    ASSUME Safe, LinesNumbered, NEW c \in Clients,
           StartClient(c) \/ \E line \in Typed : TypeLine(c, line)
    PROVE  LinesNumbered' /\ \A b \in Clients : LastRead(b)' = LastRead(b)
<1>0. /\ NetworkOK /\ requests \in [Clients -> Seq(Datagrams)] /\ sent \in [Clients -> Nat]
      /\ cpc \in [Clients -> {"start", "waiting", "prompt", "ended"}]
  BY DEF Safe, NetworkOK
<1>1. PICK k \in Nat, n \in Int :
          /\ k = Len(requests[c]) /\ LastSent(c) = n /\ LastSent(c)' = n + 1
          /\ Len(requests'[c]) = k + 1
          /\ \A i \in 1 .. k : requests'[c][i] = requests[c][i]
          /\ requests'[c][k + 1].number = n + 1
          /\ cpc'[c] # "start"
          /\ \A b \in Clients : b # c => /\ requests'[b] = requests[b] /\ sent'[b] = sent[b]
                                         /\ cpc'[b] = cpc[b]
  <2>1. CASE StartClient(c)
    <3>1. LastSent(c) = -1
      BY <2>1 DEF StartClient, LastSent
    <3>2. sent[c] = 0 /\ sent' = sent /\ cpc' = [cpc EXCEPT ![c] = "waiting"]
      BY <2>1 DEF StartClient, LinesNumbered
    <3>3. /\ cpc'[c] = "waiting" /\ \A b \in Clients : b # c => cpc'[b] = cpc[b]
          /\ LastSent(c)' = 0
      BY <1>0, <3>2 DEF LastSent
    <3>4. /\ \A b \in Clients : b # c => requests'[b] = requests[b]
          /\ Len(requests'[c]) = Len(requests[c]) + 1 /\ Len(requests[c]) \in Nat
          /\ \A i \in 1 .. Len(requests[c]) : requests'[c][i] = requests[c][i]
          /\ requests'[c][Len(requests[c]) + 1].number = 0
      BY <1>0, <2>1, StartClientSends
    <3>5. PICK k \in Nat : k = Len(requests[c])
      BY <3>4
    <3>6. /\ k = Len(requests[c]) /\ LastSent(c) = -1 /\ LastSent(c)' = -1 + 1
          /\ Len(requests'[c]) = k + 1
          /\ \A i \in 1 .. k : requests'[c][i] = requests[c][i]
          /\ requests'[c][k + 1].number = -1 + 1
      BY <3>1, <3>3, <3>4, <3>5
    <3>7. /\ cpc'[c] # "start"
          /\ \A b \in Clients : b # c => /\ requests'[b] = requests[b] /\ sent'[b] = sent[b]
                                         /\ cpc'[b] = cpc[b]
      BY <3>2, <3>3, <3>4
    <3> WITNESS k \in Nat, -1 \in Int
    <3> QED
      BY <3>6, <3>7, Zenon
  <2>2. ASSUME NEW line \in Typed, TypeLine(c, line)
        PROVE  /\ LastSent(c) = sent[c] /\ LastSent(c)' = sent[c] + 1
               /\ Len(requests[c]) \in Nat /\ Len(requests'[c]) = Len(requests[c]) + 1
               /\ \A i \in 1 .. Len(requests[c]) : requests'[c][i] = requests[c][i]
               /\ requests'[c][Len(requests[c]) + 1].number = sent[c] + 1
               /\ cpc'[c] # "start"
               /\ \A b \in Clients : b # c => /\ requests'[b] = requests[b] /\ sent'[b] = sent[b]
                                              /\ cpc'[b] = cpc[b]
    <3>1. sent' = [sent EXCEPT ![c] = @ + 1] /\ cpc[c] = "prompt"
      BY <2>2 DEF TypeLine
    <3>2. sent'[c] = sent[c] + 1 /\ \A b \in Clients : b # c => sent'[b] = sent[b]
      BY <1>0, <3>1
    <3>3. /\ \A b \in Clients : b # c => requests'[b] = requests[b] /\ cpc'[b] = cpc[b]
          /\ Len(requests'[c]) = Len(requests[c]) + 1 /\ Len(requests[c]) \in Nat
          /\ \A i \in 1 .. Len(requests[c]) : requests'[c][i] = requests[c][i]
          /\ cpc'[c] \in {"waiting", "prompt"}
          /\ requests'[c][Len(requests[c]) + 1].number = sent[c] + 1
      BY <1>0, <2>2, TypeLineSends
    <3>4. LastSent(c) = sent[c] /\ LastSent(c)' = sent[c] + 1
      BY <3>1, <3>2, <3>3 DEF LastSent
    <3> QED
      BY <3>2, <3>3, <3>4
  <2>3. CASE \E line \in Typed : TypeLine(c, line)
    <3>1. /\ LastSent(c) = sent[c] /\ LastSent(c)' = sent[c] + 1
          /\ Len(requests[c]) \in Nat /\ Len(requests'[c]) = Len(requests[c]) + 1
          /\ \A i \in 1 .. Len(requests[c]) : requests'[c][i] = requests[c][i]
          /\ requests'[c][Len(requests[c]) + 1].number = sent[c] + 1
          /\ cpc'[c] # "start"
          /\ \A b \in Clients : b # c => /\ requests'[b] = requests[b] /\ sent'[b] = sent[b]
                                         /\ cpc'[b] = cpc[b]
      BY <2>2, <2>3
    <3>2. PICK k \in Nat, n \in Int : k = Len(requests[c]) /\ n = sent[c]
      BY <1>0, <3>1
    <3> WITNESS k \in Nat, n \in Int
    <3> QED
      BY <3>1, <3>2, Zenon
  <2> QED
    BY <2>1, <2>3
<1>2. LastRead(c) = n - k /\ LastRead(c)' = n - k
  <2>1. LastRead(c)' = n + 1 - (k + 1)
    BY <1>1 DEF LastRead
  <2> QED
    BY <1>1, <2>1 DEF LastRead
<1>3. \A b \in Clients : b # c => LastRead(b)' = LastRead(b)
  BY <1>1 DEF LastRead, LastSent
<1>4. ASSUME NEW b \in Clients, NEW i \in 1 .. Len(requests'[b])
      PROVE  requests'[b][i].number = LastRead(b)' + i
  <2>1. CASE b # c
    BY <1>1, <1>3, <1>4, <2>1 DEF LinesNumbered
  <2>2. CASE b = c
    <3>1. i \in Nat /\ (i \in 1 .. k \/ i = k + 1)
      BY <1>1, <1>4, <2>2
    <3>2. CASE i \in 1 .. k
      <4>1. requests[c][i].number = LastRead(c) + i
        BY <1>1, <3>2 DEF LinesNumbered
      <4> QED
        BY <1>1, <1>2, <2>2, <3>2, <4>1
    <3>3. CASE i = k + 1
      <4>1. requests'[c][i].number = n + 1
        BY <1>1, <3>3
      <4>2. n + 1 = (n - k) + i
        BY <3>3
      <4> QED
        BY <1>2, <2>2, <4>1, <4>2
    <3> QED
      BY <3>1, <3>2, <3>3
  <2> QED
    BY <2>1, <2>2
<1>5. \A b \in Clients : cpc'[b] = "start" => requests'[b] = <<>> /\ sent'[b] = 0
  BY <1>1 DEF LinesNumbered
<1> QED
  BY <1>2, <1>3, <1>4, <1>5 DEF LinesNumbered

\* Nothing is read and nothing happens to a mail.
LEMMA QuietKeepsLines ==
    ASSUME Safe, LinesInv, LinesOfTheWriterKept, LinesNumbered => LinesNumbered',
           UNCHANGED <<server, next_handler, data, mails, faults>>,
           \A b \in Clients : LastRead(b)' = LastRead(b)
    PROVE  LinesInv' /\ LinesOfTheWriterKept'
<1>1. LinesOfTheWriterKept'
  BY DEF LinesOfTheWriterKept
<1>2. ASSUME Composing PROVE Composing'
  <2> SUFFICES ASSUME server = "serving", next_handler = "store"
               PROVE  Composing'
    BY DEF Composing
  <2>1. PICK o \in Stamps : o = data.opened
    BY DEF Safe, TransactionOK, HandlerFitsMail, Data
  <2>2. o.from \in Clients
    BY DEF Stamps
  <2>3. /\ o.number <= LastRead(o.from)
        /\ HoldsLinesUpTo(o, data.text, LastRead(o.from))
    BY <1>2, <2>1 DEF Composing
  <2>4. LastRead(o.from)' = LastRead(o.from) /\ data'.opened = o /\ data'.text = data.text
    BY <2>1, <2>2
  <2> QED
    BY <2>3, <2>4 DEF Composing
<1> QED
  BY <1>1, <1>2 DEF LinesInv

\* What is said of a network in order is void when it is not.
LEMMA FaultKeepsLines ==
    ASSUME faults' # 0
    PROVE  LinesInv' /\ LinesOfTheWriterKept'
  BY DEF LinesInv, LinesOfTheWriterKept


\* No line has been sent at the start.
LEMMA LinesInit == Init => LinesInv /\ LinesOfTheWriterKept
<1> SUFFICES ASSUME Init PROVE LinesInv /\ LinesOfTheWriterKept
  OBVIOUS
<1>1. mails = <<>> /\ server = "down"
  BY DEF Init
<1>2. LinesNumbered
  BY DEF Init, LinesNumbered
<1>3. Range(mails) = {}
  BY <1>1 DEF Range
<1> QED
  BY <1>1, <1>2, <1>3 DEF LinesInv, Composing, LinesOfTheWriterKept

\* Lines are read in the order in which they are typed, unless the network is at fault.
LEMMA LinesStep ==
    Safe /\ LinesInv /\ LinesOfTheWriterKept /\ [Next]_vars
        => LinesInv' /\ LinesOfTheWriterKept'
<1> SUFFICES ASSUME Safe, LinesInv, LinesOfTheWriterKept, [Next]_vars, faults' = 0
             PROVE  LinesInv' /\ LinesOfTheWriterKept'
  BY FaultKeepsLines
<1>0. /\ NetworkOK /\ faults \in Nat
      /\ requests \in [Clients -> Seq(Datagrams)] /\ responses \in [Clients -> Seq(Responses)]
      /\ cpc \in [Clients -> {"start", "waiting", "prompt", "ended"}]
  BY DEF Safe, NetworkOK
<1>1. ASSUME UNCHANGED <<server, next_handler, data, mails, faults, requests, sent>>,
             \A b \in Clients : cpc'[b] = "start" <=> cpc[b] = "start"
      PROVE  LinesInv' /\ LinesOfTheWriterKept'
  <2>1. \A b \in Clients : LastRead(b)' = LastRead(b)
    BY <1>1 DEF LastRead, LastSent
  <2>2. LinesNumbered => LinesNumbered'
    BY <1>1, <2>1 DEF LinesNumbered
  <2> QED
    BY <1>1, <2>1, <2>2, QuietKeepsLines
<1>2. CASE UNCHANGED vars
  BY <1>1, <1>2 DEF vars, transaction, clientVars
<1>3. ASSUME NEW c \in Clients, NEW i \in 1 .. Len(requests[c]), Receive(c, i)
      PROVE  LinesInv' /\ LinesOfTheWriterKept'
  <2>1. i = 1 /\ faults = 0
    BY <1>0, <1>3 DEF Receive, Unread
  <2>2. LinesNumbered /\ Composing
    BY <2>1 DEF LinesInv
  <2>3. PICK d \in Datagrams : d = requests[c][1] /\ d.from = c
    BY <1>0, <1>3, <2>1 DEF NetworkOK, OwnDatagrams
  <2>4. /\ requests[c] # <<>> /\ UNCHANGED <<sent, cpc>>
        /\ requests' = [requests EXCEPT ![c] = Without(@, 1)]
        /\ Connect(d) \/ Accept(d)
    BY <1>3, <2>1, <2>3 DEF Receive, clientVars
  <2>5. /\ d.number = LastRead(c) + 1 /\ LastRead(c)' = LastRead(c) + 1
        /\ \A b \in Clients : LastRead(b) \in Int /\ (b # c => LastRead(b)' = LastRead(b))
        /\ LinesNumbered'
    BY <2>2, <2>3, <2>4, OldestRead
  <2>6. Composing' /\ LinesOfTheWriterKept'
    <3>1. d.number = LastRead(d.from) + 1 /\ LastRead(d.from)' = LastRead(d.from) + 1
      BY <2>3, <2>5
    <3>2. \A b \in Clients : LastRead(b) \in Int /\ (b # d.from => LastRead(b)' = LastRead(b))
      BY <2>3, <2>5
    <3> QED
      BY <2>1, <2>2, <2>4, <3>1, <3>2, ReadKeepsLines
  <2> QED
    BY <2>5, <2>6 DEF LinesInv
<1>4. CASE StartServer
  <2>1. /\ server' = "greeting"
        /\ UNCHANGED <<mails, faults, requests, sent, cpc>>
    BY <1>4 DEF StartServer, clientVars
  <2>2. LinesNumbered => LinesNumbered'
    BY <2>1 DEF LinesNumbered, LastRead, LastSent
  <2> QED
    BY <2>1, <2>2 DEF LinesInv, Composing, LinesOfTheWriterKept
<1>5. ASSUME NEW c \in Clients, LoseRequest(c)
      PROVE  LinesInv' /\ LinesOfTheWriterKept'
  <2>1. server' = "down" /\ faults = 0
    BY <1>0, <1>5 DEF LoseRequest
  <2>2. LinesNumbered
    BY <2>1 DEF LinesInv
  <2>3. /\ requests[c] # <<>> /\ UNCHANGED <<sent, cpc, mails>>
        /\ requests' = [requests EXCEPT ![c] = Tail(@)]
    BY <1>5 DEF LoseRequest, clientVars
  <2>4. Tail(requests[c]) = Without(requests[c], 1)
    BY <1>0, <2>3, TailIsWithout
  <2>5. requests' = [requests EXCEPT ![c] = Without(@, 1)]
    BY <2>3, <2>4
  <2>6. LinesNumbered'
    BY <2>2, <2>3, <2>5, OldestRead
  <2> QED
    BY <2>1, <2>3, <2>6 DEF LinesInv, Composing, LinesOfTheWriterKept
<1>6. CASE StopServer \/ \E c \in Clients : LoseResponse(c)
  BY <1>0, <1>6 DEF StopServer, LoseResponse
<1>7. ASSUME NEW c \in Clients, StartClient(c) \/ \E line \in Typed : TypeLine(c, line)
      PROVE  LinesInv' /\ LinesOfTheWriterKept'
  <2>1. UNCHANGED <<server, next_handler, data, mails, faults>>
    BY <1>7 DEF StartClient, TypeLine, transaction
  <2>2. LinesNumbered
    BY <2>1 DEF LinesInv
  <2> QED
    BY <1>7, <2>1, <2>2, SentKeepsLines, QuietKeepsLines
<1>8. ASSUME NEW c \in Clients, NEW i \in 1 .. Len(responses[c]), TakeResponse(c, i)
      PROVE  LinesInv' /\ LinesOfTheWriterKept'
  <2>1. faults' = faults
    BY <1>0, <1>8 DEF TakeResponse, Unread
  <2>2. cpc[c] = "waiting" /\ cpc' = [cpc EXCEPT ![c] = "prompt"]
    BY <1>8 DEF TakeResponse
  <2> QED
    BY <1>0, <1>1, <1>8, <2>1, <2>2 DEF TakeResponse, transaction
<1>9. ASSUME NEW c \in Clients, TypeNothing(c)
      PROVE  LinesInv' /\ LinesOfTheWriterKept'
  <2>1. cpc[c] = "prompt" /\ \E pc \in {"waiting", "prompt"} : cpc' = [cpc EXCEPT ![c] = pc]
    BY <1>9 DEF TypeNothing, AfterLine
  <2> QED
    BY <1>0, <1>1, <1>9, <2>1 DEF TypeNothing, transaction
<1>10. ASSUME NEW c \in Clients, Quit(c)
       PROVE  LinesInv' /\ LinesOfTheWriterKept'
  <2>1. cpc[c] # "start" /\ cpc' = [cpc EXCEPT ![c] = "ended"]
    BY <1>10 DEF Quit
  <2> QED
    BY <1>0, <1>1, <1>10, <2>1 DEF Quit, transaction
<1> QED
  BY <1>2, <1>3, <1>4, <1>5, <1>6, <1>7, <1>8, <1>9, <1>10 DEF Next, Server, Client

(***************************************************************************)
(* When the network is in order, a mail opened and closed by one client    *)
(* holds every line that this client typed in between, in order, whatever  *)
(* other clients send into the one transaction that store_data of          *)
(* smtp_server.py keeps.                                                   *)
(***************************************************************************)
THEOREM LinesSafety == Spec => []LinesOfTheWriterKept
<1>1. Init => Safe /\ LinesInv /\ LinesOfTheWriterKept
  BY SafeInit, LinesInit
<1>2. Safe /\ LinesInv /\ LinesOfTheWriterKept /\ [Next]_vars
          => (Safe /\ LinesInv /\ LinesOfTheWriterKept)'
  BY SafeStep, LinesStep
<1> QED
  BY <1>1, <1>2, PTL DEF Spec

=============================================================================
