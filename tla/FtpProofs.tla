----------------------------- MODULE FtpProofs ------------------------------
(***************************************************************************)
(* What holds of server.py and client.py of src/5_ftp for any number of    *)
(* clients, connections and requests, whenever puts are given up, requests *)
(* are torn, processes end and handlers raise.                             *)
(***************************************************************************)
EXTENDS FtpSession, SequenceTheorems, TLAPS

-----------------------------------------------------------------------------
(***************************************************************************)
(* What a step does to a queue, element by element: nothing else matters   *)
(* of the operations on sequences.                                         *)
(***************************************************************************)
Messages == Requests \cup Responses
QueueShape == queue \in [Conns -> [Ends -> Seq(Messages)]]

Others(k, e) ==
    \A l \in Conns : \A f \in Ends : l # k \/ f # e => queue'[l][f] = queue[l][f]

Shorter(k, e) ==
    /\ Others(k, e)
    /\ Len(queue[k][e]) > 0 /\ Len(queue'[k][e]) = Len(queue[k][e]) - 1
    /\ \A i \in 1 .. Len(queue'[k][e]) : queue'[k][e][i] = queue[k][e][i + 1]

Longer(k, e, message) ==
    /\ Others(k, e)
    /\ Len(queue'[k][e]) = Len(queue[k][e]) + 1
    /\ \A i \in 1 .. Len(queue[k][e]) : queue'[k][e][i] = queue[k][e][i]
    /\ queue'[k][e][Len(queue[k][e]) + 1] = message

Emptied(k, e) == Others(k, e) /\ queue'[k][e] = <<>>

\* What is left of the first request takes the second one's place.
Merged(k) ==
    LET q == queue[k]["server"]  r == queue'[k]["server"]
    IN  /\ Others(k, "server")
        /\ Len(q) > 1 /\ Len(r) = Len(q) - 1
        /\ r[1] \in Requests /\ r[1].command \in Remains
        /\ r[1].number = q[1].number /\ r[1].user = q[1].user
        /\ \A i \in 2 .. Len(r) : r[i] = q[i + 1]

Torn(k) ==
    LET q == queue[k]["client"]  r == queue'[k]["client"]
    IN  /\ Others(k, "client")
        /\ Len(q) > 0 /\ Len(r) = Len(q)
        /\ r[1] \in Responses /\ r[1].code = "torn" /\ r[1].number = q[1].number
        /\ \A i \in 2 .. Len(r) : r[i] = q[i]

\* A queue that is assigned has the new value, and the others keep theirs.
LEMMA QueueSet ==
    ASSUME QueueShape, NEW k \in Conns, NEW e \in Ends, NEW v \in Seq(Messages),
           queue' = [queue EXCEPT ![k][e] = v]
    PROVE  QueueShape' /\ queue'[k][e] = v /\ Others(k, e)
  BY DEF QueueShape, Others

\* What is in a queue is a sequence of messages, the first of which is its head.
LEMMA QueueIsSeq ==
    ASSUME QueueShape, NEW k \in Conns, NEW e \in Ends
    PROVE  /\ queue[k][e] \in Seq(Messages) /\ Len(queue[k][e]) \in Nat
           /\ queue[k][e] # <<>> <=> Len(queue[k][e]) > 0
           /\ queue[k][e] # <<>> =>
                  Head(queue[k][e]) = queue[k][e][1] /\ 1 \in 1 .. Len(queue[k][e])
<1>1. queue[k][e] \in Seq(Messages)
  BY DEF QueueShape
<1> QED
  BY <1>1

\* A sequence without its first element.
LEMMA TailElements ==
    ASSUME NEW S, NEW q \in Seq(S), q # <<>>
    PROVE  /\ Len(q) > 0 /\ Tail(q) \in Seq(S) /\ Len(Tail(q)) = Len(q) - 1
           /\ \A i \in 1 .. Len(Tail(q)) : Tail(q)[i] = q[i + 1]
  BY HeadTailProperties

\* Receiving takes the first message.
LEMMA ReceiveTakes ==
    ASSUME QueueShape, NEW k \in Conns, NEW e \in Ends, queue[k][e] # <<>>, Receive(k, e)
    PROVE  QueueShape' /\ Shorter(k, e)
<1>1. queue[k][e] \in Seq(Messages)
  BY QueueIsSeq
<1>2. PICK v : v = Tail(queue[k][e])
  OBVIOUS
<1>3. /\ v \in Seq(Messages)
      /\ Len(queue[k][e]) > 0 /\ Len(v) = Len(queue[k][e]) - 1
      /\ \A i \in 1 .. Len(v) : v[i] = queue[k][e][i + 1]
  BY <1>1, <1>2, TailElements
<1>4. queue' = [queue EXCEPT ![k][e] = v]
  BY <1>2 DEF Receive
<1>5. QueueShape' /\ queue'[k][e] = v /\ Others(k, e)
  BY <1>3, <1>4, QueueSet
<1> QED
  BY <1>3, <1>5 DEF Shorter

\* What is sent goes behind the rest, or is lost on an end that has closed.
LEMMA SendAdds ==
    ASSUME QueueShape, NEW k \in Conns, NEW e \in Ends, NEW m \in Messages, Send(k, e, m)
    PROVE  /\ QueueShape'
           /\ k \notin reset /\ (reset' = reset \/ reset' = reset \cup {k})
           /\ \/ Peer(e) \in closed[k] /\ queue' = queue
              \/ Peer(e) \notin closed[k] /\ reset' = reset /\ Longer(k, Peer(e), m)
<1>1. Peer(e) \in Ends
  BY DEF Peer, Ends
<1>2. CASE Peer(e) \in closed[k]
  BY <1>2 DEF Send, QueueShape
<1>3. CASE Peer(e) \notin closed[k]
  <2>1. queue[k][Peer(e)] \in Seq(Messages)
    BY <1>1, QueueIsSeq
  <2>2. PICK v : v = Append(queue[k][Peer(e)], m)
    OBVIOUS
  <2>3. /\ v \in Seq(Messages)
        /\ Len(v) = Len(queue[k][Peer(e)]) + 1
        /\ \A i \in 1 .. Len(queue[k][Peer(e)]) : v[i] = queue[k][Peer(e)][i]
        /\ v[Len(queue[k][Peer(e)]) + 1] = m
    BY <2>1, <2>2, AppendProperties
  <2>4. queue' = [queue EXCEPT ![k][Peer(e)] = v]
    BY <1>3, <2>2 DEF Send
  <2>5. QueueShape' /\ queue'[k][Peer(e)] = v /\ Others(k, Peer(e))
    BY <1>1, <2>3, <2>4, QueueSet
  <2> QED
    BY <1>3, <2>3, <2>5 DEF Longer, Send
<1> QED
  BY <1>2, <1>3

\* Closing an end throws away what it has not read.
LEMMA CloseEmpties ==
    ASSUME QueueShape, NEW k \in Conns, NEW e \in Ends, Close(k, e)
    PROVE  /\ QueueShape' /\ Emptied(k, e)
           /\ reset' = reset \/ reset' = reset \cup {k}
           /\ closed' = [closed EXCEPT ![k] = @ \cup {e}]
<1>1. <<>> \in Seq(Messages)
  OBVIOUS
<1>2. queue' = [queue EXCEPT ![k][e] = <<>>]
  BY DEF Close
<1>3. QueueShape' /\ queue'[k][e] = <<>> /\ Others(k, e)
  BY <1>1, <1>2, QueueSet
<1> QED
  BY <1>3 DEF Close, Emptied

\* A sequence whose first two elements become one.
LEMMA MergedSequence ==
    ASSUME NEW S, NEW q \in Seq(S), Len(q) > 1, NEW h \in S,
           NEW s, s = Tail(Tail(q)), NEW v, v = <<h>> \o s
    PROVE  /\ v \in Seq(S) /\ Len(v) = Len(q) - 1 /\ v[1] = h
           /\ \A i \in 2 .. Len(v) : v[i] = q[i + 1]
<1>1. PICK t : t = Tail(Tail(q)) /\ t = s
  OBVIOUS
<1>2. /\ t \in Seq(S) /\ Len(t) = Len(q) - 2
      /\ \A i \in 1 .. Len(q) - 2 : t[i] = q[i + 2]
  <2>1. PICK u : u = Tail(q)
    OBVIOUS
  <2>2. u \in Seq(S) /\ Len(u) = Len(q) - 1 /\ \A i \in 1 .. Len(q) - 1 : u[i] = q[i + 1]
    BY <2>1
  <2>3. t = Tail(u)
    BY <1>1, <2>1, Zenon
  <2>6. u # <<>>
    BY <2>2
  <2>4. t \in Seq(S) /\ Len(t) = Len(u) - 1 /\ \A i \in 1 .. Len(t) : t[i] = u[i + 1]
    BY <2>2, <2>3, <2>6, TailElements
  <2>5. ASSUME NEW i \in 1 .. Len(q) - 2 PROVE t[i] = q[i + 2]
    <3>1. i \in 1 .. Len(t) /\ i + 1 \in 1 .. Len(q) - 1 /\ (i + 1) + 1 = i + 2
      BY <2>2, <2>4
    <3> QED
      BY <2>2, <2>4, <3>1
  <2> QED
    BY <2>2, <2>4, <2>5
<1>3. PICK g : g = <<h>>
  OBVIOUS
<1>4. g \in Seq(S) /\ Len(g) = 1 /\ g[1] = h
  BY <1>3
<1>0. g \in Seq(S) /\ t \in Seq(S)
  BY <1>2, <1>4
<1>5. /\ g \o t \in Seq(S) /\ Len(g \o t) = Len(g) + Len(t)
      /\ \A i \in 1 .. Len(g) + Len(t) : (g \o t)[i] = IF i <= Len(g) THEN g[i] ELSE t[i - Len(g)]
  BY <1>0, ConcatProperties, Zenon
<1>6. v = g \o t
  BY <1>1, <1>3
<1>7. v \in Seq(S) /\ Len(v) = Len(q) - 1 /\ v[1] = h
  BY <1>2, <1>4, <1>5, <1>6
<1>8. ASSUME NEW i \in 2 .. Len(v) PROVE v[i] = q[i + 1]
  <2>1. i \in 1 .. Len(g) + Len(t) /\ ~ (i <= Len(g)) /\ i - 1 \in 1 .. Len(q) - 2
        /\ (i - 1) + 2 = i + 1
    BY <1>2, <1>4, <1>7
  <2>2. v[i] = t[i - 1]
    BY <1>4, <1>5, <1>6, <2>1
  <2> QED
    BY <1>2, <2>1, <2>2
<1> QED
  BY <1>7, <1>8

\* A sequence whose first element is changed.
LEMMA TornSequence ==
    ASSUME NEW S, NEW q \in Seq(S), q # <<>>, NEW h \in S,
           NEW v, v = <<h>> \o Tail(q)
    PROVE  /\ v \in Seq(S) /\ Len(v) = Len(q) /\ v[1] = h
           /\ \A i \in 2 .. Len(v) : v[i] = q[i]
<1>1. PICK t : t = Tail(q)
  OBVIOUS
<1>2. t \in Seq(S) /\ Len(t) = Len(q) - 1 /\ \A i \in 1 .. Len(q) - 1 : t[i] = q[i + 1]
  BY <1>1
<1>3. PICK g : g = <<h>>
  OBVIOUS
<1>4. g \in Seq(S) /\ Len(g) = 1 /\ g[1] = h
  BY <1>3
<1>0. g \in Seq(S) /\ t \in Seq(S)
  BY <1>2, <1>4
<1>5. /\ g \o t \in Seq(S) /\ Len(g \o t) = Len(g) + Len(t)
      /\ \A i \in 1 .. Len(g) + Len(t) : (g \o t)[i] = IF i <= Len(g) THEN g[i] ELSE t[i - Len(g)]
  BY <1>0, ConcatProperties, Zenon
<1>6. v = g \o t
  BY <1>1, <1>3
<1>7. v \in Seq(S) /\ Len(v) = Len(q) /\ v[1] = h
  BY <1>2, <1>4, <1>5, <1>6
<1>8. ASSUME NEW i \in 2 .. Len(v) PROVE v[i] = q[i]
  <2>1. i \in 1 .. Len(g) + Len(t) /\ ~ (i <= Len(g)) /\ i - 1 \in 1 .. Len(q) - 1
        /\ (i - 1) + 1 = i
    BY <1>2, <1>4, <1>7
  <2>2. v[i] = t[i - 1]
    BY <1>4, <1>5, <1>6, <2>1
  <2> QED
    BY <1>2, <2>1, <2>2
<1> QED
  BY <1>7, <1>8
-----------------------------------------------------------------------------
(***************************************************************************)
(* The connections.  Whatever an end sends, receives, tears or closes,     *)
(* requests of known users go to the server and responses to the client.   *)
(***************************************************************************)
Fits(e, message) ==
    IF e = "server" THEN message \in Requests /\ message.user \in Clients
                    ELSE message \in Responses
Elements ==
    \A k \in Conns : \A e \in Ends : \A i \in 1 .. Len(queue[k][e]) : Fits(e, queue[k][e][i])

NetworkOK ==
    /\ QueueShape /\ Elements
    /\ closed \in [Conns -> SUBSET Ends] /\ reset \subseteq Conns /\ opened \in 0 .. MaxConns

\* The queue that was changed is the one to look at.
LEMMA ElementsOfOne ==
    ASSUME NetworkOK, NEW k \in Conns, NEW e \in Ends, Others(k, e),
           \A i \in 1 .. Len(queue'[k][e]) : Fits(e, queue'[k][e][i])
    PROVE  Elements'
<1> SUFFICES ASSUME NEW l \in Conns, NEW f \in Ends, NEW i \in 1 .. Len(queue'[l][f])
             PROVE  Fits(f, queue'[l][f][i])
  BY DEF Elements, Fits
<1>1. CASE l = k /\ f = e
  BY <1>1
<1>2. CASE l # k \/ f # e
  <2>1. queue'[l][f] = queue[l][f]
    BY <1>2 DEF Others
  <2> QED
    BY <2>1 DEF NetworkOK, Elements
<1> QED
  BY <1>1, <1>2

\* A message is taken out.
LEMMA ShorterFits ==
    ASSUME NetworkOK, NEW k \in Conns, NEW e \in Ends, Shorter(k, e)
    PROVE  Elements'
<1>1. Len(queue[k][e]) \in Nat
  BY QueueIsSeq DEF NetworkOK
<1>2. ASSUME NEW i \in 1 .. Len(queue'[k][e]) PROVE Fits(e, queue'[k][e][i])
  <2>1. i + 1 \in 1 .. Len(queue[k][e]) /\ queue'[k][e][i] = queue[k][e][i + 1]
    BY <1>1 DEF Shorter
  <2> QED
    BY <2>1 DEF NetworkOK, Elements
<1> QED
  BY <1>2, ElementsOfOne DEF Shorter

\* A message that belongs there is added.
LEMMA LongerFits ==
    ASSUME NetworkOK, NEW k \in Conns, NEW e \in Ends, NEW m, Fits(e, m), Longer(k, e, m)
    PROVE  Elements'
<1>1. Len(queue[k][e]) \in Nat
  BY QueueIsSeq DEF NetworkOK
<1>2. ASSUME NEW i \in 1 .. Len(queue'[k][e]) PROVE Fits(e, queue'[k][e][i])
  <2>1. i \in 1 .. Len(queue[k][e]) \/ i = Len(queue[k][e]) + 1
    BY <1>1 DEF Longer
  <2> QED
    BY <2>1 DEF NetworkOK, Elements, Longer
<1> QED
  BY <1>2, ElementsOfOne DEF Longer

\* Nothing is left.
LEMMA EmptiedFits ==
    ASSUME NetworkOK, NEW k \in Conns, NEW e \in Ends, Emptied(k, e)
    PROVE  Elements'
<1>1. ASSUME NEW i \in 1 .. Len(queue'[k][e]) PROVE Fits(e, queue'[k][e][i])
  BY DEF Emptied
<1> QED
  BY <1>1, ElementsOfOne DEF Emptied

\* Remains of a request are a request of the same user.
LEMMA MergedFits ==
    ASSUME NetworkOK, NEW k \in Conns, Merged(k)
    PROVE  Elements'
<1>0. "server" \in Ends
  BY DEF Ends
<1>1. Len(queue[k]["server"]) \in Nat
  BY <1>0, QueueIsSeq DEF NetworkOK
<1>2. ASSUME NEW i \in 1 .. Len(queue'[k]["server"]) PROVE Fits("server", queue'[k]["server"][i])
  <2>1. CASE i = 1
    <3>1. 1 \in 1 .. Len(queue[k]["server"])
      BY <1>1 DEF Merged
    <3>2. queue[k]["server"][1].user \in Clients
      BY <1>0, <3>1 DEF NetworkOK, Elements, Fits
    <3> QED
      BY <2>1, <3>2 DEF Merged, Fits
  <2>2. CASE i # 1
    <3>1. i \in 2 .. Len(queue'[k]["server"]) /\ i + 1 \in 1 .. Len(queue[k]["server"])
      BY <1>1, <2>2 DEF Merged
    <3>2. queue'[k]["server"][i] = queue[k]["server"][i + 1]
      BY <3>1 DEF Merged
    <3> QED
      BY <1>0, <3>1, <3>2 DEF NetworkOK, Elements
  <2> QED
    BY <2>1, <2>2
<1>3. Others(k, "server")
  BY DEF Merged
<1> QED
  BY <1>0, <1>2, <1>3, ElementsOfOne

\* The rest of a response is a response.
LEMMA TornFits ==
    ASSUME NetworkOK, NEW k \in Conns, Torn(k)
    PROVE  Elements'
<1>0. "client" \in Ends
  BY DEF Ends
<1>1. Len(queue[k]["client"]) \in Nat
  BY <1>0, QueueIsSeq DEF NetworkOK
<1>2. ASSUME NEW i \in 1 .. Len(queue'[k]["client"]) PROVE Fits("client", queue'[k]["client"][i])
  <2>1. CASE i = 1
    BY <2>1 DEF Torn, Fits
  <2>2. CASE i # 1
    <3>1. i \in 2 .. Len(queue'[k]["client"]) /\ i \in 1 .. Len(queue[k]["client"])
      BY <1>1, <2>2 DEF Torn
    <3>2. queue'[k]["client"][i] = queue[k]["client"][i]
      BY <3>1 DEF Torn
    <3> QED
      BY <1>0, <3>1, <3>2 DEF NetworkOK, Elements
  <2> QED
    BY <2>1, <2>2
<1>3. Others(k, "client")
  BY DEF Torn
<1> QED
  BY <1>0, <1>2, <1>3, ElementsOfOne
-----------------------------------------------------------------------------
(***************************************************************************)
(* What server and clients are sure of: the types, that a socket is        *)
(* connected where it is used, and how many requests are waited for.       *)
(***************************************************************************)
Handlers == [is_authenticated : BOOLEAN, anonymous : BOOLEAN,
             user_data : Clients \cup {None}, euid : Clients \cup {Root}]

ServerOK ==
    /\ spc \in {"accept", "ignore", "read", "handle", "respond", "detach", "raise", "spin"}
    /\ current \in 0 .. opened /\ (spc # "accept" => current \in Conns)
    /\ request \in Requests /\ response \in Codes
    /\ spc = "handle" => request.user \in Clients
    /\ handler \in Handlers
    /\ sessions \subseteq Conns /\ aborted \subseteq Conns /\ closes_sent \subseteq Conns

Waiting == {"ping", "login", "put", "reply"}
Attached == Waiting \cup {"name", "closing", "hung"}

ClientFits(c) ==
    /\ cpc[c] \in Attached \/ is_connected[c] => sock[c] \in Conns
    /\ cpc[c] \in {"name", "login", "put", "reply"} => is_connected[c]
    /\ is_authenticated[c] => is_connected[c]
    /\ cpc[c] \in {"ping", "name"} => asked[c] = 1
    /\ given_up[c] <= asked[c] /\ (cpc[c] = "put" => given_up[c] < asked[c])
    /\ sock[c] \in Conns => sock[c] <= opened

ClientsOK ==
    /\ cpc \in [Clients -> {"prompt", "ping", "name", "login", "put", "reply",
                            "closing", "exiting", "dying", "hung", "ended"}]
    /\ sock \in [Clients -> Conns \cup {NoConn, Unconnected}]
    /\ is_connected \in [Clients -> BOOLEAN] /\ is_authenticated \in [Clients -> BOOLEAN]
    /\ asked \in [Clients -> 0 .. MaxRequests] /\ given_up \in [Clients -> 0 .. MaxRequests]
    /\ \A c \in Clients : ClientFits(c)

Safe == NetworkOK /\ ServerOK /\ ClientsOK

\* The ends are two.
LEMMA TwoEnds ==
    /\ "client" \in Ends /\ "server" \in Ends
    /\ Peer("client") = "server" /\ Peer("server") = "client"
    /\ \A e \in Ends : e = "client" \/ e = "server"
  BY DEF Ends, Peer

\* A request as the client makes it.
LEMMA RequestIsOne ==
    ASSUME ClientsOK, NEW c \in Clients,
           NEW command \in {"ping", "close"} \cup Logins \cup Commands \cup Remains
    PROVE  /\ Request(c, command) \in Requests
           /\ Request(c, command).command = command /\ Request(c, command).user = c
           /\ Request(c, command).number = asked[c] + 1
           /\ Fits("server", Request(c, command))
<1>1. asked[c] + 1 \in 1 .. MaxRequests + 1
  BY FtpAssumption DEF ClientsOK
<1>2. Request(c, command) \in Requests /\ Request(c, command).user = c
  BY <1>1 DEF Request, Requests
<1> QED
  BY <1>2 DEF Request, Fits

\* The first message of a queue, and what it is when it has arrived whole.
LEMMA FirstMessage ==
    ASSUME NetworkOK, NEW k \in Conns, NEW e \in Ends, queue[k][e] # <<>>
    PROVE  /\ Head(queue[k][e]) = queue[k][e][1] /\ 1 \in 1 .. Len(queue[k][e])
           /\ Fits(e, queue[k][e][1])
  BY QueueIsSeq DEF NetworkOK, Elements

\* The server takes a whole request of a known user.
LEMMA ServerReads ==
    ASSUME Safe, IgnoreFirst \/ ReadRequest
    PROVE  /\ current \in Conns /\ spc \in {"ignore", "read"}
           /\ QueueShape' /\ Shorter(current, "server")
           /\ request' = queue[current]["server"][1]
           /\ request' \in Requests /\ request'.user \in Clients
           /\ request'.command \notin Remains
           /\ UNCHANGED <<closed, reset, opened, current, clientVars, history>>
<1>1. /\ current \in Conns /\ Arrived(current, "server") /\ Receive(current, "server")
      /\ spc \in {"ignore", "read"}
      /\ request' = Head(queue[current]["server"])
      /\ UNCHANGED <<closed, reset, opened, current, clientVars, history>>
  BY DEF IgnoreFirst, ReadRequest, ServerGoto, NextRequest, Safe, ServerOK
<1>2. queue[current]["server"] # <<>> /\ Head(queue[current]["server"]).command \notin Remains
  BY <1>1 DEF Arrived, Spoilt
<1>3. QueueShape' /\ Shorter(current, "server")
  BY <1>1, <1>2, TwoEnds, ReceiveTakes DEF Safe, NetworkOK
<1>4. /\ request' = queue[current]["server"][1]
      /\ Fits("server", queue[current]["server"][1])
  BY <1>1, <1>2, TwoEnds, FirstMessage DEF Safe
<1> QED
  BY <1>1, <1>2, <1>3, <1>4 DEF Fits

\* Remains of a request with another command are a request of the same number and user.
LEMMA Recommanded ==
    ASSUME NEW r \in Requests
    PROVE  /\ [r EXCEPT !.command = "put"] \in Requests
           /\ [r EXCEPT !.command = "put"].user = r.user
           /\ [r EXCEPT !.command = "put"].number = r.number
           /\ [r EXCEPT !.command = "garbage"] \in Requests
           /\ [r EXCEPT !.command = "garbage"].command = "garbage"
           /\ [r EXCEPT !.command = "garbage"].user = r.user
           /\ [r EXCEPT !.command = "garbage"].number = r.number
  BY DEF Requests, Commands, Remains

\* Remains of a request take the request behind them.
LEMMA ServerMerges ==
    ASSUME Safe, SwallowRequest \/ ReadDamagedPut
    PROVE  /\ current \in Conns /\ spc = "read"
           /\ QueueShape' /\ Merged(current)
           /\ queue[current]["server"][1].command \in Remains
           /\ queue[current]["server"][1].command = "garbage" \/ ReadDamagedPut =>
                  queue'[current]["server"][1].command = "garbage"
           /\ ReadDamagedPut =>
                  /\ request' \in Requests /\ request'.user \in Clients
                  /\ request'.number = queue[current]["server"][1].number
                  /\ spc' = "handle"
           /\ ReadDamagedPut \/ UNCHANGED serverVars
           /\ UNCHANGED <<closed, reset, opened, current, clientVars, history>>
<1> DEFINE q == queue[current]["server"]
<1>1. /\ current \in Conns /\ spc = "read"
      /\ Spoilt(current, "server") /\ Len(q) > 1
      /\ UNCHANGED <<closed, reset, opened, current, clientVars, history>>
  BY DEF SwallowRequest, ReadDamagedPut, ServerGoto, serverVars, Safe, ServerOK
<1>2. q \in Seq(Messages) /\ q # <<>> /\ q[1] = Head(q) /\ q[1].command \in Remains
  BY <1>1, TwoEnds, QueueIsSeq DEF Spoilt, Safe, NetworkOK
<1>3. q[1] \in Requests /\ q[1].user \in Clients
  BY <1>1, <1>2, TwoEnds, FirstMessage DEF Safe, Fits
<1>4. PICK h \in Requests :
          /\ h.command \in Remains /\ h.number = q[1].number /\ h.user = q[1].user
          /\ q[1].command = "garbage" \/ ReadDamagedPut => h.command = "garbage"
          /\ queue' = [queue EXCEPT ![current]["server"] = <<h>> \o Tail(Tail(q))]
  <2>1. CASE SwallowRequest
    BY <1>2, <1>3, <2>1 DEF SwallowRequest, ReadDamagedPut, ServerGoto, serverVars
  <2>2. CASE ReadDamagedPut
    <3>1. queue' = [queue EXCEPT ![current]["server"] =
                        <<[q[1] EXCEPT !.command = "garbage"]>> \o Tail(Tail(q))]
      BY <1>2, <2>2 DEF ReadDamagedPut
    <3> QED
      BY <1>3, <3>1, Recommanded DEF Remains
  <2> QED
    BY <2>1, <2>2
<1>5. PICK s, v : s = Tail(Tail(q)) /\ v = <<h>> \o s
  OBVIOUS
<1>6. h \in Messages
  BY DEF Messages
<1>7. /\ v \in Seq(Messages) /\ Len(v) = Len(q) - 1 /\ v[1] = h
      /\ \A i \in 2 .. Len(v) : v[i] = q[i + 1]
  <2>1. q \in Seq(Messages) /\ Len(q) > 1
    BY <1>1, <1>2
  <2> HIDE DEF q
  <2>2. v \in Seq(Messages)
    BY <2>1, <1>5, <1>6, MergedSequence, Zenon
  <2>3. Len(v) = Len(q) - 1 /\ v[1] = h
    BY <2>1, <1>5, <1>6, MergedSequence, SMT
  <2>4. \A i \in 2 .. Len(v) : v[i] = q[i + 1]
    BY <2>1, <1>5, <1>6, MergedSequence, SMT
  <2> QED
    BY <2>2, <2>3, <2>4
<1>8. queue' = [queue EXCEPT ![current]["server"] = v]
  BY <1>4, <1>5
<1>9. QueueShape' /\ queue'[current]["server"] = v /\ Others(current, "server")
  BY <1>1, <1>7, <1>8, TwoEnds, QueueSet DEF Safe, NetworkOK
<1>10. Merged(current)
  BY <1>1, <1>4, <1>7, <1>9 DEF Merged
<1>11. ReadDamagedPut =>
                  /\ request' \in Requests /\ request'.user \in Clients
                  /\ request'.number = q[1].number
                  /\ spc' = "handle"
  BY <1>2, <1>3, Recommanded, SMTT(30) DEF ReadDamagedPut, ServerGoto, NextRequest
<1>12. q[1].command = "garbage" \/ ReadDamagedPut =>
           queue'[current]["server"][1].command = "garbage"
  BY <1>4, <1>7, <1>9
<1> QED
  BY <1>1, <1>2, <1>9, <1>10, <1>11, <1>12 DEF SwallowRequest

\* The server answers the request in hand.
LEMMA ServerAnswers ==
    ASSUME Safe, SendResponse
    PROVE  \E m \in Responses :
               /\ m.code = response /\ m.number = request.number /\ current \in Conns
               /\ QueueShape' /\ current \notin reset
               /\ reset' = reset \/ reset' = reset \cup {current}
               /\ \/ "client" \in closed[current] /\ queue' = queue
                  \/ "client" \notin closed[current] /\ Longer(current, "client", m)
<1>1. PICK m \in Responses : m = [code |-> response, number |-> request.number]
  BY DEF Responses, Requests, Safe, ServerOK
<1>2. m \in Messages /\ current \in Conns /\ Send(current, "server", m)
  BY <1>1 DEF Messages, SendResponse, ServerGoto, Safe, ServerOK
<1>3. m.code = response /\ m.number = request.number
  BY <1>1
<1>4. /\ QueueShape'
      /\ current \notin reset /\ (reset' = reset \/ reset' = reset \cup {current})
      /\ \/ Peer("server") \in closed[current] /\ queue' = queue
         \/ /\ Peer("server") \notin closed[current] /\ reset' = reset
            /\ Longer(current, Peer("server"), m)
  BY <1>2, TwoEnds, SendAdds DEF Safe, NetworkOK
<1> QED
  BY <1>2, <1>3, <1>4, TwoEnds

\* The server closes its end.
LEMMA ServerCloses ==
    ASSUME Safe, Detach \/ Abort
    PROVE  /\ current \in Conns /\ QueueShape' /\ Emptied(current, "server")
           /\ reset' = reset \/ reset' = reset \cup {current}
           /\ closed' = [closed EXCEPT ![current] = @ \cup {"server"}]
<1>1. current \in Conns /\ Close(current, "server")
  BY DEF Detach, Abort, ServerGoto, Safe, ServerOK
<1> QED
  BY <1>1, TwoEnds, CloseEmpties DEF Safe, NetworkOK
\* A client takes a whole response.
LEMMA ClientTakes ==
    ASSUME Safe, NEW c \in Clients, TakesResponse(c)
    PROVE  /\ sock[c] \in Conns /\ cpc[c] \in Waiting
           /\ QueueShape' /\ Shorter(sock[c], "client")
           /\ queue[sock[c]]["client"][1] = Head(queue[sock[c]]["client"])
           /\ queue[sock[c]]["client"][1] \in Responses
           /\ queue[sock[c]]["client"][1].code # "torn"
           /\ UNCHANGED <<closed, reset, opened, serverVars, sock, asked, given_up, history>>
<1>1. /\ Arrived(sock[c], "client") /\ Receive(sock[c], "client") /\ cpc[c] \in Waiting
      /\ UNCHANGED <<closed, reset, opened, serverVars, sock, asked, given_up, history>>
  BY DEF TakesResponse, TakeGreeting, TakeLoginResponse, TakeReply, ClientGoto, Waiting
<1>2. sock[c] \in Conns
  BY <1>1 DEF Safe, ClientsOK, ClientFits, Attached
<1>3. queue[sock[c]]["client"] # <<>> /\ Head(queue[sock[c]]["client"]).code # "torn"
  BY <1>1 DEF Arrived, Spoilt
<1>4. QueueShape' /\ Shorter(sock[c], "client")
  BY <1>1, <1>2, <1>3, TwoEnds, ReceiveTakes DEF Safe, NetworkOK
<1>5. /\ queue[sock[c]]["client"][1] = Head(queue[sock[c]]["client"])
      /\ Fits("client", queue[sock[c]]["client"][1])
  BY <1>2, <1>3, TwoEnds, FirstMessage DEF Safe
<1> QED
  BY <1>1, <1>2, <1>3, <1>4, <1>5 DEF Fits

\* A time-out leaves a part of a response.
LEMMA ClientTears ==
    ASSUME Safe, NEW c \in Clients, TearResponse(c)
    PROVE  sock[c] \in Conns /\ QueueShape' /\ Torn(sock[c])
<1> DEFINE q == queue[sock[c]]["client"]
<1>1. sock[c] \in Conns /\ Arrived(sock[c], "client")
  BY DEF TearResponse, ClientGoto, Safe, ClientsOK, ClientFits, Attached, Waiting
<1>2. q \in Seq(Messages) /\ q # <<>> /\ q[1] = Head(q) /\ Len(q) > 0
  BY <1>1, TwoEnds, QueueIsSeq DEF Arrived, Safe, NetworkOK
<1>3. q[1] \in Responses
  BY <1>1, <1>2, TwoEnds, FirstMessage DEF Safe, Fits
<1>4. PICK h \in Responses :
          /\ h.code = "torn" /\ h.number = q[1].number
          /\ queue' = [queue EXCEPT ![sock[c]]["client"] = <<h>> \o Tail(q)]
  <2>1. queue' = [queue EXCEPT ![sock[c]]["client"] =
                      <<[q[1] EXCEPT !.code = "torn"]>> \o Tail(q)]
    BY <1>2 DEF TearResponse
  <2>2. \A r \in Responses : /\ [r EXCEPT !.code = "torn"] \in Responses
                             /\ [r EXCEPT !.code = "torn"].code = "torn"
                             /\ [r EXCEPT !.code = "torn"].number = r.number
    BY DEF Responses, Codes
  <2> QED
    BY <1>3, <2>1, <2>2
<1>5. PICK v : v = <<h>> \o Tail(q)
  OBVIOUS
<1>6. h \in Messages
  BY DEF Messages
<1>7. /\ v \in Seq(Messages) /\ Len(v) = Len(q) /\ v[1] = h
      /\ \A i \in 2 .. Len(v) : v[i] = q[i]
  BY <1>2, <1>5, <1>6, TornSequence
<1>8. queue' = [queue EXCEPT ![sock[c]]["client"] = v]
  BY <1>4, <1>5
<1>9. QueueShape' /\ queue'[sock[c]]["client"] = v /\ Others(sock[c], "client")
  BY <1>1, <1>7, <1>8, TwoEnds, QueueSet DEF Safe, NetworkOK
<1> QED
  BY <1>1, <1>2, <1>4, <1>7, <1>9 DEF Torn

\* A client sends a request, if it is connected.
LEMMA ClientSends ==
    ASSUME Safe, NEW c \in Clients, sock[c] \in Conns,
           NEW command \in {"ping", "close"} \cup Logins \cup Commands \cup Remains,
           Send(sock[c], "client", Request(c, command))
    PROVE  \E m \in Requests :
               /\ m = Request(c, command) /\ Fits("server", m)
               /\ m.command = command /\ m.number = asked[c] + 1
               /\ QueueShape' /\ sock[c] \notin reset
               /\ reset' = reset \/ reset' = reset \cup {sock[c]}
               /\ \/ "server" \in closed[sock[c]] /\ queue' = queue
                  \/ "server" \notin closed[sock[c]] /\ reset' = reset
                     /\ Longer(sock[c], "server", m)
<1>1. PICK m \in Requests : m = Request(c, command) /\ Fits("server", m)
                            /\ m.command = command /\ m.number = asked[c] + 1
  BY RequestIsOne DEF Safe
<1>2. m \in Messages /\ Send(sock[c], "client", m)
  BY <1>1 DEF Messages
<1>3. /\ QueueShape'
      /\ sock[c] \notin reset /\ (reset' = reset \/ reset' = reset \cup {sock[c]})
      /\ \/ Peer("client") \in closed[sock[c]] /\ queue' = queue
         \/ /\ Peer("client") \notin closed[sock[c]] /\ reset' = reset
            /\ Longer(sock[c], Peer("client"), m)
  BY <1>2, TwoEnds, SendAdds DEF Safe, NetworkOK
<1> QED
  BY <1>1, <1>3, TwoEnds
\* The clients are as they were.
LEMMA ClientsKept ==
    ASSUME ClientsOK, UNCHANGED <<clientVars, opened>>
    PROVE  ClientsOK'
  BY DEF ClientsOK, clientVars, ClientFits

\* The server is as it was.
LEMMA ServerKept ==
    ASSUME NetworkOK, ServerOK, UNCHANGED <<serverVars, sessions, aborted>>,
           closes_sent' \subseteq Conns, opened' \in 0 .. MaxConns, opened <= opened'
    PROVE  ServerOK'
<1>1. current' \in 0 .. opened'
  BY FtpAssumption DEF NetworkOK, ServerOK, serverVars
<1> QED
  BY <1>1 DEF ServerOK, serverVars

\* So are the connections.
LEMMA NetworkKept ==
    ASSUME NetworkOK, UNCHANGED <<queue, closed, opened>>, reset' \subseteq Conns
    PROVE  NetworkOK'
  BY DEF NetworkOK, QueueShape, Elements

\* A message is received.
LEMMA NetworkReceives ==
    ASSUME NetworkOK, NEW k \in Conns, NEW e \in Ends, QueueShape', Shorter(k, e),
           UNCHANGED <<closed, reset, opened>>
    PROVE  NetworkOK'
<1>1. Elements'
  BY ShorterFits
<1> QED
  BY <1>1 DEF NetworkOK

\* A message is sent, and perhaps lost.
LEMMA NetworkSends ==
    ASSUME NetworkOK, NEW k \in Conns, NEW e \in Ends, NEW m, Fits(e, m),
           QueueShape', queue' = queue \/ Longer(k, e, m),
           reset' = reset \/ reset' = reset \cup {k}, UNCHANGED <<closed, opened>>
    PROVE  NetworkOK'
<1>1. Elements'
  <2>1. CASE queue' = queue
    BY <2>1 DEF NetworkOK, Elements
  <2>2. CASE Longer(k, e, m)
    BY <2>2, LongerFits
  <2> QED
    BY <2>1, <2>2
<1> QED
  BY <1>1 DEF NetworkOK

\* An end is closed.
LEMMA NetworkCloses ==
    ASSUME NetworkOK, NEW k \in Conns, NEW e \in Ends, QueueShape', Emptied(k, e),
           reset' = reset \/ reset' = reset \cup {k},
           closed' = [closed EXCEPT ![k] = @ \cup {e}], UNCHANGED opened
    PROVE  NetworkOK'
<1>1. Elements'
  BY EmptiedFits
<1> QED
  BY <1>1 DEF NetworkOK

\* One step per action of the server.
LEMMA SafeServer == Safe /\ Server => Safe'
<1> SUFFICES ASSUME Safe, Server PROVE NetworkOK' /\ ServerOK' /\ ClientsOK'
  BY DEF Safe
<1>0. NetworkOK /\ ServerOK /\ ClientsOK
  BY DEF Safe
<1> USE DEF ServerGoto
<1>1. ASSUME UNCHANGED <<network, clientVars>> PROVE NetworkOK' /\ ClientsOK'
  BY <1>0, <1>1, ClientsKept, NetworkKept DEF network, NetworkOK
<1>2. CASE Accept
  <2>1. current' \in 0 .. opened' /\ current' \in Conns
    BY <1>0, <1>2, FtpAssumption DEF Accept, Backlog, network, NetworkOK, ServerOK, Conns
  <2> QED
    BY <1>0, <1>1, <1>2, <2>1 DEF Accept, history, ServerOK
<1>3. CASE IgnoreFirst \/ ReadRequest
  <2>1. NetworkOK'
    BY <1>0, <1>3, ServerReads, TwoEnds, NetworkReceives
  <2>2. spc' \in {"respond", "detach", "handle"} /\ response' \in Codes /\ handler' = handler
    BY <1>0, <1>3 DEF IgnoreFirst, ReadRequest, Codes, ServerOK
  <2>3. ServerOK'
    BY <1>0, <1>3, <2>2, ServerReads DEF ServerOK, history
  <2> QED
    BY <1>0, <1>3, <2>1, <2>3, ServerReads, ClientsKept
<1>4. CASE SwallowRequest \/ ReadDamagedPut
  <2>1. NetworkOK'
    <3>1. Elements'
      BY <1>0, <1>4, ServerMerges, MergedFits
    <3> QED
      BY <1>0, <1>4, <3>1, ServerMerges DEF NetworkOK
  <2>2. response' = response /\ handler' = handler
    BY <1>4 DEF SwallowRequest, ReadDamagedPut, serverVars
  <2>3. ServerOK'
    <3>1. CASE ReadDamagedPut
      BY <1>0, <1>4, <2>2, <3>1, ServerMerges DEF ServerOK, history
    <3>2. CASE UNCHANGED serverVars
      <4>1. UNCHANGED <<sessions, aborted, closes_sent, opened>>
        BY <1>4, ServerMerges DEF history
      <4> QED
        BY <1>0, <3>2, <4>1, ServerKept DEF NetworkOK, ServerOK
    <3> QED
      BY <1>4, <3>1, <3>2, ServerMerges
  <2> QED
    BY <1>0, <1>4, <2>1, <2>3, ServerMerges, ClientsKept
<1>5. CASE ReadGarbage \/ ReadEOF \/ SpinAtEOF \/ ReadFails \/ HandlerRaises \/ ShadowFileUnreadable
  <2>1. UNCHANGED <<network, clientVars, current, request, response, handler, history>>
        /\ spc' \in {"raise", "spin"} /\ spc # "accept"
    BY <1>5 DEF ReadGarbage, ReadEOF, SpinAtEOF, ReadFails, HandlerRaises,
                ShadowFileUnreadable, vars, serverVars
  <2>2. ServerOK'
    BY <1>0, <2>1 DEF ServerOK, network, history
  <2> QED
    BY <1>1, <2>1, <2>2
<1>6. CASE HandleCommand \/ RefuseLogin
  <2>1. UNCHANGED <<network, clientVars, current, request, handler, history>>
        /\ spc' = "respond" /\ spc = "handle" /\ response' \in Codes
    BY <1>6 DEF HandleCommand, RefuseLogin, Codes
  <2>2. ServerOK'
    BY <1>0, <2>1 DEF ServerOK, network, history
  <2> QED
    BY <1>1, <2>1, <2>2
<1>7. CASE HandleLogin \/ HandleAnonymousLogin
  <2>1. UNCHANGED <<network, clientVars, current, request>>
        /\ spc' \in {"respond", "raise"} /\ spc = "handle" /\ response' \in Codes
        /\ sessions' = sessions \cup {current} /\ UNCHANGED <<aborted, closes_sent>>
    BY <1>7 DEF HandleLogin, HandleAnonymousLogin, Codes
  <2>2. handler' \in Handlers
    <3>1. CASE HandleLogin
      <4>1. request.user \in Clients
        BY <1>0, <2>1 DEF ServerOK
      <4>2. handler' = [is_authenticated |-> TRUE, anonymous |-> FALSE,
                        user_data |-> request.user, euid |-> request.user]
        BY <3>1 DEF HandleLogin
      <4> QED
        BY <4>1, <4>2 DEF Handlers
    <3>2. CASE HandleAnonymousLogin
      <4>1. handler \in Handlers
        BY <1>0 DEF ServerOK
      <4>2. handler' = [handler EXCEPT !.is_authenticated = TRUE, !.anonymous = TRUE]
        BY <3>2 DEF HandleAnonymousLogin
      <4> QED
        BY <4>1, <4>2 DEF Handlers
    <3> QED
      BY <1>7, <3>1, <3>2
  <2>3. ServerOK'
    BY <1>0, <2>1, <2>2 DEF ServerOK, network
  <2> QED
    BY <1>1, <2>1, <2>3
<1>8. CASE SendResponse
  <2>1. NetworkOK'
    <3>1. PICK m \in Responses :
               /\ m.code = response /\ m.number = request.number /\ current \in Conns
               /\ QueueShape' /\ current \notin reset
               /\ reset' = reset \/ reset' = reset \cup {current}
               /\ \/ "client" \in closed[current] /\ queue' = queue
                  \/ "client" \notin closed[current] /\ Longer(current, "client", m)
      BY <1>8, ServerAnswers
    <3>2. Fits("client", m)
      BY DEF Fits
    <3> QED
      BY <1>0, <1>8, <3>1, <3>2, TwoEnds, NetworkSends DEF SendResponse
  <2>2. ServerOK'
    BY <1>0, <1>8 DEF SendResponse, ServerOK, history
  <2> QED
    BY <1>0, <1>8, <2>1, <2>2, ClientsKept DEF SendResponse
<1>9. CASE SendResponseFails
  <2>1. NetworkOK'
    <3>1. reset' \subseteq Conns
      BY <1>0, <1>9 DEF SendResponseFails, SendFails, ServerOK, NetworkOK
    <3> QED
      BY <1>0, <1>9, <3>1, NetworkKept DEF SendResponseFails
  <2>2. ServerOK'
    BY <1>0, <1>9 DEF SendResponseFails, ServerOK, history
  <2> QED
    BY <1>0, <1>9, <2>1, <2>2, ClientsKept DEF SendResponseFails
<1>10. CASE Detach \/ Abort
  <2>1. NetworkOK'
    BY <1>0, <1>10, ServerCloses, TwoEnds, NetworkCloses DEF Detach, Abort
  <2>2. handler' \in Handlers
    <3>1. NoSession \in Handlers /\ handler \in Handlers
      BY <1>0 DEF NoSession, Handlers, ServerOK
    <3> QED
      BY <1>10, <3>1 DEF Detach, Abort, ShutDown
  <2>3. /\ spc' = "accept" /\ UNCHANGED <<opened, current, request, response, clientVars>>
        /\ sessions' \subseteq Conns /\ aborted' \subseteq Conns /\ closes_sent' \subseteq Conns
    BY <1>0, <1>10, ServerCloses DEF Detach, Abort, history, ServerOK
  <2>4. ServerOK'
    BY <1>0, <2>2, <2>3 DEF ServerOK
  <2> QED
    BY <1>0, <2>1, <2>3, <2>4, ClientsKept
<1> QED
  BY <1>2, <1>3, <1>4, <1>5, <1>6, <1>7, <1>8, <1>9, <1>10 DEF Server
\* Where the clients are when one of them has moved.
LEMMA ClientMoves ==
    ASSUME ClientsOK, NEW c \in Clients, opened \in Nat, opened' \in Nat, opened <= opened',
           \A b \in Clients : b # c =>
               /\ cpc'[b] = cpc[b] /\ sock'[b] = sock[b]
               /\ is_connected'[b] = is_connected[b]
               /\ is_authenticated'[b] = is_authenticated[b]
               /\ asked'[b] = asked[b] /\ given_up'[b] = given_up[b],
           ClientFits(c)'
    PROVE  \A b \in Clients : ClientFits(b)'
<1> SUFFICES ASSUME NEW b \in Clients, b # c PROVE ClientFits(b)'
  OBVIOUS
<1>1. ClientFits(b)
  BY DEF ClientsOK
<1>2. sock[b] \in Conns => sock[b] <= opened'
  BY <1>1 DEF ClientFits, Conns
<1> QED
  BY <1>1, <1>2 DEF ClientFits

\* A client sends a request, and the connections are in order.
LEMMA NetworkAsked ==
    ASSUME Safe, NEW c \in Clients, sock[c] \in Conns,
           NEW command \in {"ping", "close"} \cup Logins \cup Commands \cup Remains,
           Send(sock[c], "client", Request(c, command)), UNCHANGED <<closed, opened>>
    PROVE  NetworkOK'
<1>1. PICK m \in Requests :
               /\ m = Request(c, command) /\ Fits("server", m)
               /\ QueueShape'
               /\ reset' = reset \/ reset' = reset \cup {sock[c]}
               /\ queue' = queue \/ Longer(sock[c], "server", m)
  BY ClientSends
<1> QED
  BY <1>1, TwoEnds, NetworkSends DEF Safe

\* One step per action of a client.
LEMMA SafeClient ==
    ASSUME Safe, NEW c \in Clients, Client(c)
    PROVE  Safe'
<1> SUFFICES NetworkOK' /\ ServerOK' /\ ClientsOK'
  BY DEF Safe
<1>0. NetworkOK /\ ServerOK /\ ClientsOK /\ ClientFits(c)
  BY DEF Safe, ClientsOK
<1>1. opened \in 0 .. MaxConns /\ opened \in Nat /\ MaxConns \in Nat
  BY <1>0, FtpAssumption DEF NetworkOK
<1>2. ASSUME UNCHANGED <<serverVars, sessions, aborted, opened>>, closes_sent' \subseteq Conns
      PROVE  ServerOK'
  BY <1>0, <1>1, <1>2, ServerKept
<1>02. ASSUME UNCHANGED <<serverVars, history, opened>> PROVE ServerOK'
  BY <1>0, <1>2, <1>02 DEF history, ServerOK
<1> USE DEF ClientGoto, flags, Attached, Waiting
<1>3. CASE OpenBadPort(c)
  <2>1. ClientsOK'
    BY <1>0, <1>3, FtpAssumption DEF OpenBadPort, network, ClientsOK, ClientFits, Unconnected, Conns
  <2> QED
    BY <1>0, <1>02, <1>3, <2>1, NetworkKept DEF OpenBadPort, network, NetworkOK
<1>4. CASE Open(c)
  <2>1. opened + 1 \in Conns /\ opened' = opened + 1 /\ opened' \in 0 .. MaxConns
    BY <1>1, <1>4 DEF Open, Conns
  <2>14. PICK first \in {"ping", "close"} :
             /\ queue' = [queue EXCEPT ![opened + 1]["server"] =
                              <<[command |-> first, number |-> 1, user |-> c]>>]
             /\ cpc' = [cpc EXCEPT ![c] = IF first = "ping" THEN "ping" ELSE "exiting"]
    BY <1>4 DEF Open
  <2>2. PICK m : m = [command |-> first, number |-> 1, user |-> c]
    OBVIOUS
  <2>12. m \in Requests /\ m.user = c /\ m \in Messages
    <3>1. 1 \in 1 .. MaxRequests + 1
      BY FtpAssumption
    <3> QED
      BY <2>2, <3>1 DEF Requests, Messages
  <2>13. PICK v : v = <<m>>
    OBVIOUS
  <2>3. v \in Seq(Messages) /\ Len(v) = 1 /\ v[1] = m
    BY <2>12, <2>13
  <2>4. queue' = [queue EXCEPT ![opened + 1]["server"] = v]
    BY <2>2, <2>13, <2>14
  <2>5. QueueShape' /\ queue'[opened + 1]["server"] = v /\ Others(opened + 1, "server")
    BY <1>0, <2>1, <2>3, <2>4, TwoEnds, QueueSet DEF NetworkOK
  <2>6. Elements'
    <3>1. \A i \in 1 .. Len(queue'[opened + 1]["server"]) :
              Fits("server", queue'[opened + 1]["server"][i])
      <4>1. ASSUME NEW i \in 1 .. Len(v) PROVE v[i] = m
        <5>1. i = 1
          BY <2>3
        <5> QED
          BY <2>3, <5>1
      <4>2. Fits("server", m)
        BY <2>12 DEF Fits
      <4> QED
        BY <2>5, <4>1, <4>2
    <3> QED
      BY <1>0, <2>1, <2>5, <3>1, TwoEnds, ElementsOfOne
  <2>7. NetworkOK'
    BY <1>0, <1>4, <2>1, <2>5, <2>6 DEF Open, NetworkOK
  <2>8. ClientFits(c)'
    BY <1>0, <1>4, <2>1, <2>14, FtpAssumption DEF Open, ClientsOK, ClientFits, Conns
  <2>9. \A b \in Clients : ClientFits(b)'
    BY <1>0, <1>1, <1>4, <2>1, <2>8, <2>14, ClientMoves DEF Open, ClientsOK
  <2>10. ClientsOK'
    BY <1>0, <1>4, <2>1, <2>9, <2>14, FtpAssumption DEF Open, ClientsOK
  <2>11. ServerOK'
    BY <1>0, <1>1, <1>4, <2>1, ServerKept DEF Open, history, ServerOK
  <2> QED
    BY <2>7, <2>10, <2>11
<1>5. CASE TakesResponse(c)
  <2>1. NetworkOK'
    BY <1>0, <1>5, ClientTakes, TwoEnds, NetworkReceives
  <2>2. is_authenticated' \in [Clients -> BOOLEAN]
    BY <1>0, <1>5 DEF TakesResponse, TakeGreeting, TakeLoginResponse, TakeReply, LoginGranted, ClientsOK
  <2>3. /\ cpc' \in [Clients -> {"prompt", "ping", "name", "login", "put", "reply",
                                 "closing", "exiting", "dying", "hung", "ended"}]
        /\ is_connected' \in [Clients -> BOOLEAN]
    BY <1>0, <1>5 DEF TakesResponse, TakeGreeting, TakeLoginResponse, TakeReply, ClientsOK
  <2>4. ClientFits(c)'
    BY <1>0, <1>5 DEF TakesResponse, TakeGreeting, TakeLoginResponse, TakeReply, ClientsOK, ClientFits
  <2>5. \A b \in Clients : ClientFits(b)'
    BY <1>0, <1>5 DEF TakesResponse, TakeGreeting, TakeLoginResponse, TakeReply, ClientsOK, ClientFits
  <2>6. ClientsOK'
    BY <1>0, <1>5, <2>2, <2>3, <2>5, ClientTakes DEF ClientsOK
  <2> QED
    BY <1>02, <1>5, <2>1, <2>6, ClientTakes
<1>6. ASSUME NEW login \in Logins, SendLogin(c, login) PROVE NetworkOK' /\ ServerOK' /\ ClientsOK'
  <2>1. NetworkOK'
    BY <1>0, <1>6, NetworkAsked DEF SendLogin, ClientFits
  <2>2. ClientsOK'
    BY <1>0, <1>6, FtpAssumption DEF SendLogin, ClientsOK, ClientFits
  <2> QED
    BY <1>02, <1>6, <2>1, <2>2 DEF SendLogin
<1>7. ASSUME NEW command \in Commands, Ask(c, command) PROVE NetworkOK' /\ ServerOK' /\ ClientsOK'
  <2>1. NetworkOK'
    BY <1>0, <1>7, NetworkAsked DEF Ask, ClientFits
  <2>2. ClientsOK'
    BY <1>0, <1>7, FtpAssumption DEF Ask, ClientsOK, ClientFits
  <2> QED
    BY <1>02, <1>7, <2>1, <2>2 DEF Ask
<1>8. CASE TearRequest(c)
  <2>0. "torn" \in Remains
    BY DEF Remains
  <2>1. NetworkOK'
    BY <1>0, <1>8, <2>0, NetworkAsked DEF TearRequest, ClientFits
  <2>2. ClientsOK'
    BY <1>0, <1>8, FtpAssumption DEF TearRequest, ClientsOK, ClientFits
  <2> QED
    BY <1>02, <1>8, <2>1, <2>2 DEF TearRequest
<1>9. CASE GiveUpPut(c) \/ TearResponse(c)
  <2>1. NetworkOK'
    <3>1. CASE GiveUpPut(c)
      BY <1>0, <3>1, NetworkKept DEF GiveUpPut, network, NetworkOK
    <3>2. CASE TearResponse(c)
      <4>1. Elements'
        BY <1>0, <3>2, ClientTears, TornFits
      <4> QED
        BY <1>0, <3>2, <4>1, ClientTears DEF TearResponse, NetworkOK
    <3> QED
      BY <1>9, <3>1, <3>2
  <2>2. /\ cpc[c] = "put" /\ cpc' = [cpc EXCEPT ![c] = "prompt"]
        /\ given_up' = [given_up EXCEPT ![c] = @ + 1]
        /\ UNCHANGED <<serverVars, opened, sock, flags, asked, history>>
    BY <1>9 DEF GiveUpPut, TearResponse, network
  <2>3. ClientsOK'
    BY <1>0, <2>2, FtpAssumption DEF ClientsOK, ClientFits
  <2> QED
    BY <1>02, <2>1, <2>2, <2>3
<1>10. CASE WaitFails(c) \/ EndOfInput(c) \/ HangAtEOF(c)
  <2>1. /\ UNCHANGED <<network, serverVars, sock, flags, asked, given_up, history>>
        /\ \/ cpc' = [cpc EXCEPT ![c] = "dying"]
           \/ cpc' = [cpc EXCEPT ![c] = "hung"] /\ cpc[c] \in Waiting
    BY <1>10 DEF WaitFails, EndOfInput, HangAtEOF
  <2>2. ClientsOK'
    BY <1>0, <2>1 DEF network, ClientsOK, ClientFits
  <2> QED
    BY <1>0, <1>02, <2>1, <2>2, NetworkKept DEF network, NetworkOK
<1>11. CASE RequestFails(c) \/ CloseFails(c)
  <2>1. /\ UNCHANGED <<queue, closed, opened, serverVars, sock, flags, asked, given_up, history>>
        /\ \E to \in {"dying", "prompt"} : cpc' = [cpc EXCEPT ![c] = to]
        /\ reset' = reset \/ (reset' = reset \cup {sock[c]} /\ sock[c] \in Conns)
        /\ cpc'[c] = "prompt" => cpc[c] = "prompt"
    <3>1. cpc[c] = "name" \/ is_authenticated[c] => sock[c] \in Conns
      BY <1>0 DEF ClientFits
    <3>2. CASE RequestFails(c)
      BY <1>0, <3>1, <3>2 DEF RequestFails, SendFails, ClientsOK
    <3>3. CASE CloseFails(c)
      BY <1>0, <3>3 DEF CloseFails, SendFails, ClientsOK
    <3> QED
      BY <1>11, <3>2, <3>3
  <2>2. NetworkOK'
    BY <1>0, <2>1, NetworkKept DEF NetworkOK
  <2>3. ClientsOK'
    BY <1>0, <2>1 DEF ClientsOK, ClientFits
  <2> QED
    BY <1>02, <2>1, <2>2, <2>3
<1>12. CASE SendClose(c)
  <2>1. NetworkOK'
    BY <1>0, <1>12, NetworkAsked DEF SendClose
  <2>2. ClientsOK'
    BY <1>0, <1>12 DEF SendClose, ClientsOK, ClientFits
  <2> QED
    BY <1>0, <1>2, <1>12, <2>1, <2>2 DEF SendClose, ServerOK
<1>13. CASE FinishClose(c)
  <2>1. sock[c] \in Conns /\ Close(sock[c], "client")
    BY <1>0, <1>13 DEF FinishClose, ClientFits
  <2>2. NetworkOK'
    BY <1>0, <1>13, <2>1, CloseEmpties, TwoEnds, NetworkCloses DEF FinishClose, NetworkOK
  <2>3. ClientsOK'
    BY <1>0, <1>13 DEF FinishClose, Reset, ClientsOK, ClientFits, NoConn, Conns
  <2> QED
    BY <1>02, <1>13, <2>2, <2>3 DEF FinishClose
<1>14. CASE End(c)
  <2>1. NetworkOK'
    <3>1. CASE sock[c] \in Conns
      <4>1. Close(sock[c], "client")
        BY <1>14, <3>1 DEF End
      <4> QED
        BY <1>0, <1>14, <3>1, <4>1, CloseEmpties, TwoEnds, NetworkCloses DEF End, NetworkOK
    <3>2. CASE sock[c] \notin Conns
      BY <1>0, <1>14, <3>2, NetworkKept DEF End, NetworkOK
    <3> QED
      BY <3>1, <3>2
  <2>2. ClientsOK'
    BY <1>0, <1>14 DEF End, ClientsOK, ClientFits
  <2> QED
    BY <1>02, <1>14, <2>1, <2>2 DEF End
<1>15. TakeGreeting(c) \/ TakeLoginResponse(c) \/ TakeReply(c) => TakesResponse(c)
  BY DEF TakesResponse
<1> QED
  BY <1>3, <1>4, <1>5, <1>6, <1>7, <1>8, <1>9, <1>10, <1>11, <1>12, <1>13, <1>14, <1>15 DEF Client

\* No connection, no session, no client asking.
LEMMA SafeInit == Init => Safe
<1> SUFFICES ASSUME Init PROVE Safe
  OBVIOUS
<1>1. NetworkOK
  <2>1. <<>> \in Seq(Messages) /\ 0 \in 0 .. MaxConns
    BY FtpAssumption
  <2> QED
    BY <2>1 DEF Init, NetworkOK, QueueShape, Elements
<1>2. ServerOK
  <2>1. [command |-> "ping", number |-> 1, user |-> None] \in Requests
    BY FtpAssumption DEF Requests
  <2>2. NoSession \in Handlers
    BY DEF NoSession, Handlers
  <2> QED
    BY <2>1, <2>2 DEF Init, ServerOK, NoConn, Codes
<1>3. ClientsOK
  BY FtpAssumption DEF Init, ClientsOK, ClientFits, Attached, Waiting, NoConn, Conns
<1> QED
  BY <1>1, <1>2, <1>3 DEF Safe

\* A step of a server or a client, or none.
LEMMA SafeStep == Safe /\ [Next]_vars => Safe'
<1> SUFFICES ASSUME Safe, [Next]_vars PROVE Safe'
  OBVIOUS
<1>1. CASE UNCHANGED vars
  <2>1. UNCHANGED <<network, serverVars, clientVars, history>>
    BY <1>1 DEF vars
  <2>2. NetworkOK' /\ ClientsOK'
    BY <2>1, NetworkKept, ClientsKept DEF network, Safe, NetworkOK
  <2>3. ServerOK'
    BY <2>1 DEF network, serverVars, history, Safe, ServerOK
  <2> QED
    BY <2>2, <2>3 DEF Safe
<1>2. CASE Server
  BY <1>2, SafeServer
<1>3. ASSUME NEW c \in Clients, Client(c) PROVE Safe'
  BY <1>3, SafeClient
<1> QED
  BY <1>1, <1>2, <1>3 DEF Next, Quiet

\* Elements of the right kind make a sequence of them.
LEMMA SeqOfElements ==
    ASSUME NEW S, NEW T, NEW q \in Seq(S), \A i \in 1 .. Len(q) : q[i] \in T
    PROVE  q \in Seq(T)
<1>1. q = [i \in 1 .. Len(q) |-> q[i]] /\ Len(q) \in Nat
  OBVIOUS
<1>2. [i \in 1 .. Len(q) |-> q[i]] \in [1 .. Len(q) -> T]
  OBVIOUS
<1> QED
  BY <1>1, <1>2, SeqDef

\* What the runs call TypeOK.
LEMMA SafeMeans == Safe => TypeOK
<1> SUFFICES ASSUME Safe PROVE TypeOK
  OBVIOUS
<1>1. ASSUME NEW k \in Conns
      PROVE  queue[k]["server"] \in Seq(Requests) /\ queue[k]["client"] \in Seq(Responses)
  <2>1. /\ queue[k]["server"] \in Seq(Messages) /\ queue[k]["client"] \in Seq(Messages)
    BY TwoEnds, QueueIsSeq DEF Safe, NetworkOK
  <2>2. /\ \A i \in 1 .. Len(queue[k]["server"]) : queue[k]["server"][i] \in Requests
        /\ \A i \in 1 .. Len(queue[k]["client"]) : queue[k]["client"][i] \in Responses
    BY TwoEnds DEF Safe, NetworkOK, Elements, Fits
  <2> QED
    BY <2>1, <2>2, SeqOfElements
<1>2. \A c \in Clients : is_connected[c] => sock[c] \in Conns
  BY DEF Safe, ClientsOK, ClientFits
<1> QED
  BY <1>1, <1>2 DEF Safe, NetworkOK, QueueShape, ServerOK, Handlers, ClientsOK, TypeOK
(***************************************************************************)
(* The variables of server and clients, and what is on the connections,    *)
(* keep their types, and with them the bounds of what is sent.             *)
(***************************************************************************)
THEOREM TypeSafety == Spec => []TypeOK
<1>1. Spec => []Safe
  BY SafeInit, SafeStep, PTL DEF Spec
<1> QED
  BY <1>1, SafeMeans, PTL

-----------------------------------------------------------------------------
(***************************************************************************)
(* Who is logged in.  "granted" is said to a connection that has set the   *)
(* session, and read by the client of that connection only.                *)
(***************************************************************************)
Granted ==
    \A k \in Conns : \A i \in 1 .. Len(queue[k]["client"]) :
        queue[k]["client"][i].code = "granted" => k \in sessions
GrantedInHand == spc = "respond" /\ response = "granted" => current \in sessions
LoggedIn == \A c \in Clients : is_authenticated[c] => sock[c] \in sessions

SessionsOK == Granted /\ GrantedInHand /\ LoggedIn /\ SessionOfCurrentConnection

\* Only what was changed of the queues of the clients is to be looked at.
LEMMA GrantedOfOne ==
    ASSUME Granted, sessions \subseteq sessions', NEW k \in Conns, NEW e \in Ends, Others(k, e),
           \A i \in 1 .. Len(queue'[k]["client"]) :
               e = "client" /\ queue'[k]["client"][i].code = "granted" => k \in sessions'
    PROVE  Granted'
<1> SUFFICES ASSUME NEW l \in Conns, NEW i \in 1 .. Len(queue'[l]["client"]),
                    queue'[l]["client"][i].code = "granted"
             PROVE  l \in sessions'
  BY DEF Granted
<1>1. CASE l = k /\ e = "client"
  BY <1>1
<1>2. CASE ~ (l = k /\ e = "client")
  <2>1. queue'[l]["client"] = queue[l]["client"]
    BY <1>2, TwoEnds DEF Others
  <2> QED
    BY <2>1 DEF Granted
<1> QED
  BY <1>1, <1>2

\* Nothing becomes a response that was none.
LEMMA GrantedKept ==
    ASSUME Safe, Granted, sessions \subseteq sessions', NEW k \in Conns,
           \/ queue' = queue \/ Shorter(k, "client") \/ Torn(k) \/ Emptied(k, "client")
           \/ Others(k, "server")
    PROVE  Granted'
<1>0. Len(queue[k]["client"]) \in Nat
  BY TwoEnds, QueueIsSeq DEF Safe, NetworkOK
<1>1. CASE queue' = queue
  BY <1>1 DEF Granted
<1>2. CASE Shorter(k, "client")
  <2>1. ASSUME NEW i \in 1 .. Len(queue'[k]["client"]), queue'[k]["client"][i].code = "granted"
        PROVE  k \in sessions'
    <3>1. i + 1 \in 1 .. Len(queue[k]["client"])
      BY <1>0, <1>2 DEF Shorter
    <3> QED
      BY <1>2, <2>1, <3>1 DEF Shorter, Granted
  <2> QED
    BY <1>2, <2>1, TwoEnds, GrantedOfOne DEF Shorter
<1>3. CASE Torn(k)
  <2>1. ASSUME NEW i \in 1 .. Len(queue'[k]["client"]), queue'[k]["client"][i].code = "granted"
        PROVE  k \in sessions'
    <3>1. i # 1
      BY <1>3, <2>1 DEF Torn
    <3>2. i \in 2 .. Len(queue'[k]["client"]) /\ i \in 1 .. Len(queue[k]["client"])
      BY <1>0, <1>3, <3>1 DEF Torn
    <3> QED
      BY <1>3, <2>1, <3>2 DEF Torn, Granted
  <2> QED
    BY <1>3, <2>1, TwoEnds, GrantedOfOne DEF Torn
<1>4. CASE Emptied(k, "client")
  <2>1. \A i \in 1 .. Len(queue'[k]["client"]) : queue'[k]["client"][i].code # "granted"
    BY <1>4 DEF Emptied
  <2> QED
    BY <1>4, <2>1, TwoEnds, GrantedOfOne DEF Emptied
<1>5. CASE Others(k, "server")
  BY <1>5, TwoEnds, GrantedOfOne
<1> QED
  BY <1>1, <1>2, <1>3, <1>4, <1>5

\* Which queues a client touches.
LEMMA ClientQueues ==
    ASSUME Safe, NEW c \in Clients, Client(c)
    PROVE  \/ queue' = queue
           \/ \E k \in Conns : \/ Shorter(k, "client") \/ Torn(k) \/ Emptied(k, "client")
                               \/ Others(k, "server")
<1>0. NetworkOK /\ ClientsOK /\ ClientFits(c)
  BY DEF Safe, ClientsOK
<1>1. CASE Open(c)
  <2>3. PICK first \in {"ping", "close"} :
            queue' = [queue EXCEPT ![opened + 1]["server"] =
                          <<[command |-> first, number |-> 1, user |-> c]>>]
    BY <1>1 DEF Open
  <2>4. opened + 1 \in Conns
    BY <1>0, <1>1, FtpAssumption DEF Open, NetworkOK, Conns
  <2>1. PICK v : opened + 1 \in Conns /\ queue' = [queue EXCEPT ![opened + 1]["server"] = v]
    BY <2>3, <2>4
  <2>2. Others(opened + 1, "server")
    BY <1>0, <2>1, TwoEnds DEF Others, NetworkOK, QueueShape
  <2> QED
    BY <2>1, <2>2
<1>2. CASE TakesResponse(c)
  BY <1>2, ClientTakes
<1>3. CASE TearResponse(c)
  BY <1>3, ClientTears
<1>4. ASSUME sock[c] \in Conns,
             NEW command \in {"ping", "close"} \cup Logins \cup Commands \cup Remains,
             Send(sock[c], "client", Request(c, command))
      PROVE  queue' = queue \/ Others(sock[c], "server")
  <2>1. PICK m \in Requests : queue' = queue \/ Longer(sock[c], "server", m)
    BY <1>4, ClientSends
  <2> QED
    BY <2>1 DEF Longer
<1>5. ASSUME NEW login \in Logins, SendLogin(c, login)
      PROVE  queue' = queue \/ (Others(sock[c], "server") /\ sock[c] \in Conns)
  BY <1>0, <1>4, <1>5 DEF SendLogin, ClientGoto, ClientFits, Attached
<1>6. ASSUME NEW command \in Commands, Ask(c, command)
      PROVE  queue' = queue \/ (Others(sock[c], "server") /\ sock[c] \in Conns)
  BY <1>0, <1>4, <1>6 DEF Ask, ClientFits
<1>7. CASE TearRequest(c)
  BY <1>0, <1>4, <1>7 DEF TearRequest, ClientFits, Remains
<1>8. CASE SendClose(c)
  BY <1>4, <1>8 DEF SendClose
<1>9. CASE FinishClose(c) \/ End(c)
  <2>1. (sock[c] \in Conns /\ Close(sock[c], "client")) \/ queue' = queue
    BY <1>0, <1>9 DEF FinishClose, End, ClientGoto, ClientFits, Attached
  <2> QED
    BY <1>0, <2>1, TwoEnds, CloseEmpties DEF NetworkOK
<1>10. CASE \/ OpenBadPort(c) \/ GiveUpPut(c) \/ WaitFails(c) \/ EndOfInput(c) \/ HangAtEOF(c)
            \/ RequestFails(c) \/ CloseFails(c)
  BY <1>10 DEF OpenBadPort, GiveUpPut, WaitFails, EndOfInput, HangAtEOF, RequestFails, CloseFails, network
<1> QED
  BY <1>1, <1>2, <1>3, <1>5, <1>6, <1>7, <1>8, <1>9, <1>10 DEF Client, TakesResponse

\* What a client takes for a login is the answer to one on its own connection.
LEMMA SessionsClient ==
    ASSUME Safe, SessionsOK, NEW c \in Clients, Client(c)
    PROVE  SessionsOK'
<1>0. ClientsOK /\ ClientFits(c)
  BY DEF Safe, ClientsOK
<1>1. UNCHANGED <<serverVars, sessions, aborted>>
  BY DEF Client, OpenBadPort, Open, TakeGreeting, SendLogin, TakeLoginResponse, Ask, TakeReply,
         GiveUpPut, TearRequest, TearResponse, WaitFails, EndOfInput, HangAtEOF, RequestFails, SendClose,
         FinishClose, CloseFails, End, history
<1>2. Granted'
  BY <1>1, ClientQueues, GrantedKept DEF SessionsOK, Safe, NetworkOK, Granted
<1>3. GrantedInHand' /\ SessionOfCurrentConnection'
  BY <1>1 DEF SessionsOK, GrantedInHand, SessionOfCurrentConnection, serverVars
<1>4. LoggedIn'
  <2>1. CASE UNCHANGED <<sock, is_authenticated>>
    BY <1>1, <2>1 DEF SessionsOK, LoggedIn
  <2>2. CASE OpenBadPort(c) \/ Open(c) \/ FinishClose(c)
    <3>1. /\ \A b \in Clients : b # c => /\ is_authenticated'[b] = is_authenticated[b]
                                         /\ sock'[b] = sock[b]
          /\ ~ is_authenticated'[c]
      BY <1>0, <2>2 DEF OpenBadPort, Open, FinishClose, Reset, flags, ClientsOK, ClientFits
    <3> QED
      BY <1>1, <3>1 DEF SessionsOK, LoggedIn
  <2>3. CASE TakeLoginResponse(c)
    <3>1. LoginResponse(c) = "granted" => sock[c] \in sessions
      <4>1. sock[c] \in Conns /\ queue[sock[c]]["client"][1] = Head(queue[sock[c]]["client"])
            /\ queue[sock[c]]["client"] # <<>>
        BY <2>3, ClientTakes DEF TakesResponse, TakeLoginResponse, Arrived
      <4>2. 1 \in 1 .. Len(queue[sock[c]]["client"])
        BY <4>1, TwoEnds, QueueIsSeq DEF Safe, NetworkOK
      <4> QED
        BY <4>1, <4>2 DEF LoginResponse, SessionsOK, Granted
    <3>2. /\ sock' = sock /\ sessions' = sessions
          /\ is_authenticated' = [is_authenticated EXCEPT ![c] = LoginGranted(c)]
      BY <1>1, <2>3 DEF TakeLoginResponse
    <3>3. ASSUME NEW b \in Clients, is_authenticated'[b] PROVE sock'[b] \in sessions'
      <4>1. CASE b = c
        BY <1>0, <3>1, <3>2, <3>3, <4>1 DEF ClientsOK, LoginGranted
      <4>2. CASE b # c
        BY <1>0, <3>2, <3>3, <4>2 DEF ClientsOK, SessionsOK, LoggedIn
      <4> QED
        BY <4>1, <4>2
    <3> QED
      BY <3>3 DEF LoggedIn
  <2> QED
    BY <2>1, <2>2, <2>3 DEF Client, TakeGreeting, SendLogin, Ask, TakeReply,
         GiveUpPut, TearRequest, TearResponse, WaitFails, EndOfInput, HangAtEOF, RequestFails, SendClose,
         CloseFails, End, flags
<1> QED
  BY <1>2, <1>3, <1>4 DEF SessionsOK

\* A session is the session of the connection that is served when it is set.
LEMMA SessionsServer ==
    ASSUME Safe, SessionsOK, Server
    PROVE  SessionsOK'
<1> USE DEF ServerGoto
<1>0. NetworkOK /\ ServerOK /\ "client" \in Ends /\ "server" \in Ends
  BY TwoEnds DEF Safe
<1>1. UNCHANGED clientVars /\ sessions \subseteq sessions'
  BY DEF Server, Accept, IgnoreFirst, ReadRequest, SwallowRequest, ReadDamagedPut, ReadGarbage,
         ReadEOF, SpinAtEOF, ReadFails, HandleCommand, HandlerRaises, HandleLogin,
         HandleAnonymousLogin, RefuseLogin, ShadowFileUnreadable, SendResponse,
         SendResponseFails, Detach, Abort, vars, history
<1>2. LoggedIn'
  BY <1>1 DEF SessionsOK, LoggedIn, clientVars
<1>3. Granted'
  <2>1. CASE queue' = queue
    BY <1>1, <2>1 DEF SessionsOK, Granted
  <2>2. ASSUME current \in Conns, Others(current, "server") PROVE Granted'
    BY <1>1, <2>2, GrantedKept DEF SessionsOK
  <2>3. CASE IgnoreFirst \/ ReadRequest
    BY <2>2, <2>3, ServerReads DEF Shorter
  <2>4. CASE SwallowRequest \/ ReadDamagedPut
    BY <2>2, <2>4, ServerMerges DEF Merged
  <2>5. CASE Detach \/ Abort
    BY <2>2, <2>5, ServerCloses DEF Emptied
  <2>6. CASE SendResponse
    <3>1. PICK m \in Responses :
               /\ m.code = response /\ current \in Conns
               /\ queue' = queue \/ Longer(current, "client", m)
      BY <2>6, ServerAnswers
    <3>2. CASE Longer(current, "client", m)
      <4>1. ASSUME NEW i \in 1 .. Len(queue'[current]["client"]),
                   queue'[current]["client"][i].code = "granted"
            PROVE  current \in sessions'
        <5>1. Len(queue[current]["client"]) \in Nat
          BY <1>0, <3>1, QueueIsSeq DEF NetworkOK
        <5>2. i \in 1 .. Len(queue[current]["client"]) \/ i = Len(queue[current]["client"]) + 1
          BY <3>2, <5>1 DEF Longer
        <5>3. CASE i \in 1 .. Len(queue[current]["client"])
          BY <1>1, <3>1, <3>2, <4>1, <5>3 DEF Longer, SessionsOK, Granted
        <5>4. CASE i = Len(queue[current]["client"]) + 1
          <6>1. response = "granted" /\ spc = "respond"
            BY <2>6, <3>1, <3>2, <4>1, <5>4 DEF Longer, SendResponse
          <6> QED
            BY <1>1, <6>1 DEF SessionsOK, GrantedInHand
        <5> QED
          BY <5>2, <5>3, <5>4
      <4> QED
        BY <1>0, <1>1, <3>1, <3>2, <4>1, GrantedOfOne DEF Longer, SessionsOK
    <3> QED
      BY <2>1, <3>1, <3>2
  <2> QED
    BY <2>1, <2>3, <2>4, <2>5, <2>6 DEF Server, Accept, ReadGarbage, ReadEOF, SpinAtEOF, ReadFails,
         HandleCommand, HandlerRaises, HandleLogin, HandleAnonymousLogin, RefuseLogin,
         ShadowFileUnreadable, SendResponseFails, network, vars
<1>4. GrantedInHand' /\ SessionOfCurrentConnection'
  <2>1. CASE HandleLogin
    <3>1. handler'.user_data = handler'.euid
      BY <2>1 DEF HandleLogin
    <3> QED
      BY <2>1, <3>1 DEF HandleLogin, GrantedInHand, SessionOfCurrentConnection
  <2>2. CASE HandleAnonymousLogin
    <3>1. handler \in Handlers /\ handler' = [handler EXCEPT !.is_authenticated = TRUE, !.anonymous = TRUE]
      BY <1>0, <2>2 DEF HandleAnonymousLogin, ServerOK
    <3>2. handler'.user_data = handler.user_data /\ handler'.euid = handler.euid
      BY <3>1 DEF Handlers
    <3> QED
      BY <2>2, <3>2 DEF HandleAnonymousLogin, GrantedInHand, SessionOfCurrentConnection, SessionsOK
  <2>3. CASE Detach
    <3>1. handler' = NoSession /\ NoSession.euid = Root
      BY <2>3 DEF Detach, ShutDown, NoSession
    <3> QED
      BY <2>3, <3>1 DEF Detach, GrantedInHand, SessionOfCurrentConnection
  <2>4. CASE Abort
    BY <2>4 DEF Abort, GrantedInHand, SessionOfCurrentConnection, SessionsOK
  <2>5. CASE Accept
    BY <2>5 DEF Accept, GrantedInHand, SessionOfCurrentConnection, SessionsOK, history
  <2>6. CASE \/ IgnoreFirst \/ ReadRequest \/ ReadDamagedPut \/ ReadGarbage \/ ReadEOF \/ ReadFails
             \/ HandleCommand \/ HandlerRaises \/ RefuseLogin \/ ShadowFileUnreadable
             \/ SendResponse \/ SendResponseFails
    BY <2>6 DEF IgnoreFirst, ReadRequest, ReadDamagedPut, ReadGarbage, ReadEOF, ReadFails,
             HandleCommand, HandlerRaises, RefuseLogin, ShadowFileUnreadable, SendResponse,
             SendResponseFails, GrantedInHand, SessionOfCurrentConnection, SessionsOK, history
  <2>7. CASE SwallowRequest \/ SpinAtEOF
    BY <2>7 DEF SwallowRequest, SpinAtEOF, vars, serverVars, history, GrantedInHand,
             SessionOfCurrentConnection, SessionsOK
  <2> QED
    BY <2>1, <2>2, <2>3, <2>4, <2>5, <2>6, <2>7 DEF Server
<1> QED
  BY <1>2, <1>3, <1>4 DEF SessionsOK

\* Nobody is logged in at the start.
LEMMA SessionsInit == Init => SessionsOK
<1>1. NoSession.euid = Root
  BY DEF NoSession
<1> QED
  BY <1>1 DEF Init, SessionsOK, Granted, GrantedInHand, LoggedIn, SessionOfCurrentConnection, Ends

\* A step of a server or a client, or none.
LEMMA SessionsStep == Safe /\ SessionsOK /\ [Next]_vars => SessionsOK'
<1> SUFFICES ASSUME Safe, SessionsOK, [Next]_vars PROVE SessionsOK'
  OBVIOUS
<1>1. CASE UNCHANGED vars
  BY <1>1 DEF vars, network, serverVars, clientVars, history, SessionsOK, Granted, GrantedInHand,
              LoggedIn, SessionOfCurrentConnection
<1>2. CASE Server
  BY <1>2, SessionsServer
<1>3. ASSUME NEW c \in Clients, Client(c) PROVE SessionsOK'
  BY <1>3, SessionsClient
<1> QED
  BY <1>1, <1>2, <1>3 DEF Next, Quiet

\* Both parts of what follows rest on one invariant.
LEMMA SessionsAlways == Spec => [](Safe /\ SessionsOK)
<1>1. Init => Safe /\ SessionsOK
  BY SafeInit, SessionsInit
<1>2. Safe /\ SessionsOK /\ [Next]_vars => (Safe /\ SessionsOK)'
  BY SafeStep, SessionsStep
<1> QED
  BY <1>1, <1>2, PTL DEF Spec

(***************************************************************************)
(* A client takes itself for logged in only where the server has opened a  *)
(* session for it: FTPClient.login and RequestHandler.                     *)
(***************************************************************************)
THEOREM SessionSafety == Spec => []LoggedInAtBothEnds
<1>1. Safe /\ SessionsOK => LoggedInAtBothEnds
  BY DEF Safe, ClientsOK, ClientFits, SessionsOK, LoggedIn, LoggedInAtBothEnds
<1> QED
  BY <1>1, SessionsAlways, PTL

(***************************************************************************)
(* The one handler of all connections is in a session only for the         *)
(* connection it serves, as the user of that session, but after an         *)
(* exception: the main loop of server.py, which serves one connection      *)
(* after the other and shuts each session down.                            *)
(***************************************************************************)
THEOREM SessionOwner == Spec => []SessionOfCurrentConnection
<1>1. Safe /\ SessionsOK => SessionOfCurrentConnection
  BY DEF SessionsOK
<1> QED
  BY <1>1, SessionsAlways, PTL

-----------------------------------------------------------------------------
(***************************************************************************)
(* The steps of server and clients by what they do to the connections.     *)
(* Live is a client that may still take a response, Taken counts the       *)
(* responses it has taken or given up.                                     *)
(***************************************************************************)
Live(c) == cpc[c] \in Waiting \cup {"prompt", "name"} /\ sock[c] \in Conns
Taken(c) == asked[c] - given_up[c] - (IF cpc[c] \in Waiting THEN 1 ELSE 0)

Waits(c) ==
    \/ OpenBadPort(c) \/ GiveUpPut(c) \/ WaitFails(c) \/ EndOfInput(c) \/ HangAtEOF(c)
    \/ RequestFails(c) \/ CloseFails(c) \/ (End(c) /\ sock[c] \notin Conns)
Reads(c) == TakesResponse(c) \/ TearResponse(c)
Asks(c) ==
    \/ \E login \in Logins : SendLogin(c, login)
    \/ \E command \in Commands : Ask(c, command)
    \/ TearRequest(c) \/ SendClose(c)
Leaves(c) == FinishClose(c) \/ (End(c) /\ sock[c] \in Conns)

Thinks ==
    \/ Accept \/ ReadGarbage \/ ReadEOF \/ SpinAtEOF \/ ReadFails
    \/ HandleCommand \/ HandlerRaises \/ HandleLogin \/ HandleAnonymousLogin
    \/ RefuseLogin \/ ShadowFileUnreadable \/ SendResponseFails

\* There are no others.
LEMMA Kinds ==
    /\ \A c \in Clients : Client(c) =>
           Waits(c) \/ Reads(c) \/ Asks(c) \/ Leaves(c) \/ Open(c)
    /\ Server =>
           \/ Thinks \/ IgnoreFirst \/ ReadRequest \/ SwallowRequest \/ ReadDamagedPut
           \/ SendResponse \/ Detach \/ Abort
<1>1. ASSUME NEW c \in Clients, Client(c)
      PROVE  Waits(c) \/ Reads(c) \/ Asks(c) \/ Leaves(c) \/ Open(c)
  BY <1>1 DEF Client, Waits, Reads, TakesResponse, Asks, Leaves
<1>2. ASSUME Server
      PROVE  \/ Thinks \/ IgnoreFirst \/ ReadRequest \/ SwallowRequest \/ ReadDamagedPut
             \/ SendResponse \/ Detach \/ Abort
  BY <1>2 DEF Server, Thinks
<1> QED
  BY <1>1, <1>2

\* A client leaves the server and the other clients alone.
OneMoves(c) ==
    /\ UNCHANGED <<serverVars, sessions, aborted>>
    /\ \A b \in Clients : b # c => /\ cpc'[b] = cpc[b] /\ sock'[b] = sock[b]
                                   /\ asked'[b] = asked[b] /\ given_up'[b] = given_up[b]

\* A step of a client is of that kind.
LEMMA ClientAlone ==
    ASSUME ClientsOK, NEW c \in Clients, Client(c)
    PROVE  OneMoves(c)
<1> USE DEF ClientGoto, OneMoves, ClientsOK, history
<1>1. CASE Waits(c)
  BY <1>1 DEF Waits, OpenBadPort, GiveUpPut, WaitFails, EndOfInput, HangAtEOF, RequestFails, CloseFails, End
<1>2. CASE Reads(c)
  BY <1>2 DEF Reads, TakesResponse, TakeGreeting, TakeLoginResponse, TakeReply, TearResponse
<1>3. CASE Asks(c)
  BY <1>3 DEF Asks, SendLogin, Ask, TearRequest, SendClose
<1>4. CASE Leaves(c) \/ Open(c)
  BY <1>4 DEF Leaves, FinishClose, End, Open
<1> QED
  BY <1>1, <1>2, <1>3, <1>4, Kinds

\* A client that waits changes nothing but its own state, and may send a reset.
LEMMA WaitsEffect ==
    ASSUME Safe, NEW c \in Clients, Waits(c)
    PROVE  /\ UNCHANGED <<queue, closed, opened, closes_sent>> /\ reset \subseteq reset'
           /\ cpc[c] # "ended" /\ cpc'[c] # "closing"
           /\ sock'[c] = sock[c] \/ sock'[c] = Unconnected
           /\ Live(c)' => Live(c) /\ Taken(c)' = Taken(c) /\ asked'[c] = asked[c]
<1>0. ClientsOK /\ ClientFits(c)
  BY DEF Safe, ClientsOK
<1> USE <1>0, FtpAssumption DEF ClientGoto, flags, network, history, ClientsOK, Waiting, Live, Taken
<1>1. CASE OpenBadPort(c)
  BY <1>1 DEF OpenBadPort, Unconnected, Conns
<1>2. CASE GiveUpPut(c)
  BY <1>2 DEF GiveUpPut
<1>3. CASE WaitFails(c) \/ EndOfInput(c) \/ HangAtEOF(c)
  BY <1>3 DEF WaitFails, EndOfInput, HangAtEOF
<1>4. CASE RequestFails(c) \/ CloseFails(c)
  BY <1>4 DEF RequestFails, CloseFails, SendFails
<1>5. CASE End(c) /\ sock[c] \notin Conns
  BY <1>5 DEF End
<1> QED
  BY <1>1, <1>2, <1>3, <1>4, <1>5 DEF Waits

\* A client reads from its own socket.
LEMMA ReadsEffect ==
    ASSUME Safe, NEW c \in Clients, Reads(c)
    PROVE  /\ sock[c] \in Conns /\ Live(c) /\ cpc'[c] \in {"name", "prompt", "dying"}
           /\ UNCHANGED <<closed, reset, opened, sock, asked, closes_sent>>
           /\ \/ Shorter(sock[c], "client") /\ Taken(c)' = Taken(c) + 1
              \/ Torn(sock[c]) /\ Taken(c)' = Taken(c)
<1>0. ClientsOK
  BY DEF Safe
<1> USE <1>0, FtpAssumption DEF ClientGoto, flags, history, ClientsOK, Waiting, Live, Taken
<1>1. CASE TakesResponse(c)
  <2>1. cpc[c] \in Waiting /\ cpc' = [cpc EXCEPT ![c] = cpc'[c]]
        /\ cpc'[c] \in {"name", "prompt", "dying"}
    BY <1>1 DEF TakesResponse, TakeGreeting, TakeLoginResponse, TakeReply
  <2> QED
    BY <1>1, <2>1, ClientTakes
<1>2. CASE TearResponse(c)
  <2>1. /\ cpc[c] = "put" /\ cpc' = [cpc EXCEPT ![c] = "prompt"]
        /\ given_up' = [given_up EXCEPT ![c] = @ + 1]
        /\ UNCHANGED <<closed, reset, opened, sock, asked, closes_sent>>
    BY <1>2 DEF TearResponse
  <2>2. /\ cpc'[c] = "prompt" /\ given_up'[c] = given_up[c] + 1
        /\ asked[c] \in Nat /\ given_up[c] \in Nat
    BY <2>1
  <2>3. Taken(c)' = Taken(c)
    BY <2>1, <2>2
  <2> QED
    BY <1>2, <2>1, <2>2, <2>3, ClientTears
<1> QED
  BY <1>1, <1>2 DEF Reads

\* A client asks on its own socket; the last thing it asks is to close.
LEMMA AsksEffect ==
    ASSUME Safe, NEW c \in Clients, Asks(c)
    PROVE  \E m \in Requests :
               /\ sock[c] \in Conns /\ sock[c] \notin reset /\ reset \subseteq reset'
               /\ cpc[c] \notin {"ended", "closing", "exiting"}
               /\ m.number = asked[c] + 1
               /\ \/ "server" \in closed[sock[c]] /\ queue' = queue
                  \/ "server" \notin closed[sock[c]] /\ Longer(sock[c], "server", m)
               /\ UNCHANGED <<closed, opened, sock>>
               /\ \/ /\ m.command = "close" /\ cpc'[c] \in {"closing", "exiting"}
                     /\ closes_sent' = closes_sent \cup {sock[c]}
                  \/ /\ Live(c) /\ cpc'[c] # "closing" /\ closes_sent' = closes_sent
                     /\ asked'[c] = asked[c] + 1 /\ Taken(c)' = Taken(c)
<1>0. ClientsOK /\ ClientFits(c)
  BY DEF Safe, ClientsOK
<1>1. PICK command \in {"ping", "close"} \cup Logins \cup Commands \cup Remains :
          /\ Send(sock[c], "client", Request(c, command))
          /\ sock[c] \in Conns /\ cpc[c] \notin {"ended", "closing", "exiting"}
          /\ UNCHANGED <<closed, opened, sock>>
          /\ \/ /\ command = "close" /\ cpc'[c] \in {"closing", "exiting"}
                /\ closes_sent' = closes_sent \cup {sock[c]}
             \/ /\ Live(c) /\ cpc'[c] # "closing" /\ closes_sent' = closes_sent
                /\ asked'[c] = asked[c] + 1 /\ Taken(c)' = Taken(c)
  <2> USE <1>0, FtpAssumption DEF ClientGoto, flags, history, ClientsOK, ClientFits, Attached, Waiting,
                                  Live, Taken
  <2>1. ASSUME NEW login \in Logins, SendLogin(c, login)
        PROVE  /\ Send(sock[c], "client", Request(c, login))
               /\ sock[c] \in Conns /\ cpc[c] \notin {"ended", "closing", "exiting"}
               /\ UNCHANGED <<closed, opened, sock>>
               /\ Live(c) /\ cpc'[c] # "closing" /\ closes_sent' = closes_sent
               /\ asked'[c] = asked[c] + 1 /\ Taken(c)' = Taken(c)
    BY <2>1 DEF SendLogin
  <2>2. ASSUME NEW command \in Commands, Ask(c, command)
        PROVE  /\ Send(sock[c], "client", Request(c, command))
               /\ sock[c] \in Conns /\ cpc[c] \notin {"ended", "closing", "exiting"}
               /\ UNCHANGED <<closed, opened, sock>>
               /\ Live(c) /\ cpc'[c] # "closing" /\ closes_sent' = closes_sent
               /\ asked'[c] = asked[c] + 1 /\ Taken(c)' = Taken(c)
    BY <2>2 DEF Ask
  <2>3. ASSUME TearRequest(c)
        PROVE  /\ Send(sock[c], "client", Request(c, "torn"))
               /\ sock[c] \in Conns /\ cpc[c] \notin {"ended", "closing", "exiting"}
               /\ UNCHANGED <<closed, opened, sock>>
               /\ Live(c) /\ cpc'[c] # "closing" /\ closes_sent' = closes_sent
               /\ asked'[c] = asked[c] + 1 /\ Taken(c)' = Taken(c)
    BY <2>3 DEF TearRequest
  <2>4. ASSUME SendClose(c)
        PROVE  /\ Send(sock[c], "client", Request(c, "close"))
               /\ sock[c] \in Conns /\ cpc[c] \notin {"ended", "closing", "exiting"}
               /\ UNCHANGED <<closed, opened, sock>>
               /\ cpc'[c] \in {"closing", "exiting"} /\ closes_sent' = closes_sent \cup {sock[c]}
    BY <2>4 DEF SendClose
  <2>5. "torn" \in Remains
    BY DEF Remains
  <2> HIDE DEF ClientGoto, flags, history, ClientsOK, ClientFits, Attached, Waiting, Live, Taken
  <2>6. CASE \E login \in Logins : SendLogin(c, login)
    BY <2>1, <2>6
  <2>7. CASE \E command \in Commands : Ask(c, command)
    BY <2>2, <2>7
  <2>8. CASE TearRequest(c)
    BY <2>3, <2>5, <2>8
  <2>9. CASE SendClose(c)
    BY <2>4, <2>9
  <2> QED
    BY <2>6, <2>7, <2>8, <2>9 DEF Asks
<1>2. PICK m \in Requests :
          /\ m.command = command /\ m.number = asked[c] + 1
          /\ sock[c] \notin reset /\ (reset' = reset \/ reset' = reset \cup {sock[c]})
          /\ \/ "server" \in closed[sock[c]] /\ queue' = queue
             \/ "server" \notin closed[sock[c]] /\ Longer(sock[c], "server", m)
  BY <1>1, ClientSends
<1> QED
  BY <1>1, <1>2
\* A client that leaves throws away what it has not read.
LEMMA LeavesEffect ==
    ASSUME Safe, NEW c \in Clients, Leaves(c)
    PROVE  /\ sock[c] \in Conns /\ Emptied(sock[c], "client")
           /\ closed' = [closed EXCEPT ![sock[c]] = @ \cup {"client"}]
           /\ reset \subseteq reset' /\ UNCHANGED <<opened, closes_sent>>
           /\ \/ cpc[c] = "closing" /\ cpc'[c] = "prompt" /\ sock'[c] = NoConn
              \/ cpc[c] # "ended" /\ cpc'[c] = "ended" /\ sock'[c] = sock[c]
<1>0. ClientsOK /\ ClientFits(c)
  BY DEF Safe, ClientsOK
<1>1. /\ sock[c] \in Conns /\ Close(sock[c], "client") /\ UNCHANGED <<opened, closes_sent>>
      /\ \/ cpc[c] = "closing" /\ cpc'[c] = "prompt" /\ sock'[c] = NoConn
         \/ cpc[c] # "ended" /\ cpc'[c] = "ended" /\ sock'[c] = sock[c]
  <2>1. CASE FinishClose(c)
    BY <1>0, <2>1 DEF FinishClose, ClientGoto, history, ClientsOK, ClientFits, Attached
  <2>2. CASE End(c) /\ sock[c] \in Conns
    BY <1>0, <2>2 DEF End, history, ClientsOK
  <2> QED
    BY <2>1, <2>2 DEF Leaves
<1>2. /\ Emptied(sock[c], "client") /\ (reset' = reset \/ reset' = reset \cup {sock[c]})
      /\ closed' = [closed EXCEPT ![sock[c]] = @ \cup {"client"}]
  BY <1>1, TwoEnds, CloseEmpties DEF Safe, NetworkOK
<1> QED
  BY <1>1, <1>2

\* A client that opens a connection sends one request, the ping unless it is interrupted.
LEMMA OpenEffect ==
    ASSUME Safe, NEW c \in Clients, Open(c)
    PROVE  /\ opened + 1 \in Conns /\ opened' = opened + 1 /\ sock'[c] = opened + 1
           /\ cpc[c] = "prompt" /\ asked'[c] = 1
           /\ cpc'[c] = "exiting" \/ (cpc'[c] = "ping" /\ Taken(c)' = 0)
           /\ UNCHANGED <<closed, reset, closes_sent>>
           /\ Others(opened + 1, "server")
           /\ Len(queue'[opened + 1]["server"]) = 1
           /\ queue'[opened + 1]["server"][1].number = 1
<1>0. ClientsOK /\ NetworkOK
  BY DEF Safe
<1>1. opened + 1 \in Conns /\ opened' = opened + 1
  BY <1>0, FtpAssumption DEF Open, NetworkOK, Conns
<1>10. PICK first \in {"ping", "close"} :
           /\ queue' = [queue EXCEPT ![opened + 1]["server"] =
                            <<[command |-> first, number |-> 1, user |-> c]>>]
           /\ cpc' = [cpc EXCEPT ![c] = IF first = "ping" THEN "ping" ELSE "exiting"]
  BY DEF Open
<1>2. PICK m : m = [command |-> first, number |-> 1, user |-> c]
  OBVIOUS
<1>3. m.number = 1 /\ m \in Messages
  <2>1. 1 \in 1 .. MaxRequests + 1
    BY FtpAssumption
  <2> QED
    BY <1>2, <2>1 DEF Messages, Requests
<1>4. PICK v : v = <<m>>
  OBVIOUS
<1>5. v \in Seq(Messages) /\ Len(v) = 1 /\ v[1] = m
  BY <1>3, <1>4
<1>6. queue' = [queue EXCEPT ![opened + 1]["server"] = v]
  BY <1>2, <1>4, <1>10
<1>7. queue'[opened + 1]["server"] = v /\ Others(opened + 1, "server")
  BY <1>0, <1>1, <1>5, <1>6, TwoEnds, QueueSet DEF NetworkOK
<1>8. /\ sock' = [sock EXCEPT ![c] = opened + 1] /\ cpc[c] = "prompt"
      /\ asked' = [asked EXCEPT ![c] = 1] /\ given_up' = [given_up EXCEPT ![c] = 0]
      /\ UNCHANGED <<closed, reset, closes_sent>>
  BY DEF Open, history
<1>9. sock'[c] = opened + 1 /\ cpc'[c] \in {"ping", "exiting"} /\ asked'[c] = 1 /\ given_up'[c] = 0
  BY <1>0, <1>8, <1>10 DEF ClientsOK
<1> QED
  BY <1>1, <1>3, <1>5, <1>7, <1>8, <1>9 DEF Taken, Waiting

\* A server that thinks changes only its own state, and may send a reset.
LEMMA ThinksEffect ==
    ASSUME Safe, Thinks
    PROVE  /\ UNCHANGED <<queue, closed, opened, clientVars, request, closes_sent>> /\ reset \subseteq reset'
           /\ \/ Accept /\ spc = "accept" /\ spc' = "ignore" /\ current < opened /\ current' = current + 1
              \/ spc = "handle" /\ spc' \in {"respond", "raise"} /\ current' = current
              \/ spc \in {"ignore", "read", "respond"} /\ spc' = "raise" /\ current' = current
              \/ ReadEOF /\ spc \in {"ignore", "read"} /\ spc' = "spin" /\ current' = current
              \/ spc = "spin" /\ spc' = "spin" /\ current' = current
<1> USE DEF ServerGoto, network, history
<1>1. CASE Accept
  BY <1>1 DEF Accept, Backlog
<1>2. CASE ReadGarbage \/ ReadEOF \/ ReadFails
  BY <1>2 DEF ReadGarbage, ReadEOF, ReadFails
<1>3. CASE SpinAtEOF
  BY <1>3 DEF SpinAtEOF, vars, serverVars
<1>4. CASE HandleCommand \/ HandlerRaises \/ HandleLogin \/ HandleAnonymousLogin
           \/ RefuseLogin \/ ShadowFileUnreadable
  BY <1>4 DEF HandleCommand, HandlerRaises, HandleLogin, HandleAnonymousLogin, RefuseLogin,
              ShadowFileUnreadable
<1>5. CASE SendResponseFails
  BY <1>5 DEF SendResponseFails, SendFails
<1> QED
  BY <1>1, <1>2, <1>3, <1>4, <1>5 DEF Thinks
-----------------------------------------------------------------------------
(***************************************************************************)
(* Sockets.  No two clients hold the same connection; who has closed its   *)
(* end has ended, or holds it no longer; the server closes the connections *)
(* in the order it accepts them, and until it has ignored the first        *)
(* request of one, a close is never that first request but behind it.      *)
(***************************************************************************)
Apart == \A c, d \in Clients : sock[c] \in Conns /\ sock[c] = sock[d] => c = d
ClosedByClient ==
    \A c \in Clients : sock[c] \in Conns /\ "client" \in closed[sock[c]] => cpc[c] = "ended"
ClosedByServer ==
    \A k \in Conns : "server" \in closed[k] => k <= current /\ (k = current => spc = "accept")
Unopened ==
    \A k \in Conns : k > opened =>
        /\ queue[k]["server"] = <<>> /\ queue[k]["client"] = <<>> /\ closed[k] = {}
        /\ k \notin closes_sent
Greeting ==
    \A k \in Conns : k <= opened /\ (k > current \/ (k = current /\ spc = "ignore")) =>
        /\ Len(queue[k]["server"]) > 0
        /\ k \in closes_sent => Len(queue[k]["server"]) > 1

SocketsOK == Apart /\ ClosedByClient /\ ClosedByServer /\ Unopened /\ Greeting

\* What the numbers of connections are.
LEMMA ConnNumbers ==
    ASSUME Safe
    PROVE  /\ \A k \in Conns : k \in Nat
           /\ opened \in Nat /\ current \in Nat /\ current <= opened
           /\ spc # "accept" => current \in Conns
           /\ NoConn \notin Conns /\ Unconnected \notin Conns
           /\ \A c \in Clients : sock[c] \in Conns => sock[c] <= opened
  BY FtpAssumption DEF Safe, NetworkOK, ServerOK, ClientsOK, ClientFits, Conns, NoConn, Unconnected

\* One queue of a connection that is open has changed.
LEMMA OneTouched ==
    ASSUME Safe, SocketsOK, NEW k \in Conns, k <= opened, NEW e \in Ends, Others(k, e),
           opened' = opened, \A l \in Conns : l # k => closed'[l] = closed[l],
           closes_sent' = closes_sent \/ closes_sent' = closes_sent \cup {k}
    PROVE  Unopened'
<1> SUFFICES ASSUME NEW l \in Conns, l > opened
             PROVE  /\ queue'[l]["server"] = <<>> /\ queue'[l]["client"] = <<>> /\ closed'[l] = {}
                    /\ l \notin closes_sent'
  BY DEF Unopened
<1>1. l # k
  BY ConnNumbers
<1>2. queue'[l]["server"] = queue[l]["server"] /\ queue'[l]["client"] = queue[l]["client"]
  BY <1>1, TwoEnds DEF Others
<1> QED
  BY <1>1, <1>2 DEF SocketsOK, Unopened

\* The first requests not yet ignored are where they were, and a close is one more.
LEMMA GreetingKept ==
    ASSUME Safe, SocketsOK, NEW k \in Conns, opened' = opened,
           \A l \in Conns : l > current' \/ (l = current' /\ spc' = "ignore") =>
               l > current \/ (l = current /\ spc = "ignore"),
           \/ queue' = queue \/ Others(k, "client")
           \/ \E m : Longer(k, "server", m)
           \/ ~ (k > current' \/ (k = current' /\ spc' = "ignore")) /\ Others(k, "server"),
           \/ closes_sent' = closes_sent
           \/ closes_sent' = closes_sent \cup {k} /\ \E m : Longer(k, "server", m)
           \/ /\ closes_sent' = closes_sent \cup {k}
              /\ ~ (k > current' \/ (k = current' /\ spc' = "ignore"))
    PROVE  Greeting'
<1> SUFFICES ASSUME NEW l \in Conns, l <= opened, l > current' \/ (l = current' /\ spc' = "ignore")
             PROVE  /\ Len(queue'[l]["server"]) > 0
                    /\ l \in closes_sent' => Len(queue'[l]["server"]) > 1
  BY DEF Greeting
<1>1. /\ Len(queue[l]["server"]) > 0 /\ Len(queue[l]["server"]) \in Nat
      /\ l \in closes_sent => Len(queue[l]["server"]) > 1
  BY TwoEnds, QueueIsSeq DEF SocketsOK, Greeting, Safe, NetworkOK
<1>2. CASE queue'[l]["server"] = queue[l]["server"] /\ (l \in closes_sent' => l \in closes_sent)
  BY <1>1, <1>2
<1>3. CASE l = k /\ \E m : Longer(k, "server", m)
  BY <1>1, <1>3 DEF Longer
<1>4. l # k => (l \in closes_sent' => l \in closes_sent)
  OBVIOUS
<1>5. l # k => queue'[l]["server"] = queue[l]["server"]
  BY TwoEnds DEF Others, Longer
<1>6. l = k => (queue'[l]["server"] = queue[l]["server"] /\ (l \in closes_sent' => l \in closes_sent))
               \/ \E m : Longer(k, "server", m)
  BY TwoEnds DEF Others
<1> QED
  BY <1>2, <1>3, <1>4, <1>5, <1>6

\* Clients keep to their sockets.
LEMMA SocketsClient ==
    ASSUME Safe, SocketsOK, NEW c \in Clients, Client(c)
    PROVE  SocketsOK'
<1>0. OneMoves(c) /\ spc' = spc /\ current' = current
  BY ClientAlone DEF Safe, OneMoves, serverVars
<1>1. CASE Waits(c)
  <2>1. Apart' /\ ClosedByClient'
    BY <1>0, <1>1, WaitsEffect, ConnNumbers, FtpAssumption
       DEF OneMoves, SocketsOK, Apart, ClosedByClient, Conns, Unconnected
  <2> QED
    BY <1>0, <1>1, <2>1, WaitsEffect DEF SocketsOK, ClosedByServer, Unopened, Greeting
<1>2. CASE Reads(c)
  <2>1. sock[c] \in Conns /\ sock[c] <= opened /\ Others(sock[c], "client")
        /\ cpc[c] # "ended" /\ UNCHANGED <<closed, reset, opened, sock, closes_sent>>
    BY <1>2, ReadsEffect, ConnNumbers DEF Shorter, Torn, Live, Waiting
  <2>2. Apart' /\ ClosedByClient' /\ ClosedByServer'
    BY <1>0, <2>1 DEF OneMoves, SocketsOK, Apart, ClosedByClient, ClosedByServer
  <2>3. Unopened' /\ Greeting'
    BY <1>0, <2>1, TwoEnds, OneTouched, GreetingKept
  <2> QED
    BY <2>2, <2>3 DEF SocketsOK
<1>3. CASE Asks(c)
  <2>1. PICK m \in Requests :
            /\ sock[c] \in Conns /\ cpc[c] # "ended" /\ UNCHANGED <<closed, opened, sock>>
            /\ closes_sent' = closes_sent \/ closes_sent' = closes_sent \cup {sock[c]}
            /\ \/ queue' = queue /\ "server" \in closed[sock[c]]
               \/ Longer(sock[c], "server", m)
    BY <1>3, AsksEffect
  <2>2. Apart' /\ ClosedByClient' /\ ClosedByServer'
    BY <1>0, <2>1 DEF OneMoves, SocketsOK, Apart, ClosedByClient, ClosedByServer
  <2>3. Unopened'
    BY <2>1, TwoEnds, ConnNumbers, OneTouched DEF Longer, SocketsOK, Unopened
  <2>5. "server" \in closed[sock[c]] =>
            ~ (sock[c] > current' \/ (sock[c] = current' /\ spc' = "ignore"))
    BY <1>0, <2>1, ConnNumbers DEF SocketsOK, ClosedByServer
  <2>4. Greeting'
    BY <1>0, <2>1, <2>5, GreetingKept
  <2> QED
    BY <2>2, <2>3, <2>4 DEF SocketsOK
<1>4. CASE Leaves(c)
  <2>1. /\ sock[c] \in Conns /\ sock[c] <= opened /\ Others(sock[c], "client")
        /\ UNCHANGED <<opened, closes_sent>>
        /\ \A l \in Conns : l # sock[c] => closed'[l] = closed[l]
        /\ closed'[sock[c]] = closed[sock[c]] \cup {"client"}
        /\ sock'[c] = NoConn \/ (cpc'[c] = "ended" /\ sock'[c] = sock[c])
    BY <1>4, LeavesEffect, ConnNumbers DEF Emptied, Safe, NetworkOK
  <2>2. Apart'
    BY <1>0, <2>1, ConnNumbers DEF OneMoves, SocketsOK, Apart
  <2>3. ClosedByClient'
    <3> SUFFICES ASSUME NEW b \in Clients, sock'[b] \in Conns, "client" \in closed'[sock'[b]]
                 PROVE  cpc'[b] = "ended"
      BY DEF ClosedByClient
    <3>1. CASE b = c
      BY <2>1, <3>1, ConnNumbers
    <3>2. CASE b # c
      <4>1. sock[b] \in Conns /\ sock[b] # sock[c] /\ sock'[b] = sock[b] /\ cpc'[b] = cpc[b]
        BY <1>0, <2>1, <3>2 DEF OneMoves, SocketsOK, Apart
      <4> QED
        BY <2>1, <4>1 DEF SocketsOK, ClosedByClient
    <3> QED
      BY <3>1, <3>2
  <2>4. ClosedByServer'
    <3>1. \A k \in Conns : "server" \in closed'[k] => "server" \in closed[k]
      BY <2>1
    <3> QED
      BY <1>0, <3>1 DEF SocketsOK, ClosedByServer
  <2>5. Unopened' /\ Greeting'
    BY <1>0, <2>1, TwoEnds, OneTouched, GreetingKept
  <2> QED
    BY <2>2, <2>3, <2>4, <2>5 DEF SocketsOK
<1>5. CASE Open(c)
  <2>1. /\ opened + 1 \in Conns /\ opened' = opened + 1 /\ sock'[c] = opened + 1
        /\ UNCHANGED <<closed, closes_sent>> /\ Others(opened + 1, "server")
        /\ Len(queue'[opened + 1]["server"]) > 0
    BY <1>5, OpenEffect
  <2>2. closed[opened + 1] = {} /\ opened + 1 \notin closes_sent
    BY <2>1, ConnNumbers DEF SocketsOK, Unopened
  <2>3. \A b \in Clients : sock[b] # opened + 1
    BY <2>1, ConnNumbers
  <2>4. Apart' /\ ClosedByClient' /\ ClosedByServer'
    BY <1>0, <2>1, <2>2, <2>3 DEF OneMoves, SocketsOK, Apart, ClosedByClient, ClosedByServer
  <2>5. \A l \in Conns : l # opened + 1 => queue'[l] ["server"] = queue[l]["server"]
                                           /\ queue'[l]["client"] = queue[l]["client"]
    BY <2>1, TwoEnds DEF Others
  <2>6. Unopened' /\ Greeting'
    <3>1. \A l \in Conns : l > opened + 1 => l > opened /\ l # opened + 1
      BY ConnNumbers
    <3>2. \A l \in Conns : l <= opened + 1 => l <= opened \/ l = opened + 1
      BY ConnNumbers
    <3> QED
      BY <1>0, <2>1, <2>2, <2>5, <3>1, <3>2 DEF SocketsOK, Unopened, Greeting
  <2> QED
    BY <2>4, <2>6 DEF SocketsOK
<1> QED
  BY <1>1, <1>2, <1>3, <1>4, <1>5, Kinds

\* The server reads and closes only what it has accepted.
LEMMA SocketsServer ==
    ASSUME Safe, SocketsOK, Server
    PROVE  SocketsOK'
<1>0. /\ UNCHANGED <<cpc, sock, opened, closes_sent>>
      /\ \A l \in Conns : l # current => closed'[l] = closed[l]
      /\ \/ closed'[current] = closed[current]
         \/ (Detach \/ Abort) /\ closed'[current] = closed[current] \cup {"server"}
  BY ServerCloses DEF Safe, NetworkOK, Server, Accept, IgnoreFirst, ReadRequest, SwallowRequest,
         ReadDamagedPut, ReadGarbage, ReadEOF, SpinAtEOF, ReadFails, HandleCommand, HandlerRaises,
         HandleLogin, HandleAnonymousLogin, RefuseLogin, ShadowFileUnreadable, SendResponse,
         SendResponseFails, Detach, Abort, vars, network, clientVars, history
<1>1. Apart' /\ ClosedByClient'
  <2>1. \A k \in Conns : "client" \in closed'[k] => "client" \in closed[k]
    BY <1>0
  <2> QED
    BY <1>0, <2>1 DEF SocketsOK, Apart, ClosedByClient
<1>2. CASE Thinks
  <2>1. queue' = queue /\ closed' = closed
    BY <1>2, ThinksEffect
  <2>2. Unopened'
    BY <1>0, <2>1 DEF SocketsOK, Unopened
  <2>3. CASE spc = "accept" /\ spc' = "ignore" /\ current < opened /\ current' = current + 1
    <3>1. ClosedByServer'
      BY <2>1, <2>3, ConnNumbers DEF SocketsOK, ClosedByServer
    <3>2. Greeting'
      BY <1>0, <2>1, <2>3, ConnNumbers DEF SocketsOK, Greeting
    <3> QED
      BY <1>1, <2>2, <3>1, <3>2 DEF SocketsOK
  <2>4. CASE spc # "accept" /\ spc' \notin {"accept", "ignore"} /\ current' = current
    <3>1. ClosedByServer' /\ Greeting'
      BY <1>0, <2>1, <2>4 DEF SocketsOK, ClosedByServer, Greeting
    <3> QED
      BY <1>1, <2>2, <3>1 DEF SocketsOK
  <2> QED
    BY <1>2, <2>3, <2>4, ThinksEffect
<1>3. CASE IgnoreFirst \/ ReadRequest \/ SwallowRequest \/ ReadDamagedPut
  <2>1. /\ current \in Conns /\ spc # "accept" /\ spc' \notin {"accept", "ignore"}
        /\ UNCHANGED <<closed, current>> /\ Others(current, "server")
    <3>1. CASE IgnoreFirst \/ ReadRequest
      BY <3>1, ServerReads DEF Shorter, IgnoreFirst, ReadRequest, ServerGoto
    <3>2. CASE SwallowRequest \/ ReadDamagedPut
      BY <3>2, ServerMerges DEF Merged, SwallowRequest, ReadDamagedPut, serverVars
    <3> QED
      BY <1>3, <3>1, <3>2
  <2>2. ClosedByServer'
    BY <2>1 DEF SocketsOK, ClosedByServer
  <2>3. Unopened'
    BY <1>0, <2>1, TwoEnds, ConnNumbers, OneTouched
  <2>4. ~ (current > current' \/ (current = current' /\ spc' = "ignore"))
    BY <2>1, ConnNumbers
  <2>5. Greeting'
    BY <1>0, <2>1, <2>4, GreetingKept
  <2> QED
    BY <1>1, <2>2, <2>3, <2>5 DEF SocketsOK
<1>4. CASE SendResponse
  <2>1. /\ current \in Conns /\ spc # "accept" /\ spc' = "read" /\ UNCHANGED <<closed, current>>
        /\ queue' = queue \/ Others(current, "client")
    BY <1>4, ServerAnswers DEF Longer, SendResponse, ServerGoto
  <2>2. ClosedByServer'
    BY <2>1 DEF SocketsOK, ClosedByServer
  <2>3. Unopened'
    BY <1>0, <2>1, TwoEnds, ConnNumbers, OneTouched DEF SocketsOK, Unopened
  <2>4. Greeting'
    BY <1>0, <2>1, GreetingKept
  <2> QED
    BY <1>1, <2>2, <2>3, <2>4 DEF SocketsOK
<1>5. CASE Detach \/ Abort
  <2>1. /\ current \in Conns /\ spc' = "accept" /\ current' = current
        /\ Others(current, "server")
    BY <1>5, ServerCloses DEF Emptied, Detach, Abort, ServerGoto
  <2>2. ClosedByServer'
    BY <1>0, <2>1, ConnNumbers DEF SocketsOK, ClosedByServer
  <2>3. Unopened'
    BY <1>0, <2>1, TwoEnds, ConnNumbers, OneTouched
  <2>4. ~ (current > current' \/ (current = current' /\ spc' = "ignore"))
    BY <2>1, ConnNumbers
  <2>5. Greeting'
    BY <1>0, <2>1, <2>4, GreetingKept
  <2> QED
    BY <1>1, <2>2, <2>3, <2>5 DEF SocketsOK
<1> QED
  BY <1>2, <1>3, <1>4, <1>5, Kinds

\* No sockets at the start.
LEMMA SocketsInit == Init => SocketsOK
  BY FtpAssumption DEF Init, SocketsOK, Apart, ClosedByClient, ClosedByServer, Unopened, Greeting,
        NoConn, Conns, Ends

\* A step of a server or a client, or none.
LEMMA SocketsStep == Safe /\ SocketsOK /\ [Next]_vars => SocketsOK'
<1> SUFFICES ASSUME Safe, SocketsOK, [Next]_vars PROVE SocketsOK'
  OBVIOUS
<1>1. CASE UNCHANGED vars
  BY <1>1 DEF vars, network, serverVars, clientVars, history, SocketsOK, Apart, ClosedByClient,
              ClosedByServer, Unopened, Greeting
<1>2. CASE Server
  BY <1>2, SocketsServer
<1>3. ASSUME NEW c \in Clients, Client(c) PROVE SocketsOK'
  BY <1>3, SocketsClient
<1> QED
  BY <1>1, <1>2, <1>3 DEF Next, Quiet
-----------------------------------------------------------------------------
(***************************************************************************)
(* A close is seen.  Behind a close nothing is sent, and a connection it   *)
(* was sent on is over: the close is the last request on it, or was        *)
(* swallowed, or the server has dealt with it.  A client that closes its   *)
(* end has sent a close or ends.                                           *)
(***************************************************************************)
Ended(k) == \E c \in Clients : sock[c] = k /\ cpc[c] = "ended"
LastIsClose(k) ==
    LET q == queue[k]["server"]
    IN  Len(q) > 0 /\ q[Len(q)].command \in {"close"} \cup Remains
Over(k) ==
    \/ k \in reset \/ "server" \in closed[k]
    \/ current = k /\ spc \in {"detach", "raise"}
    \/ LastIsClose(k)

SentIsOver == \A k \in Conns : k \in closes_sent => Over(k)
SentIsLast == \A c \in Clients : sock[c] \in closes_sent => cpc[c] \in {"closing", "exiting", "ended"}
ClosingIsSent == \A c \in Clients : cpc[c] = "closing" => sock[c] \in closes_sent
ClosedIsKnown == \A k \in Conns : "client" \in closed[k] => Ended(k) \/ k \in closes_sent
SpinsAlone ==
    spc = "spin" => (current \notin closes_sent /\ Ended(current)) \/ Spoilt(current, "server")

CloseIsSeen == SentIsOver /\ SentIsLast /\ ClosingIsSent /\ ClosedIsKnown /\ SpinsAlone

\* A request left to read is a request that is there.
LEMMA ServerQueue ==
    ASSUME Safe, NEW k \in Conns
    PROVE  /\ Len(queue[k]["server"]) \in Nat /\ Len(queue[k]["client"]) \in Nat
           /\ queue[k]["server"] # <<>> <=> Len(queue[k]["server"]) > 0
           /\ Spoilt(k, "server") <=> Len(queue[k]["server"]) > 0
                                      /\ queue[k]["server"][1].command \in Remains
  BY TwoEnds, QueueIsSeq DEF Safe, NetworkOK, Spoilt

\* Who has ended stays so, with its socket.
LEMMA EndedStays ==
    ASSUME Safe, [Next]_vars, NEW k, Ended(k)
    PROVE  Ended(k)'
<1>1. PICK b \in Clients : sock[b] = k /\ cpc[b] = "ended"
  BY DEF Ended
<1>2. sock'[b] = sock[b] /\ cpc'[b] = cpc[b]
  <2>1. CASE UNCHANGED vars
    BY <2>1 DEF vars, clientVars
  <2>2. CASE Server
    BY <2>2 DEF Server, Accept, IgnoreFirst, ReadRequest, SwallowRequest, ReadDamagedPut, ReadGarbage,
         ReadEOF, SpinAtEOF, ReadFails, HandleCommand, HandlerRaises, HandleLogin,
         HandleAnonymousLogin, RefuseLogin, ShadowFileUnreadable, SendResponse,
         SendResponseFails, Detach, Abort, vars, clientVars
  <2>3. ASSUME NEW c \in Clients, Client(c) PROVE sock'[b] = sock[b] /\ cpc'[b] = cpc[b]
    <3>1. c # b
      BY <1>1, <2>3, Kinds, WaitsEffect, ReadsEffect, AsksEffect, LeavesEffect, OpenEffect
         DEF Live, Waiting
    <3> QED
      BY <2>3, <3>1, ClientAlone DEF Safe, OneMoves
  <2> QED
    BY <2>1, <2>2, <2>3 DEF Next, Quiet
<1> QED
  BY <1>1, <1>2 DEF Ended

\* What the clients do to the queue of the server leaves its head, and its end but for requests.
LEMMA OverClient ==
    ASSUME Safe, NEW c \in Clients, Client(c), NEW k \in Conns, Over(k), k <= opened,
           Asks(c) => sock[c] # k
    PROVE  Over(k)'
<1>0. spc' = spc /\ current' = current
  BY ClientAlone DEF Safe, OneMoves, serverVars
<1>1. /\ reset \subseteq reset' /\ ("server" \in closed[k] => "server" \in closed'[k])
      /\ queue'[k]["server"] = queue[k]["server"]
  <2>1. CASE Waits(c)
    BY <2>1, WaitsEffect
  <2>2. CASE Reads(c)
    BY <2>2, ReadsEffect, TwoEnds DEF Shorter, Torn, Others
  <2>3. CASE Asks(c)
    BY <2>3, AsksEffect, TwoEnds DEF Longer, Others
  <2>4. CASE Leaves(c)
    BY <2>4, LeavesEffect, TwoEnds DEF Emptied, Others, Safe, NetworkOK
  <2>5. CASE Open(c)
    <3>1. k # opened + 1
      BY ConnNumbers
    <3> QED
      BY <2>5, <3>1, OpenEffect, TwoEnds DEF Others
  <2> QED
    BY <2>1, <2>2, <2>3, <2>4, <2>5, Kinds
<1> QED
  BY <1>0, <1>1 DEF Over, LastIsClose

\* The server takes the last request of a connection in order only, and sees a close.
LEMMA OverServer ==
    ASSUME Safe, SocketsOK, Server, NEW k \in Conns, k \in closes_sent, Over(k)
    PROVE  Over(k)'
<1>1. CASE Thinks
  <2>1. /\ UNCHANGED <<queue, closed>> /\ reset \subseteq reset'
        /\ current = k /\ spc \in {"detach", "raise"} => FALSE
    BY <1>1, ThinksEffect
  <2> QED
    BY <2>1 DEF Over, LastIsClose
<1>2. CASE IgnoreFirst \/ ReadRequest
  <2>1. /\ current \in Conns /\ Shorter(current, "server") /\ UNCHANGED <<closed, reset, current>>
        /\ queue[current]["server"][1].command \notin Remains
        /\ spc \in {"ignore", "read"}
    BY <1>2, ServerReads
  <2>2. CASE k # current
    BY <2>1, <2>2, TwoEnds DEF Over, LastIsClose, Shorter, Others
  <2>3. CASE k = current
    <3>1. CASE ~ LastIsClose(k)
      BY <2>1, <2>3, <3>1 DEF Over
    <3>2. CASE LastIsClose(k)
      <4>1. CASE Len(queue[k]["server"]) = 1
        <5>1. queue[k]["server"][1].command = "close"
          BY <2>1, <2>3, <3>2, <4>1 DEF LastIsClose
        <5>2. ~ IgnoreFirst
          <6>1. k <= opened
            BY <2>3, ConnNumbers
          <6>2. IgnoreFirst => k = current /\ spc = "ignore"
            BY <2>3 DEF IgnoreFirst, ServerGoto
          <6>3. IgnoreFirst => Len(queue[k]["server"]) > 1
            BY <6>1, <6>2 DEF SocketsOK, Greeting
          <6> QED
            BY <4>1, <6>3
        <5>3. request'.command = "close" /\ request' = NextRequest
          BY <1>2, <2>3, <5>1, <5>2, ServerReads DEF ReadRequest
        <5>4. spc' = "detach"
          BY <1>2, <5>2, <5>3 DEF ReadRequest, IsClose
        <5> QED
          BY <2>1, <2>3, <5>4 DEF Over
      <4>2. CASE Len(queue[k]["server"]) # 1
        <5>1. /\ Len(queue'[k]["server"]) > 0
              /\ queue'[k]["server"][Len(queue'[k]["server"])]
                     = queue[k]["server"][Len(queue[k]["server"])]
          <6>0. PICK n : n = Len(queue[k]["server"])
            OBVIOUS
          <6>4. n \in Nat /\ n # 1
            BY <4>2, <6>0, ServerQueue
          <6>5. n > 0
            BY <3>2, <6>0 DEF LastIsClose
          <6>1. Len(queue[k]["server"]) \in Nat /\ Len(queue[k]["server"]) > 1
            <7>1. n > 1
              BY <6>4, <6>5
            <7> QED
              BY <6>0, <6>4, <7>1
          <6>2. Len(queue'[k]["server"]) = Len(queue[k]["server"]) - 1
            BY <2>1, <2>3 DEF Shorter
          <6>3. Len(queue'[k]["server"]) \in 1 .. Len(queue'[k]["server"])
            BY <6>1, <6>2
          <6>7. PICK l : l = Len(queue'[k]["server"])
            OBVIOUS
          <6>8. l \in 1 .. l /\ l > 0 /\ l + 1 = n
            BY <6>0, <6>1, <6>2, <6>3, <6>4, <6>7
          <6>9. queue'[k]["server"][l] = queue[k]["server"][l + 1]
            BY <2>1, <2>3, <6>7, <6>8 DEF Shorter
          <6> QED
            BY <6>0, <6>7, <6>8, <6>9
        <5> QED
          BY <3>2, <5>1 DEF Over, LastIsClose
      <4> QED
        BY <4>1, <4>2
    <3> QED
      BY <3>1, <3>2
  <2> QED
    BY <2>2, <2>3
<1>3. CASE SwallowRequest \/ ReadDamagedPut
  <2>1. /\ current \in Conns /\ Merged(current) /\ UNCHANGED <<closed, reset, current>>
        /\ spc = "read"
    BY <1>3, ServerMerges
  <2>2. CASE k # current
    BY <2>1, <2>2, TwoEnds DEF Over, LastIsClose, Merged, Others
  <2>3. CASE k = current
    <3>1. CASE ~ LastIsClose(k)
      BY <2>1, <2>3, <3>1 DEF Over
    <3>2. CASE LastIsClose(k)
      <4>1. /\ Len(queue[k]["server"]) \in Nat /\ Len(queue[k]["server"]) > 1
            /\ Len(queue'[k]["server"]) = Len(queue[k]["server"]) - 1
        BY <2>1, <2>3, ServerQueue DEF Merged
      <4>2. CASE Len(queue'[k]["server"]) = 1
        BY <2>1, <2>3, <4>2 DEF Merged, Over, LastIsClose
      <4>3. CASE Len(queue'[k]["server"]) # 1
        <5>1. Len(queue'[k]["server"]) \in 2 .. Len(queue'[k]["server"])
          <6>1. PICK n, l : n = Len(queue[k]["server"]) /\ l = Len(queue'[k]["server"])
            OBVIOUS
          <6>2. n \in Nat /\ n > 1 /\ l = n - 1 /\ l # 1
            BY <4>1, <4>3, <6>1
          <6>3. l \in 2 .. l
            BY <6>2
          <6> QED
            BY <6>1, <6>3
        <5>2. queue'[k]["server"][Len(queue'[k]["server"])]
                  = queue[k]["server"][Len(queue[k]["server"])]
          BY <2>1, <2>3, <4>1, <5>1 DEF Merged
        <5> QED
          BY <3>2, <4>1, <5>2 DEF Over, LastIsClose
      <4> QED
        BY <4>2, <4>3
    <3> QED
      BY <3>1, <3>2
  <2> QED
    BY <2>2, <2>3
<1>4. CASE SendResponse
  <2>1. /\ current \in Conns
        /\ queue' = queue \/ Others(current, "client")
        /\ reset \subseteq reset' /\ closed' = closed /\ spc = "respond"
    BY <1>4, ServerAnswers DEF Longer, SendResponse, ServerGoto
  <2>2. queue'[k]["server"] = queue[k]["server"]
    BY <2>1, TwoEnds DEF Others
  <2> QED
    BY <2>1, <2>2 DEF Over, LastIsClose
<1>5. CASE Detach \/ Abort
  <2>1. /\ current \in Conns /\ Others(current, "server") /\ reset \subseteq reset'
        /\ closed' = [closed EXCEPT ![current] = @ \cup {"server"}]
    BY <1>5, ServerCloses DEF Emptied
  <2>2. CASE k = current
    BY <2>1, <2>2 DEF Over, Safe, NetworkOK
  <2>3. CASE k # current
    <3>1. closed'[k] = closed[k] /\ queue'[k]["server"] = queue[k]["server"]
      BY <2>1, <2>3, TwoEnds DEF Others
    <3> QED
      BY <2>1, <2>3, <3>1 DEF Over, LastIsClose
  <2> QED
    BY <2>2, <2>3
<1> QED
  BY <1>1, <1>2, <1>3, <1>4, <1>5, Kinds

\* A client sends a close as its last request, and closes its end behind it or ends.
LEMMA CloseSeenClient ==
    ASSUME Safe, SocketsOK, CloseIsSeen, NEW c \in Clients, Client(c)
    PROVE  CloseIsSeen'
<1>0. OneMoves(c) /\ spc' = spc /\ current' = current
  BY ClientAlone DEF Safe, OneMoves, serverVars
<1>00. [Next]_vars
  BY DEF Next
<1>1. /\ closes_sent \subseteq closes_sent'
      /\ closes_sent' # closes_sent => Asks(c) /\ closes_sent' = closes_sent \cup {sock[c]}
                                       /\ cpc'[c] \in {"closing", "exiting"} /\ sock'[c] = sock[c]
  BY Kinds, WaitsEffect, ReadsEffect, AsksEffect, LeavesEffect, OpenEffect
<1>2. \A k \in Conns : k \in closes_sent => k <= opened
  BY ConnNumbers DEF SocketsOK, Unopened
<1>3. SentIsOver'
  <2> SUFFICES ASSUME NEW k \in Conns, k \in closes_sent' PROVE Over(k)'
    BY DEF SentIsOver
  <2>1. CASE k \in closes_sent
    <3>1. Asks(c) => sock[c] # k
      BY <2>1, AsksEffect DEF CloseIsSeen, SentIsLast
    <3> QED
      BY <1>2, <2>1, <3>1, OverClient DEF CloseIsSeen, SentIsOver
  <2>2. CASE k \notin closes_sent
    <3>1. Asks(c) /\ k = sock[c] /\ closes_sent' # closes_sent
      BY <1>1, <2>2
    <3>2. PICK m \in Requests :
              /\ m.command = "close"
              /\ "server" \in closed[k] \/ Longer(k, "server", m)
              /\ UNCHANGED closed
      BY <3>1, AsksEffect
    <3>4. CASE "server" \in closed[k]
      BY <3>2, <3>4 DEF Over
    <3>5. CASE Longer(k, "server", m)
      <4>1. Len(queue'[k]["server"]) > 0 /\ queue'[k]["server"][Len(queue'[k]["server"])] = m
        BY <3>5, ServerQueue DEF Longer
      <4> QED
        BY <3>2, <4>1 DEF Over, LastIsClose
    <3> QED
      BY <3>2, <3>4, <3>5
  <2> QED
    BY <2>1, <2>2
<1>5. SentIsLast' /\ ClosingIsSent'
  <2> SUFFICES ASSUME NEW b \in Clients
               PROVE  /\ sock'[b] \in closes_sent' => cpc'[b] \in {"closing", "exiting", "ended"}
                      /\ cpc'[b] = "closing" => sock'[b] \in closes_sent'
    BY DEF SentIsLast, ClosingIsSent
  <2>1. CASE b # c
    <3>1. cpc'[b] = cpc[b] /\ sock'[b] = sock[b]
      BY <1>0, <2>1 DEF OneMoves
    <3>2. sock[b] \in closes_sent' => sock[b] \in closes_sent
      <4>1. closes_sent' # closes_sent => sock[c] \in Conns
        BY <1>1, AsksEffect
      <4>2. sock[b] = sock[c] => sock[c] \notin Conns
        BY <2>1 DEF SocketsOK, Apart
      <4> QED
        BY <1>1, <4>1, <4>2
    <3> QED
      BY <1>1, <3>1, <3>2 DEF CloseIsSeen, SentIsLast, ClosingIsSent
  <2>2. CASE b = c
    <3>1. sock[c] \in closes_sent => cpc[c] \in {"closing", "exiting", "ended"}
      BY DEF CloseIsSeen, SentIsLast
    <3>2. closes_sent \subseteq Conns
      BY DEF Safe, ServerOK
    <3>3. CASE Waits(c)
      <4>1. sock'[c] \in closes_sent => sock'[c] = sock[c]
        BY <3>2, <3>3, WaitsEffect, ConnNumbers
      <4>2. sock[c] \in closes_sent => cpc'[c] = "ended"
        BY <3>1, <3>2, <3>3 DEF Waits, OpenBadPort, GiveUpPut, WaitFails, EndOfInput, HangAtEOF,
              RequestFails, CloseFails, End, ClientGoto, Safe, ClientsOK, ClientFits
      <4> QED
        BY <2>2, <3>3, <4>1, <4>2, WaitsEffect
    <3>4. CASE Reads(c)
      <4>1. sock[c] \notin closes_sent
        BY <3>1, <3>4, ReadsEffect DEF Live, Waiting
      <4> QED
        BY <2>2, <3>4, <4>1, ReadsEffect
    <3>5. CASE Asks(c)
      <4>1. sock[c] \notin closes_sent
        BY <3>1, <3>5, AsksEffect
      <4> QED
        BY <1>1, <2>2, <3>5, <4>1, AsksEffect
    <3>6. CASE Leaves(c)
      BY <2>2, <3>2, <3>6, LeavesEffect, ConnNumbers
    <3>7. CASE Open(c)
      <4>1. opened + 1 \notin closes_sent
        BY <1>2, <3>7, OpenEffect, ConnNumbers
      <4> QED
        BY <2>2, <3>7, <4>1, OpenEffect
    <3> QED
      BY <3>3, <3>4, <3>5, <3>6, <3>7, Kinds
  <2> QED
    BY <2>1, <2>2
<1>6. ClosedIsKnown'
  <2> SUFFICES ASSUME NEW k \in Conns, "client" \in closed'[k], ~ Ended(k)' PROVE k \in closes_sent
    BY <1>1 DEF ClosedIsKnown
  <2>1. ~ Ended(k)
    BY <1>00, EndedStays
  <2>2. CASE "client" \in closed[k]
    BY <2>1, <2>2 DEF CloseIsSeen, ClosedIsKnown
  <2>3. CASE "client" \notin closed[k]
    <3>1. Leaves(c)
      BY <2>3, Kinds, WaitsEffect, ReadsEffect, AsksEffect, OpenEffect
    <3>2. k = sock[c] /\ (cpc[c] = "closing" \/ (cpc'[c] = "ended" /\ sock'[c] = sock[c]))
      BY <2>3, <3>1, LeavesEffect DEF Safe, NetworkOK
    <3>3. cpc[c] = "closing"
      BY <3>2 DEF Ended
    <3> QED
      BY <3>2, <3>3 DEF CloseIsSeen, ClosingIsSent
  <2> QED
    BY <2>2, <2>3
<1>4. SpinsAlone'
  <2>5. CASE spc = "spin" /\ current \notin closes_sent /\ Ended(current)
    <3>1. Ended(current)'
      <4>1. PICK k : k = current
        OBVIOUS
      <4> QED
        BY <1>0, <1>00, <2>5, <4>1, EndedStays
    <3>2. Asks(c) => sock[c] # current
      <4>1. PICK b \in Clients : sock[b] = current /\ cpc[b] = "ended"
        BY <2>5 DEF Ended
      <4> QED
        BY <4>1, AsksEffect DEF SocketsOK, Apart
    <3>3. current \notin closes_sent'
      BY <1>1, <2>5, <3>2
    <3> QED
      BY <1>0, <3>1, <3>3 DEF SpinsAlone
  <2> SUFFICES ASSUME spc = "spin", Spoilt(current, "server") PROVE Spoilt(current, "server")'
    BY <1>0, <2>5 DEF CloseIsSeen, SpinsAlone
  <2>1. current \in Conns /\ current <= opened
    BY ConnNumbers
  <2>2. /\ Len(queue[current]["server"]) > 0 /\ Len(queue[current]["server"]) \in Nat
        /\ queue[current]["server"][1].command \in Remains
    BY <2>1, ServerQueue
  <2>3. /\ Len(queue'[current]["server"]) > 0
        /\ queue'[current]["server"][1] = queue[current]["server"][1]
    <3>1. CASE Waits(c)
      BY <2>2, <3>1, WaitsEffect
    <3>2. CASE Reads(c)
      BY <2>1, <2>2, <3>2, ReadsEffect, TwoEnds DEF Shorter, Torn, Others
    <3>3. CASE Asks(c)
      BY <2>1, <2>2, <3>3, AsksEffect, TwoEnds DEF Longer, Others
    <3>4. CASE Leaves(c)
      BY <2>1, <2>2, <3>4, LeavesEffect, TwoEnds DEF Emptied, Others
    <3>5. CASE Open(c)
      <4>1. current # opened + 1
        BY <2>1, ConnNumbers
      <4> QED
        BY <2>1, <2>2, <3>5, <4>1, OpenEffect, TwoEnds DEF Others
    <3> QED
      BY <3>1, <3>2, <3>3, <3>4, <3>5, Kinds
  <2>4. Safe'
    BY SafeClient
  <2> QED
    BY <1>0, <2>1, <2>2, <2>3, <2>4, ServerQueue DEF Spoilt, Safe, NetworkOK, QueueShape, Ends
<1> QED
  BY <1>3, <1>4, <1>5, <1>6 DEF CloseIsSeen
\* The server spins where nothing is left to read, nor a close to come.
LEMMA CloseSeenServer ==
    ASSUME Safe, SocketsOK, CloseIsSeen, Server
    PROVE  CloseIsSeen'
<1>0. [Next]_vars
  BY DEF Next
<1>1. /\ UNCHANGED <<cpc, sock, closes_sent>>
      /\ \A k \in Conns : "client" \in closed'[k] => "client" \in closed[k]
  BY ServerCloses DEF Safe, NetworkOK, Server, Accept, IgnoreFirst, ReadRequest, SwallowRequest,
         ReadDamagedPut, ReadGarbage, ReadEOF, SpinAtEOF, ReadFails, HandleCommand, HandlerRaises,
         HandleLogin, HandleAnonymousLogin, RefuseLogin, ShadowFileUnreadable, SendResponse,
         SendResponseFails, Detach, Abort, vars, network, clientVars, history
<1>2. SentIsOver'
  BY <1>1, OverServer DEF CloseIsSeen, SentIsOver
<1>3. SentIsLast' /\ ClosingIsSent' /\ ClosedIsKnown'
  BY <1>0, <1>1, EndedStays DEF CloseIsSeen, SentIsLast, ClosingIsSent, ClosedIsKnown
<1>4. SpinsAlone'
  <2>1. CASE ReadEOF
    <3>1. /\ current \in Conns /\ current \notin reset /\ "client" \in closed[current]
          /\ queue[current]["server"] = <<>> \/ Spoilt(current, "server")
          /\ spc \in {"ignore", "read"} /\ UNCHANGED <<current, queue>>
      BY <2>1, TwoEnds, ConnNumbers DEF ReadEOF, AtEOF, network
    <3>2. CASE Spoilt(current, "server")
      BY <3>1, <3>2 DEF SpinsAlone, Spoilt
    <3>3. CASE queue[current]["server"] = <<>>
      <4>1. ~ LastIsClose(current)
        BY <3>1, <3>3, ServerQueue DEF LastIsClose
      <4>2. "server" \notin closed[current]
        BY <3>1 DEF SocketsOK, ClosedByServer
      <4>3. current \notin closes_sent
        BY <3>1, <4>1, <4>2 DEF CloseIsSeen, SentIsOver, Over
      <4>4. Ended(current)
        BY <3>1, <4>3 DEF CloseIsSeen, ClosedIsKnown
      <4> QED
        BY <1>1, <3>1, <4>3, <4>4 DEF SpinsAlone, Ended
    <3> QED
      BY <3>1, <3>2, <3>3
  <2>2. CASE SpinAtEOF
    BY <2>2 DEF SpinAtEOF, vars, network, serverVars, clientVars, history, CloseIsSeen, SpinsAlone, Ended,
                Spoilt
  <2>3. CASE ~ ReadEOF /\ ~ SpinAtEOF
    <3>1. spc' # "spin"
      BY <2>3 DEF ServerGoto, Server, Accept, IgnoreFirst, ReadRequest, SwallowRequest,
         ReadDamagedPut, ReadGarbage, ReadFails, HandleCommand, HandlerRaises,
         HandleLogin, HandleAnonymousLogin, RefuseLogin, ShadowFileUnreadable, SendResponse,
         SendResponseFails, Detach, Abort, serverVars
    <3> QED
      BY <3>1 DEF SpinsAlone
  <2> QED
    BY <2>1, <2>2, <2>3
<1> QED
  BY <1>2, <1>3, <1>4 DEF CloseIsSeen

\* Nothing is closed at the start.
LEMMA CloseSeenInit == Init => CloseIsSeen
  BY DEF Init, CloseIsSeen, SentIsOver, SentIsLast, ClosingIsSent, ClosedIsKnown, SpinsAlone

\* A step of a server or a client, or none.
LEMMA CloseSeenStep == Safe /\ SocketsOK /\ CloseIsSeen /\ [Next]_vars => CloseIsSeen'
<1> SUFFICES ASSUME Safe, SocketsOK, CloseIsSeen, [Next]_vars PROVE CloseIsSeen'
  OBVIOUS
<1>1. CASE UNCHANGED vars
  BY <1>1 DEF vars, network, serverVars, clientVars, history, CloseIsSeen, SentIsOver, SentIsLast,
              ClosingIsSent, ClosedIsKnown, SpinsAlone, Ended, Over, LastIsClose, Spoilt
<1>2. CASE Server
  BY <1>2, CloseSeenServer
<1>3. ASSUME NEW c \in Clients, Client(c) PROVE CloseIsSeen'
  BY <1>3, CloseSeenClient
<1> QED
  BY <1>1, <1>2, <1>3 DEF Next, Quiet

(***************************************************************************)
(* read_bytes of helper.py does not see the end of the stream and keeps    *)
(* the only thread of the server in its loop.  It gets there only if the   *)
(* client has ended and no close was sent behind the first request of the  *)
(* connection, or if the remains of a request swallowed what followed: a   *)
(* client that sends a close lets the server go on, whether it ends or not.*)
(***************************************************************************)
THEOREM SpinSafety == Spec => []SpinsOnlyWithoutClose
<1>1. Init => Safe /\ SocketsOK /\ CloseIsSeen
  BY SafeInit, SocketsInit, CloseSeenInit
<1>2. Safe /\ SocketsOK /\ CloseIsSeen /\ [Next]_vars => (Safe /\ SocketsOK /\ CloseIsSeen)'
  BY SafeStep, SocketsStep, CloseSeenStep
<1>3. CloseIsSeen => SpinsOnlyWithoutClose
  BY DEF CloseIsSeen, SpinsAlone, Ended, SpinsOnlyWithoutClose
<1> QED
  BY <1>1, <1>2, <1>3, PTL DEF Spec
-----------------------------------------------------------------------------
(***************************************************************************)
(* Numbers.  The responses on their way to a client, the request in hand   *)
(* and the requests still to be read are numbered one after the other,     *)
(* from the responses it has taken or given up to the requests it has sent;*)
(* only what comes behind the remains of a request has no place.           *)
(***************************************************************************)
InHand(k) == IF current = k /\ spc \in {"handle", "respond"} THEN 1 ELSE 0
Serving(k) == "server" \notin closed[k] /\ ~ (current = k /\ spc \in {"detach", "raise"})

RepliesFrom(k, b) ==
    \A i \in 1 .. Len(queue[k]["client"]) : queue[k]["client"][i].number = b + i
IsRemains(k, i) == queue[k]["server"][i].command \in Remains
RequestsFrom(k, b) ==
    \A j \in 1 .. Len(queue[k]["server"]) :
        \/ queue[k]["server"][j].command = "garbage"
        \/ \E i \in 1 .. j - 1 : IsRemains(k, i)
        \/ queue[k]["server"][j].number = b + j
Mangled(k) == \E j \in 1 .. Len(queue[k]["server"]) : IsRemains(k, j)

Answered(c, k) == Taken(c) + Len(queue[k]["client"])
InOrder(c, k) ==
    /\ RepliesFrom(k, Taken(c))
    /\ Serving(k) =>
         /\ InHand(k) = 1 => request.number = Answered(c, k) + 1
         /\ RequestsFrom(k, Answered(c, k) + InHand(k))
         /\ \/ Mangled(k)
            \/ asked[c] = Answered(c, k) + InHand(k) + Len(queue[k]["server"])

Numbered == \A c \in Clients : Live(c) => InOrder(c, sock[c])

\* What is counted are numbers.
LEMMA Counts ==
    ASSUME Safe, NEW c \in Clients, NEW k \in Conns
    PROVE  /\ Taken(c) \in Int /\ asked[c] \in Int
           /\ Len(queue[k]["client"]) \in Nat /\ Len(queue[k]["server"]) \in Nat
           /\ InHand(k) \in {0, 1} /\ Answered(c, k) \in Int
<1>1. Taken(c) \in Int /\ asked[c] \in Int
  BY FtpAssumption DEF Safe, ClientsOK, Taken
<1>2. Len(queue[k]["client"]) \in Nat /\ Len(queue[k]["server"]) \in Nat
  BY ServerQueue
<1> QED
  BY <1>1, <1>2 DEF InHand, Answered

\* A connection that is left alone stays in order.
LEMMA InOrderKept ==
    ASSUME NEW c, NEW k, InOrder(c, k),
           queue'[k]["server"] = queue[k]["server"], queue'[k]["client"] = queue[k]["client"],
           Taken(c)' = Taken(c), asked'[c] = asked[c],
           Serving(k)' => Serving(k) /\ InHand(k)' = InHand(k) /\ (InHand(k) = 1 => request' = request)
    PROVE  InOrder(c, k)'
  BY DEF InOrder, RepliesFrom, RequestsFrom, IsRemains, Mangled, Answered

\* A client takes the first response, or what it has read of it.
LEMMA InOrderReads ==
    ASSUME Safe, NEW c \in Clients, Reads(c), NEW k, k = sock[c], InOrder(c, k)
    PROVE  InOrder(c, k)'
<1>1. /\ k \in Conns /\ UNCHANGED <<closed, asked, current, spc, request>>
      /\ \/ Shorter(k, "client") /\ Taken(c)' = Taken(c) + 1
         \/ Torn(k) /\ Taken(c)' = Taken(c)
  BY ReadsEffect, ClientAlone DEF Client, Reads, TakesResponse, Safe, OneMoves, serverVars
<1>2. queue'[k]["server"] = queue[k]["server"]
  BY <1>1, TwoEnds DEF Shorter, Torn, Others
<1>3. PICK t, n : t = Taken(c) /\ n = Len(queue[k]["client"]) /\ t \in Int /\ n \in Nat
  BY <1>1, Counts
<1>4. Answered(c, k)' = Answered(c, k) /\ RepliesFrom(k, Taken(c))'
  <2>1. CASE Shorter(k, "client") /\ Taken(c)' = Taken(c) + 1
    <3>1. Len(queue'[k]["client"]) = n - 1 /\ n > 0 /\ Taken(c)' = t + 1
      BY <1>3, <2>1 DEF Shorter
    <3>2. Answered(c, k)' = Answered(c, k)
      <4>1. t + 1 + (n - 1) = t + n
        BY <1>3, SMTT(30)
      <4> QED
        BY <1>3, <3>1, <4>1 DEF Answered
    <3>3. ASSUME NEW i \in 1 .. Len(queue'[k]["client"])
          PROVE  queue'[k]["client"][i].number = (t + 1) + i
      <4>1. i + 1 \in 1 .. n /\ t + (i + 1) = (t + 1) + i
        BY <1>3, <3>1
      <4>2. queue'[k]["client"][i] = queue[k]["client"][i + 1]
        BY <2>1 DEF Shorter
      <4>3. queue[k]["client"][i + 1].number = t + (i + 1)
        BY <1>3, <4>1 DEF InOrder, RepliesFrom
      <4> QED
        BY <4>1, <4>2, <4>3
    <3> QED
      BY <3>1, <3>2, <3>3 DEF RepliesFrom
  <2>2. CASE Torn(k) /\ Taken(c)' = Taken(c)
    <3>1. Len(queue'[k]["client"]) = n /\ n > 0 /\ Taken(c)' = t
      BY <1>3, <2>2 DEF Torn
    <3>2. ASSUME NEW i \in 1 .. Len(queue'[k]["client"])
          PROVE  queue'[k]["client"][i].number = t + i
      <4>1. i \in 1 .. n /\ (i = 1 \/ i \in 2 .. n)
        BY <1>3, <3>1
      <4>2. queue[k]["client"][i].number = t + i
        BY <1>3, <4>1 DEF InOrder, RepliesFrom
      <4>3. queue'[k]["client"][i].number = queue[k]["client"][i].number
        BY <1>3, <2>2, <3>1, <4>1 DEF Torn
      <4> QED
        BY <4>2, <4>3
    <3> QED
      BY <1>3, <3>1, <3>2 DEF RepliesFrom, Answered
  <2> QED
    BY <1>1, <2>1, <2>2
<1> QED
  BY <1>1, <1>2, <1>4 DEF InOrder, Serving, InHand, RequestsFrom, IsRemains, Mangled

\* A client asks one more.
LEMMA InOrderAsks ==
    ASSUME Safe, NEW c \in Clients, Asks(c), cpc'[c] \notin {"closing", "exiting"},
           NEW k, k = sock[c], InOrder(c, k)
    PROVE  InOrder(c, k)'
<1>1. PICK m \in Requests :
          /\ k \in Conns /\ m.number = asked[c] + 1 /\ closed' = closed
          /\ \/ "server" \in closed[k] /\ queue' = queue
             \/ "server" \notin closed[k] /\ Longer(k, "server", m)
          /\ asked'[c] = asked[c] + 1 /\ Taken(c)' = Taken(c)
  BY AsksEffect
<1>2. UNCHANGED <<spc, current, request>>
  BY ClientAlone DEF Client, Asks, Safe, OneMoves, serverVars
<1>3. queue'[k]["client"] = queue[k]["client"]
  BY <1>1, TwoEnds DEF Longer, Others
<1>4. RepliesFrom(k, Taken(c))' /\ Answered(c, k)' = Answered(c, k)
  BY <1>1, <1>3 DEF InOrder, RepliesFrom, Answered
<1>5. CASE "server" \in closed[k]
  BY <1>1, <1>4, <1>5 DEF InOrder, Serving
<1>6. CASE Longer(k, "server", m) /\ Serving(k)
  <2>1. PICK b, n : /\ b = Answered(c, k) + InHand(k) /\ n = Len(queue[k]["server"])
                    /\ b \in Int /\ n \in Nat
    BY <1>1, Counts
  <2>2. /\ Len(queue'[k]["server"]) = n + 1
        /\ \A i \in 1 .. n : queue'[k]["server"][i] = queue[k]["server"][i]
        /\ queue'[k]["server"][n + 1] = m
    BY <1>6, <2>1 DEF Longer
  <2>3. /\ RequestsFrom(k, b)
        /\ Mangled(k) \/ asked[c] = b + n
    BY <1>6, <2>1 DEF InOrder
  <2>4. \A i \in 1 .. n : IsRemains(k, i) <=> IsRemains(k, i)'
    BY <2>2 DEF IsRemains
  <2>5. Mangled(k)' \/ asked'[c] = b + (n + 1)
    <3>1. CASE Mangled(k)
      <4>1. PICK i \in 1 .. n : IsRemains(k, i)
        BY <2>1, <3>1 DEF Mangled
      <4>2. i \in 1 .. n + 1 /\ IsRemains(k, i)'
        BY <2>1, <2>4, <4>1
      <4> QED
        BY <2>2, <4>2 DEF Mangled
    <3>2. CASE asked[c] = b + n
      BY <1>1, <2>1, <3>2
    <3> QED
      BY <2>3, <3>1, <3>2
  <2>6. RequestsFrom(k, b)'
    <3> SUFFICES ASSUME NEW j \in 1 .. n + 1
                 PROVE  \/ queue'[k]["server"][j].command = "garbage"
                        \/ \E i \in 1 .. j - 1 : IsRemains(k, i)'
                        \/ queue'[k]["server"][j].number = b + j
      BY <2>2 DEF RequestsFrom
    <3>1. CASE j \in 1 .. n
      <4>1. \/ queue[k]["server"][j].command = "garbage"
            \/ \E i \in 1 .. j - 1 : IsRemains(k, i)
            \/ queue[k]["server"][j].number = b + j
        BY <2>1, <2>3, <3>1 DEF RequestsFrom
      <4>2. \A i \in 1 .. j - 1 : i \in 1 .. n
        BY <2>1, <3>1
      <4> QED
        BY <2>2, <2>4, <3>1, <4>1, <4>2
    <3>2. CASE j = n + 1
      <4>1. CASE Mangled(k)
        <5>1. PICK i \in 1 .. n : IsRemains(k, i)
          BY <2>1, <4>1 DEF Mangled
        <5>2. i \in 1 .. j - 1 /\ IsRemains(k, i)'
          BY <2>1, <2>4, <3>2, <5>1
        <5> QED
          BY <5>2
      <4>2. CASE asked[c] = b + n
        <5>1. m.number = b + j
          BY <1>1, <2>1, <3>2, <4>2
        <5> QED
          BY <2>2, <3>2, <5>1
      <4> QED
        BY <2>3, <4>1, <4>2
    <3>3. j \in 1 .. n \/ j = n + 1
      BY <2>1
    <3> QED
      BY <3>1, <3>2, <3>3
  <2>7. InHand(k)' = InHand(k) /\ (InHand(k) = 1 => request'.number = Answered(c, k) + 1)
    BY <1>2, <1>6 DEF InHand, InOrder
  <2> QED
    BY <1>4, <2>1, <2>2, <2>5, <2>6, <2>7 DEF InOrder
<1>7. CASE ~ Serving(k)
  BY <1>1, <1>2, <1>4, <1>7 DEF InOrder, Serving
<1> QED
  BY <1>1, <1>5, <1>6, <1>7

\* The ping is the first.
LEMMA InOrderOpen ==
    ASSUME Safe, SocketsOK, NEW c \in Clients, Open(c), Live(c)', NEW k, k = opened + 1
    PROVE  InOrder(c, k)'
<1>1. /\ k \in Conns /\ asked'[c] = 1 /\ Taken(c)' = 0 /\ Others(k, "server")
      /\ Len(queue'[k]["server"]) = 1 /\ queue'[k]["server"][1].number = 1
  BY OpenEffect DEF Live, Waiting
<1>2. queue'[k]["client"] = <<>>
  <2>1. k > opened
    BY ConnNumbers
  <2> QED
    BY <1>1, <2>1, TwoEnds DEF Others, SocketsOK, Unopened
<1>3. InHand(k)' = 0
  <2>1. current' = current /\ current # k
    BY ConnNumbers, ClientAlone DEF Client, Safe, OneMoves, serverVars
  <2> QED
    BY <2>1 DEF InHand
<1>4. Len(queue'[k]["client"]) = 0 /\ Answered(c, k)' = 0
  BY <1>1, <1>2 DEF Answered
<1>5. RepliesFrom(k, Taken(c))'
  BY <1>1, <1>4 DEF RepliesFrom
<1>6. \A j \in 1 .. 1 : queue'[k]["server"][j].number = 0 + j
  <2>1. \A j \in 1 .. 1 : j = 1 /\ 0 + j = 1
    OBVIOUS
  <2> QED
    BY <1>1, <2>1
<1>7. RequestsFrom(k, 0)'
  BY <1>1, <1>6 DEF RequestsFrom
<1>8. 0 + 0 = 0 /\ 0 + 1 = 1
  OBVIOUS
<1> QED
  BY <1>1, <1>3, <1>4, <1>5, <1>7, <1>8 DEF InOrder
\* No other client touches the connection of a client.
LEMMA OtherConnection ==
    ASSUME Safe, SocketsOK, NEW c \in Clients, NEW d \in Clients, d # c, Client(c),
           NEW k \in Conns, k = sock[d]
    PROVE  /\ queue'[k]["server"] = queue[k]["server"]
           /\ queue'[k]["client"] = queue[k]["client"]
           /\ closed'[k] = closed[k]
<1>1. k <= opened /\ k # opened + 1 /\ (sock[c] \in Conns => k # sock[c])
  BY ConnNumbers DEF SocketsOK, Apart
<1>2. CASE Waits(c)
  BY <1>2, WaitsEffect
<1>3. CASE Reads(c)
  BY <1>1, <1>3, ReadsEffect, TwoEnds DEF Shorter, Torn, Others
<1>4. CASE Asks(c)
  BY <1>1, <1>4, AsksEffect, TwoEnds DEF Longer, Others
<1>5. CASE Leaves(c)
  BY <1>1, <1>5, LeavesEffect, TwoEnds DEF Emptied, Others, Safe, NetworkOK
<1>6. CASE Open(c)
  BY <1>1, <1>6, OpenEffect, TwoEnds DEF Others
<1> QED
  BY <1>2, <1>3, <1>4, <1>5, <1>6, Kinds

\* The clients number their requests.
LEMMA NumberedClient ==
    ASSUME Safe, SocketsOK, Numbered, NEW c \in Clients, Client(c)
    PROVE  Numbered'
<1> SUFFICES ASSUME NEW d \in Clients, Live(d)', NEW k, k = sock'[d] PROVE InOrder(d, k)'
  BY DEF Numbered, InOrder, RepliesFrom, RequestsFrom, IsRemains, Mangled, Answered, InHand, Serving
<1>1. OneMoves(c) /\ UNCHANGED <<spc, current, request>>
  BY ClientAlone DEF Safe, OneMoves, serverVars
<1>2. CASE d # c
  <2>1. /\ Live(d) /\ k = sock[d] /\ k \in Conns
        /\ Taken(d)' = Taken(d) /\ asked'[d] = asked[d]
    BY <1>1, <1>2 DEF OneMoves, Live, Taken
  <2>2. InOrder(d, k)
    BY <2>1 DEF Numbered
  <2>3. /\ queue'[k]["server"] = queue[k]["server"] /\ queue'[k]["client"] = queue[k]["client"]
        /\ closed'[k] = closed[k]
    BY <1>2, <2>1, OtherConnection
  <2>4. Serving(k)' => Serving(k) /\ InHand(k)' = InHand(k)
    BY <1>1, <2>3 DEF Serving, InHand
  <2> QED
    BY <1>1, <2>1, <2>2, <2>3, <2>4, InOrderKept
<1>3. CASE d = c
  <2>1. CASE Waits(c)
    <3>1. /\ Live(c) /\ Taken(c)' = Taken(c) /\ asked'[c] = asked[c] /\ UNCHANGED <<queue, closed>>
          /\ k = sock[c]
      BY <1>3, <2>1, WaitsEffect, ConnNumbers DEF Live
    <3>2. InOrder(c, k)
      BY <3>1 DEF Numbered
    <3>3. Serving(k)' => Serving(k) /\ InHand(k)' = InHand(k)
      BY <1>1, <3>1 DEF Serving, InHand
    <3> QED
      BY <1>1, <1>3, <3>1, <3>2, <3>3, InOrderKept
  <2>2. CASE Reads(c)
    <3>1. Live(c) /\ k = sock[c]
      BY <1>3, <2>2, ReadsEffect
    <3> QED
      BY <1>3, <2>2, <3>1, InOrderReads DEF Numbered
  <2>3. CASE Asks(c)
    <3>1. cpc'[c] \notin {"closing", "exiting"}
      BY <1>3 DEF Live, Waiting
    <3>2. Live(c) /\ k = sock[c]
      BY <1>3, <2>3, <3>1, AsksEffect
    <3> QED
      BY <1>3, <2>3, <3>1, <3>2, InOrderAsks DEF Numbered
  <2>4. CASE Leaves(c)
    BY <1>3, <2>4, LeavesEffect, ConnNumbers DEF Live, Waiting
  <2>5. CASE Open(c)
    <3>1. k = opened + 1
      BY <1>3, <2>5, OpenEffect
    <3> QED
      BY <1>3, <2>5, <3>1, InOrderOpen
  <2> QED
    BY <2>1, <2>2, <2>3, <2>4, <2>5, Kinds
<1> QED
  BY <1>2, <1>3

\* A request is taken from the queue into the hand of the server.
LEMMA InOrderTakes ==
    ASSUME Safe, NEW c \in Clients, NEW k \in Conns, InOrder(c, k), k = current,
           IgnoreFirst \/ ReadRequest, Taken(c)' = Taken(c), asked'[c] = asked[c]
    PROVE  InOrder(c, k)'
<1>1. /\ Shorter(k, "server") /\ request' = queue[k]["server"][1]
      /\ request'.command \notin Remains /\ UNCHANGED <<closed, current>>
      /\ spc \in {"ignore", "read"} /\ spc' \in {"respond", "detach", "handle"}
  BY ServerReads DEF IgnoreFirst, ReadRequest, ServerGoto
<1>2. queue'[k]["client"] = queue[k]["client"]
  BY <1>1, TwoEnds DEF Shorter, Others
<1>3. RepliesFrom(k, Taken(c))' /\ Answered(c, k)' = Answered(c, k)
  BY <1>2 DEF InOrder, RepliesFrom, Answered
<1>4. CASE spc' = "detach" \/ ~ Serving(k)
  BY <1>1, <1>3, <1>4 DEF InOrder, Serving
<1>5. CASE spc' # "detach" /\ Serving(k)
  <2>1. PICK b, n : b = Answered(c, k) /\ n = Len(queue[k]["server"]) /\ b \in Int /\ n \in Nat
    BY Counts
  <2>2. /\ n > 0 /\ Len(queue'[k]["server"]) = n - 1
        /\ \A i \in 1 .. n - 1 : queue'[k]["server"][i] = queue[k]["server"][i + 1]
    BY <1>1, <2>1 DEF Shorter
  <2>3. InHand(k) = 0 /\ InHand(k)' = 1
    BY <1>1, <1>5 DEF InHand
  <2>4. /\ RequestsFrom(k, b) /\ (Mangled(k) \/ asked[c] = b + n)
    <3>1. b + 0 = b
      BY <2>1
    <3> QED
      BY <1>5, <2>1, <2>3, <3>1 DEF InOrder
  <2>5. request'.number = b + 1
    <3>1. 1 \in 1 .. n /\ ~ \E i \in 1 .. 1 - 1 : TRUE
      BY <2>1, <2>2
    <3>2. request'.command # "garbage"
      BY <1>1 DEF Remains
    <3> QED
      BY <1>1, <2>1, <2>4, <3>1, <3>2 DEF RequestsFrom
  <2>6. /\ ~ IsRemains(k, 1)
        /\ \A i \in 1 .. n - 1 : IsRemains(k, i)' <=> IsRemains(k, i + 1)
    BY <1>1, <2>2 DEF IsRemains
  <2>7. Mangled(k)' \/ asked'[c] = b + 1 + (n - 1)
    <3>1. CASE Mangled(k)
      <4>1. PICK i \in 1 .. n : IsRemains(k, i)
        BY <2>1, <3>1 DEF Mangled
      <4>2. i - 1 \in 1 .. n - 1 /\ (i - 1) + 1 = i
        BY <2>1, <2>6, <4>1
      <4>3. IsRemains(k, i - 1)'
        BY <2>6, <4>1, <4>2
      <4> QED
        BY <2>2, <4>2, <4>3 DEF Mangled
    <3>2. CASE asked[c] = b + n
      BY <2>1, <3>2
    <3> QED
      BY <2>4, <3>1, <3>2
  <2>8. RequestsFrom(k, b + 1)'
    <3> SUFFICES ASSUME NEW j \in 1 .. n - 1
                 PROVE  \/ queue'[k]["server"][j].command = "garbage"
                        \/ \E i \in 1 .. j - 1 : IsRemains(k, i)'
                        \/ queue'[k]["server"][j].number = b + 1 + j
      BY <2>2 DEF RequestsFrom
    <3>1. j + 1 \in 1 .. n /\ b + (j + 1) = b + 1 + j
      BY <2>1
    <3>2. \/ queue[k]["server"][j + 1].command = "garbage"
          \/ \E i \in 1 .. (j + 1) - 1 : IsRemains(k, i)
          \/ queue[k]["server"][j + 1].number = b + (j + 1)
      BY <2>1, <2>4, <3>1 DEF RequestsFrom
    <3>3. ASSUME NEW i \in 1 .. (j + 1) - 1, IsRemains(k, i)
          PROVE  i - 1 \in 1 .. j - 1 /\ IsRemains(k, i - 1)'
      <4>1. i - 1 \in 1 .. j - 1 /\ i - 1 \in 1 .. n - 1 /\ (i - 1) + 1 = i
        BY <2>1, <2>6, <3>3
      <4> QED
        BY <2>6, <3>3, <4>1
    <3> QED
      BY <2>2, <3>1, <3>2, <3>3
  <2> QED
    BY <1>3, <2>1, <2>2, <2>3, <2>5, <2>7, <2>8 DEF InOrder
<1> QED
  BY <1>4, <1>5

\* Remains keep the place of their request; what they take loses its own.
LEMMA InOrderMerges ==
    ASSUME Safe, NEW c \in Clients, NEW k \in Conns, InOrder(c, k), k = current,
           SwallowRequest \/ ReadDamagedPut, Taken(c)' = Taken(c), asked'[c] = asked[c]
    PROVE  InOrder(c, k)'
<1>1. /\ Merged(k) /\ queue[k]["server"][1].command \in Remains
      /\ queue[k]["server"][1].command = "garbage" \/ ReadDamagedPut =>
             queue'[k]["server"][1].command = "garbage"
      /\ ReadDamagedPut => request'.number = queue[k]["server"][1].number /\ spc' = "handle"
      /\ ReadDamagedPut \/ UNCHANGED serverVars
      /\ UNCHANGED <<closed, current>> /\ spc = "read"
  BY ServerMerges
<1>6. ReadDamagedPut => queue[k]["server"][1].command # "garbage"
  <2>1. ReadDamagedPut => Head(queue[k]["server"]).command = "torn" /\ queue[k]["server"] # <<>>
    BY DEF ReadDamagedPut, NextRequest, Spoilt
  <2> QED
    BY <2>1, TwoEnds, FirstMessage DEF Safe
<1>2. queue'[k]["client"] = queue[k]["client"]
  BY <1>1, TwoEnds DEF Merged, Others
<1>3. RepliesFrom(k, Taken(c))' /\ Answered(c, k)' = Answered(c, k)
  BY <1>2 DEF InOrder, RepliesFrom, Answered
<1>4. CASE ~ Serving(k)
  BY <1>1, <1>3, <1>4 DEF InOrder, Serving
<1>5. CASE Serving(k)
  <2>1. PICK b, n : b = Answered(c, k) /\ n = Len(queue[k]["server"]) /\ b \in Int /\ n \in Nat
    BY Counts
  <2>2. n > 1 /\ Len(queue'[k]["server"]) = n - 1 /\ IsRemains(k, 1)'
        /\ queue'[k]["server"][1].number = queue[k]["server"][1].number
    BY <1>1, <2>1 DEF Merged, IsRemains
  <2>3. RequestsFrom(k, b)
    <3>1. InHand(k) = 0 /\ b + 0 = b
      BY <1>1, <2>1 DEF InHand
    <3> QED
      BY <1>5, <2>1, <3>1 DEF InOrder
  <2>4. \/ queue[k]["server"][1].command = "garbage"
        \/ queue[k]["server"][1].number = b + 1
    <3>1. 1 \in 1 .. n /\ ~ \E i \in 1 .. 1 - 1 : TRUE
      BY <2>1, <2>2
    <3> QED
      BY <2>1, <2>3, <3>1 DEF RequestsFrom
  <2>5. Mangled(k)'
    <3>1. 1 \in 1 .. n - 1
      BY <2>1, <2>2
    <3> QED
      BY <2>2, <3>1 DEF Mangled
  <2>6. ASSUME NEW a, queue'[k]["server"][1].command = "garbage"
                      \/ queue'[k]["server"][1].number = a + 1
        PROVE  RequestsFrom(k, a)'
    <3> SUFFICES ASSUME NEW j \in 1 .. n - 1
                 PROVE  \/ queue'[k]["server"][j].command = "garbage"
                        \/ \E i \in 1 .. j - 1 : IsRemains(k, i)'
                        \/ queue'[k]["server"][j].number = a + j
      BY <2>2 DEF RequestsFrom
    <3>1. j = 1 \/ 1 \in 1 .. j - 1
      BY <2>1
    <3> QED
      BY <2>2, <2>6, <3>1
  <2>7. CASE ReadDamagedPut
    <3>1. InHand(k)' = 1 /\ queue'[k]["server"][1].command = "garbage"
      BY <1>1, <2>7 DEF InHand
    <3>2. request'.number = b + 1
      BY <1>1, <1>6, <2>4, <2>7
    <3> QED
      BY <1>3, <2>1, <2>5, <2>6, <3>1, <3>2 DEF InOrder
  <2>8. CASE ~ ReadDamagedPut
    <3>1. InHand(k)' = 0 /\ b + 0 = b
      BY <1>1, <2>1, <2>8 DEF InHand, serverVars
    <3>2. \/ queue'[k]["server"][1].command = "garbage"
          \/ queue'[k]["server"][1].number = b + 1
      BY <1>1, <2>2, <2>4
    <3> QED
      BY <1>3, <2>1, <2>5, <2>6, <3>1, <3>2 DEF InOrder
  <2> QED
    BY <2>7, <2>8
<1> QED
  BY <1>4, <1>5

\* The response to the request in hand is the next one.
LEMMA InOrderAnswers ==
    ASSUME Safe, SocketsOK, NEW c \in Clients, NEW k \in Conns, InOrder(c, k), k = current,
           "client" \notin closed[k],
           SendResponse, Taken(c)' = Taken(c), asked'[c] = asked[c]
    PROVE  InOrder(c, k)'
<1>1. PICK m \in Responses : m.number = request.number /\ Longer(k, "client", m)
  BY ServerAnswers
<1>2. spc = "respond" /\ spc' = "read" /\ UNCHANGED <<closed, current, request>>
  BY DEF SendResponse, ServerGoto
<1>3. queue'[k]["server"] = queue[k]["server"]
  BY <1>1, TwoEnds DEF Longer, Others
<1>4. PICK t, n : t = Taken(c) /\ n = Len(queue[k]["client"]) /\ t \in Int /\ n \in Nat
  BY Counts
<1>5. /\ Len(queue'[k]["client"]) = n + 1
      /\ \A i \in 1 .. n : queue'[k]["client"][i] = queue[k]["client"][i]
      /\ queue'[k]["client"][n + 1] = m
  BY <1>1, <1>4 DEF Longer
<1>6. InHand(k) = 1 /\ InHand(k)' = 0
  BY <1>2 DEF InHand
<1>7. Answered(c, k)' + InHand(k)' = Answered(c, k) + InHand(k)
  <2>1. t + (n + 1) + 0 = t + n + 1
    BY <1>4
  <2> QED
    BY <1>4, <1>5, <1>6, <2>1 DEF Answered
<1>8. Serving(k)
  BY <1>2 DEF Serving, SocketsOK, ClosedByServer
<1>9. RepliesFrom(k, Taken(c))'
  <2>1. request.number = t + n + 1
    BY <1>4, <1>6, <1>8 DEF InOrder, Answered
  <2>2. ASSUME NEW i \in 1 .. n + 1 PROVE queue'[k]["client"][i].number = t + i
    <3>1. CASE i \in 1 .. n
      BY <1>4, <1>5, <3>1 DEF InOrder, RepliesFrom
    <3>2. CASE i = n + 1
      <4>1. t + n + 1 = t + i
        BY <1>4, <3>2
      <4> QED
        BY <1>1, <1>5, <2>1, <3>2, <4>1
    <3>3. i \in 1 .. n \/ i = n + 1
      BY <1>4
    <3> QED
      BY <3>1, <3>2, <3>3
  <2> QED
    BY <1>4, <1>5, <2>2 DEF RepliesFrom
<1> QED
  BY <1>3, <1>6, <1>7, <1>8, <1>9 DEF InOrder, RequestsFrom, IsRemains, Mangled

\* The server answers requests in the order of their numbers.
LEMMA NumberedServer ==
    ASSUME Safe, SocketsOK, Numbered, Server
    PROVE  Numbered'
<1> SUFFICES ASSUME NEW d \in Clients, Live(d)', NEW k, k = sock'[d] PROVE InOrder(d, k)'
  BY DEF Numbered, InOrder, RepliesFrom, RequestsFrom, IsRemains, Mangled, Answered, InHand, Serving
<1>1. UNCHANGED clientVars
  BY DEF Server, Accept, IgnoreFirst, ReadRequest, SwallowRequest, ReadDamagedPut, ReadGarbage,
         ReadEOF, SpinAtEOF, ReadFails, HandleCommand, HandlerRaises, HandleLogin,
         HandleAnonymousLogin, RefuseLogin, ShadowFileUnreadable, SendResponse,
         SendResponseFails, Detach, Abort, vars
<1>2. /\ Live(d) /\ k = sock[d] /\ k \in Conns
      /\ Taken(d)' = Taken(d) /\ asked'[d] = asked[d]
  BY <1>1 DEF clientVars, Live, Taken
<1>3. InOrder(d, k) /\ "client" \notin closed[k]
  BY <1>2 DEF Numbered, SocketsOK, ClosedByClient, Live, Waiting
<1>4. CASE Thinks
  <2>1. UNCHANGED <<queue, closed, request>>
    BY <1>4, ThinksEffect
  <2>2. Serving(k)' => Serving(k) /\ InHand(k)' = InHand(k)
    <3>1. CASE spc = "accept" /\ spc' = "ignore"
      BY <2>1, <3>1 DEF Serving, InHand
    <3>2. CASE spc # "accept" /\ current' = current
      BY <1>4, <2>1, <3>2, ThinksEffect DEF Serving, InHand
    <3> QED
      BY <1>4, <3>1, <3>2, ThinksEffect
  <2> QED
    BY <1>2, <1>3, <2>1, <2>2, InOrderKept
<1>5. ASSUME k # current, NEW e \in Ends, queue' = queue \/ Others(current, e),
             current' = current, closed'[k] = closed[k]
      PROVE  InOrder(d, k)'
  <2>1. /\ queue'[k]["server"] = queue[k]["server"] /\ queue'[k]["client"] = queue[k]["client"]
    BY <1>2, <1>5, TwoEnds DEF Others
  <2>2. InHand(k) = 0 /\ InHand(k)' = 0 /\ Serving(k)' = Serving(k)
    BY <1>5 DEF InHand, Serving
  <2> QED
    BY <1>2, <1>3, <2>1, <2>2, InOrderKept
<1>6. CASE IgnoreFirst \/ ReadRequest
  <2>1. Others(current, "server") /\ UNCHANGED <<closed, current>>
    BY <1>6, ServerReads DEF Shorter
  <2> QED
    BY <1>2, <1>3, <1>5, <1>6, <2>1, TwoEnds, InOrderTakes
<1>7. CASE SwallowRequest \/ ReadDamagedPut
  <2>1. Others(current, "server") /\ UNCHANGED <<closed, current>>
    BY <1>7, ServerMerges DEF Merged
  <2> QED
    BY <1>2, <1>3, <1>5, <1>7, <2>1, TwoEnds, InOrderMerges
<1>8. CASE SendResponse
  <2>1. /\ queue' = queue \/ Others(current, "client")
        /\ UNCHANGED <<closed, current>>
    BY <1>8, ServerAnswers DEF Longer, SendResponse
  <2> QED
    BY <1>2, <1>3, <1>5, <1>8, <2>1, TwoEnds, InOrderAnswers
<1>9. CASE Detach \/ Abort
  <2>1. /\ Others(current, "server") /\ current' = current /\ current \in Conns
        /\ closed' = [closed EXCEPT ![current] = @ \cup {"server"}]
    BY <1>9, ServerCloses DEF Emptied, Detach, Abort
  <2>2. CASE k = current
    <3>1. "server" \in closed'[k] /\ queue'[k]["client"] = queue[k]["client"]
      BY <2>1, <2>2, TwoEnds DEF Others, Safe, NetworkOK
    <3> QED
      BY <1>2, <1>3, <3>1 DEF InOrder, Serving, RepliesFrom
  <2>3. CASE k # current
    <3>1. closed'[k] = closed[k]
      BY <1>2, <2>1, <2>3
    <3> QED
      BY <1>5, <2>1, <2>3, <3>1, TwoEnds
  <2> QED
    BY <2>2, <2>3
<1> QED
  BY <1>4, <1>6, <1>7, <1>8, <1>9, Kinds

\* Nobody has asked at the start.
LEMMA NumberedInit == Init => Numbered
  BY FtpAssumption DEF Init, Numbered, Live, NoConn, Conns

\* A step of a server or a client, or none.
LEMMA NumberedStep == Safe /\ SocketsOK /\ Numbered /\ [Next]_vars => Numbered'
<1> SUFFICES ASSUME Safe, SocketsOK, Numbered, [Next]_vars PROVE Numbered'
  OBVIOUS
<1>1. CASE UNCHANGED vars
  BY <1>1, ZenonT(30) DEF vars, network, serverVars, clientVars, Numbered, Live, Taken, InOrder, RepliesFrom,
              RequestsFrom, IsRemains, Mangled, Answered, InHand, Serving
<1>2. CASE Server
  BY <1>2, NumberedServer
<1>3. ASSUME NEW c \in Clients, Client(c) PROVE Numbered'
  BY <1>3, NumberedClient
<1> QED
  BY <1>1, <1>2, <1>3 DEF Next, Quiet

\* What a client takes is the response after those it has taken or given up.
LEMMA TakenInOrder ==
    ASSUME Safe, Numbered, NEW c \in Clients, TakesResponse(c)
    PROVE  Head(queue[sock[c]]["client"]).number = asked[c] - given_up[c]
<1>1. PICK k : k = sock[c]
  OBVIOUS
<1>2. /\ k \in Conns /\ cpc[c] \in Waiting /\ Len(queue[k]["client"]) > 0
      /\ queue[k]["client"][1] = Head(queue[k]["client"])
  BY <1>1, ClientTakes DEF Shorter
<1>3. 1 \in 1 .. Len(queue[k]["client"])
  BY <1>2, Counts
<1>4. RepliesFrom(k, Taken(c))
  BY <1>1, <1>2 DEF Numbered, Live, InOrder
<1>5. queue[k]["client"][1].number = Taken(c) + 1
  BY <1>3, <1>4 DEF RepliesFrom
<1>6. Taken(c) + 1 = asked[c] - given_up[c]
  BY <1>2, FtpAssumption DEF Taken, Safe, ClientsOK
<1> QED
  BY <1>1, <1>2, <1>5, <1>6

(***************************************************************************)
(* The requests of a connection are answered one by one and in order: what *)
(* a client takes for the answer to its last request answers the one that  *)
(* is earlier by as many places as it has given up puts on this connection *)
(* (put of client.py makes an FTPError of the time-out and keeps the       *)
(* socket), whatever was torn, garbled or swallowed.                       *)
(***************************************************************************)
THEOREM ResponseOrder == Spec => ResponsesLagByPutsGivenUp
<1>1. Init => Safe /\ SocketsOK /\ Numbered
  BY SafeInit, SocketsInit, NumberedInit
<1>2. Safe /\ SocketsOK /\ Numbered /\ [Next]_vars => (Safe /\ SocketsOK /\ Numbered)'
  BY SafeStep, SocketsStep, NumberedStep
<1>3. Safe /\ Numbered /\ [Next]_vars =>
          [\A c \in Clients : TakesResponse(c) =>
              Head(queue[sock[c]]["client"]).number = asked[c] - given_up[c]]_vars
  BY TakenInOrder
<1> QED
  BY <1>1, <1>2, <1>3, PTL DEF Spec, ResponsesLagByPutsGivenUp
=============================================================================
