----------------------- MODULE LocalNodeChannel_proofs -----------------------
(* Proofs about LocalNodeChannel, for every number of captures, connections and  *)
(* faults.                                                                       *)
EXTENDS LocalNodeChannel, FiniteSetTheorems, TLAPS

USE CallsAssumption, BoundsAssumption

-----------------------------------------------------------------------------
(* Types.                                                                  *)

Request == [id : Nat \ {0}, key : Keys, text : Texts]
RequestLine == [type : {"request"}, session : Nat, sequence : Nat, request : Request]
UpLine == {ClientHello} \cup RequestLine
Codes == {"ok", "conflict", "expired", "unavailable"}
ResponseLine == [type : {"response"}, session : Nat, sequence : Nat, id : Nat,
                 code : Codes, event : Nat]
DownLine == [type : {"server_hello"}, session : Nat] \cup ResponseLine

Connection == [up : Seq(UpLine), down : Seq(DownLine), host : BOOLEAN, phone : BOOLEAN,
               broken : BOOLEAN, late : BOOLEAN]

Worker == [at : {"start", "wait"}, request : Request, abandoned : BOOLEAN]

Places == {"down", "loop", "built", "published", "bind", "accept", "serve", "handle",
           "reply", "stopped"}
Phone == [at : Places, listener : {"none", "open", "closed"}, conn : Nat, expected : Nat,
          frame : UpLine \cup {"none"}, code : Codes \cup {"none"}, event : Nat]

Event == [key : Keys, text : Texts]

\* What is on its way on any connection.
Up == UNION {ToSet(conn[i].up) : i \in DOMAIN conn}
Down == UNION {ToSet(conn[i].down) : i \in DOMAIN conn}

-----------------------------------------------------------------------------
(* Lines and connections.                                                  *)

\* The lines of a queue that grows, shrinks or is emptied.
LEMMA LinesOf ==
  ASSUME NEW S, NEW s \in Seq(S)
  PROVE  /\ ToSet(s) \subseteq S
         /\ s # <<>> => Head(s) \in ToSet(s) /\ Head(s) \in S
         /\ s # <<>> => Tail(s) \in Seq(S) /\ ToSet(Tail(s)) \subseteq ToSet(s)
         /\ \A x \in S : Append(s, x) \in Seq(S) /\ ToSet(Append(s, x)) = ToSet(s) \cup {x}
         /\ <<>> \in Seq(S) /\ ToSet(<<>>) = {}
<1>1. ToSet(s) \subseteq S
  BY DEF ToSet
<1>2. s # <<>> => Head(s) \in ToSet(s) /\ Head(s) \in S
  BY DEF ToSet
<1>3. s # <<>> => Tail(s) \in Seq(S) /\ ToSet(Tail(s)) \subseteq ToSet(s)
  BY DEF ToSet
<1>4. ASSUME NEW x \in S
      PROVE  Append(s, x) \in Seq(S) /\ ToSet(Append(s, x)) = ToSet(s) \cup {x}
  <2>1. /\ Append(s, x) \in Seq(S) /\ DOMAIN Append(s, x) = 1..Len(s) + 1 /\ Len(s) \in Nat
        /\ DOMAIN s = 1..Len(s)
        /\ \A i \in 1..Len(s) : Append(s, x)[i] = s[i]
        /\ Append(s, x)[Len(s) + 1] = x
    OBVIOUS
  <2>2. ToSet(Append(s, x)) \subseteq ToSet(s) \cup {x}
    <3> SUFFICES ASSUME NEW i \in 1..Len(s) + 1
                 PROVE  Append(s, x)[i] \in ToSet(s) \cup {x}
      BY <2>1 DEF ToSet
    <3>1. CASE i \in 1..Len(s)
      BY <2>1, <3>1 DEF ToSet
    <3>2. CASE i = Len(s) + 1
      BY <2>1, <3>2
    <3> QED
      BY <2>1, <3>1, <3>2
  <2>3. ToSet(s) \cup {x} \subseteq ToSet(Append(s, x))
    <3>1. x \in ToSet(Append(s, x))
      BY <2>1 DEF ToSet
    <3>2. ASSUME NEW i \in 1..Len(s)
          PROVE  s[i] \in ToSet(Append(s, x))
      <4>1. i \in 1..Len(s) + 1 /\ s[i] = Append(s, x)[i]
        BY <2>1
      <4> QED
        BY <2>1, <4>1 DEF ToSet
    <3> QED
      BY <2>1, <3>1, <3>2 DEF ToSet
  <2> QED
    BY <2>1, <2>2, <2>3
<1>5. <<>> \in Seq(S) /\ ToSet(<<>>) = {}
  BY DEF ToSet
<1> QED
  BY <1>1, <1>2, <1>3, <1>4, <1>5

\* A step on connections: none goes, each remains of its kind, and what is on its way
\* was so before or is one of the new lines.
ConnectionsGo(U, D) ==
  /\ conn' \in Seq(Connection) /\ Len(conn) <= Len(conn') /\ DOMAIN conn \subseteq DOMAIN conn'
  /\ Up' \subseteq Up \cup U /\ Down' \subseteq Down \cup D

\* The ends of the host, and the marks of connections that were served too late.
HostKept == \A j \in DOMAIN conn : conn'[j].host = conn[j].host
LateKept == \A j \in DOMAIN conn : conn'[j].late = conn[j].late

\* The same connections in another state.
LEMMA ConnectionsChange ==
  ASSUME conn \in Seq(Connection), conn' \in [DOMAIN conn -> Connection], NEW U, NEW D,
         \A j \in DOMAIN conn : /\ ToSet(conn'[j].up) \subseteq ToSet(conn[j].up) \cup U
                                /\ ToSet(conn'[j].down) \subseteq ToSet(conn[j].down) \cup D
  PROVE  ConnectionsGo(U, D) /\ Len(conn') = Len(conn) /\ DOMAIN conn' = DOMAIN conn
<1>1. /\ DOMAIN conn' = DOMAIN conn
      /\ conn' \in Seq(Connection) /\ Len(conn') = Len(conn) /\ Len(conn) <= Len(conn')
  <2>1. Len(conn) \in Nat /\ DOMAIN conn = 1..Len(conn) /\ conn' \in [1..Len(conn) -> Connection]
    OBVIOUS
  <2> QED
    BY <2>1
<1>2. Up' \subseteq Up \cup U
  BY <1>1 DEF Up
<1>3. Down' \subseteq Down \cup D
  BY <1>1 DEF Down
<1> QED
  BY <1>1, <1>2, <1>3 DEF ConnectionsGo

\* One connection changes.
LEMMA OneChanges ==
  ASSUME conn \in Seq(Connection), NEW i \in DOMAIN conn, NEW c \in Connection,
         conn' = [conn EXCEPT ![i] = c], NEW U, NEW D,
         ToSet(c.up) \subseteq ToSet(conn[i].up) \cup U,
         ToSet(c.down) \subseteq ToSet(conn[i].down) \cup D
  PROVE  /\ ConnectionsGo(U, D) /\ Len(conn') = Len(conn) /\ DOMAIN conn' = DOMAIN conn
         /\ conn'[i] = c /\ \A j \in DOMAIN conn \ {i} : conn'[j] = conn[j]
<1>1. /\ conn' \in [DOMAIN conn -> Connection]
      /\ conn'[i] = c /\ \A j \in DOMAIN conn \ {i} : conn'[j] = conn[j]
  OBVIOUS
<1>2. \A j \in DOMAIN conn : /\ ToSet(conn'[j].up) \subseteq ToSet(conn[j].up) \cup U
                             /\ ToSet(conn'[j].down) \subseteq ToSet(conn[j].down) \cup D
  BY <1>1
<1> QED
  BY <1>1, <1>2, ConnectionsChange

\* The phone closes its ends.
LEMMA PhoneEndsChanges ==
  ASSUME conn \in Seq(Connection), PhoneEnds
  PROVE  ConnectionsGo({}, {}) /\ HostKept /\ LateKept /\ DOMAIN conn' = DOMAIN conn
<1>1. \A i \in DOMAIN conn : conn[i] \in Connection
  OBVIOUS
<1>2. \A i \in DOMAIN conn :
        /\ [conn[i] EXCEPT !.phone = FALSE] \in Connection
        /\ [conn[i] EXCEPT !.phone = FALSE].host = conn[i].host
        /\ [conn[i] EXCEPT !.phone = FALSE].late = conn[i].late
        /\ [conn[i] EXCEPT !.phone = FALSE].up = conn[i].up
        /\ [conn[i] EXCEPT !.phone = FALSE].down = conn[i].down
  BY <1>1 DEF Connection
<1>3. conn' = [i \in DOMAIN conn |-> [conn[i] EXCEPT !.phone = FALSE]]
  BY DEF PhoneEnds
<1>4. conn' \in [DOMAIN conn -> Connection]
  BY <1>2, <1>3
<1>5. \A i \in DOMAIN conn : /\ conn'[i].host = conn[i].host /\ conn'[i].late = conn[i].late
                             /\ conn'[i].up = conn[i].up /\ conn'[i].down = conn[i].down
  BY <1>2, <1>3
<1>6. ConnectionsGo({}, {}) /\ DOMAIN conn' = DOMAIN conn
  BY <1>4, <1>5, ConnectionsChange
<1> QED
  BY <1>5, <1>6 DEF HostKept, LateKept

\* The host closes its end of a connection, if it had one.
LEMMA HostEndsChanges ==
  ASSUME conn \in Seq(Connection), NEW i, HostEnds(i)
  PROVE  ConnectionsGo({}, {}) /\ LateKept /\ DOMAIN conn' = DOMAIN conn
<1>1. \A j \in DOMAIN conn : conn[j] \in Connection
  OBVIOUS
<1>2. \A j \in DOMAIN conn :
        /\ [conn[j] EXCEPT !.host = FALSE] \in Connection
        /\ [conn[j] EXCEPT !.host = FALSE].late = conn[j].late
        /\ [conn[j] EXCEPT !.host = FALSE].up = conn[j].up
        /\ [conn[j] EXCEPT !.host = FALSE].down = conn[j].down
  BY <1>1 DEF Connection
<1>3. /\ DOMAIN conn' = DOMAIN conn
      /\ conn' = [j \in DOMAIN conn |-> IF j = i THEN [conn[j] EXCEPT !.host = FALSE] ELSE conn[j]]
  BY DEF HostEnds
<1>4. conn' \in [DOMAIN conn -> Connection]
  BY <1>1, <1>2, <1>3
<1>5. \A j \in DOMAIN conn : /\ conn'[j].late = conn[j].late
                             /\ conn'[j].up = conn[j].up /\ conn'[j].down = conn[j].down
  BY <1>2, <1>3
<1>6. ConnectionsGo({}, {})
  BY <1>4, <1>5, ConnectionsChange
<1> QED
  BY <1>3, <1>5, <1>6 DEF LateKept


-----------------------------------------------------------------------------
(* Every variable has its type, and the two processes know their connections. *)

HostTyped ==
  /\ host \in {"down", "connecting", "up"} /\ store \in {"open", "poisoned"}
  /\ channel \in [open : BOOLEAN, conn : Nat, sequence : Nat]
  /\ worker \in {Idle} \cup Worker
  /\ call \in {NoCall} \cup Request
  /\ attempts \in 0..MaxAttempts
  /\ record \in [Keys -> {NoRecord} \cup [text : Texts, event : Nat]]
  /\ told \in [Keys -> SUBSET [code : Codes, text : Texts, event : Nat]]

PhoneTyped ==
  /\ phone \in Phone /\ pairing \in {"active", "revoked", "expired"}
  /\ event \in Seq(Event)
  /\ slot \in [Keys -> {NoSlot} \cup [digest : Texts \X Nat, event : Nat]]

Typed == HostTyped /\ PhoneTyped /\ conn \in Seq(Connection) /\ faults \in 0..MaxFaults

\* A channel, a thread and a capture are those of a server that runs.
HostRelated ==
  /\ host # "up" => channel.open = FALSE /\ worker = Idle /\ call = NoCall
  /\ host = "connecting" => Len(conn) \in DOMAIN conn /\ conn[Len(conn)].host = TRUE
  /\ host = "up" => channel.conn \in DOMAIN conn
  /\ call # NoCall => worker # Idle /\ worker.request = call
  /\ worker # Idle => worker.abandoned = (call = NoCall)
  /\ channel.open = TRUE => conn[channel.conn].host = TRUE

\* The phone serves a connection there is, and has read what it handles.
PhoneRelated ==
  /\ phone.conn \in 0..Len(conn)
  /\ phone.at \in {"serve", "handle", "reply"} => phone.conn \in DOMAIN conn
  /\ phone.at \in {"handle", "reply"} => phone.frame \in RequestLine
  /\ phone.at = "reply" => phone.code \in Codes

Related == HostRelated /\ PhoneRelated

\* What is at hand of a connection.
LEMMA OneConnection ==
  ASSUME Typed, NEW i \in DOMAIN conn
  PROVE  /\ conn[i] \in Connection
         /\ conn[i].up \in Seq(UpLine) /\ conn[i].down \in Seq(DownLine)
         /\ ToSet(conn[i].up) \subseteq Up /\ ToSet(conn[i].down) \subseteq Down
         /\ conn[i].up # <<>> => /\ Head(conn[i].up) \in Up /\ Head(conn[i].up) \in UpLine
                                 /\ Tail(conn[i].up) \in Seq(UpLine)
                                 /\ ToSet(Tail(conn[i].up)) \subseteq ToSet(conn[i].up)
         /\ conn[i].down # <<>> => /\ Head(conn[i].down) \in Down /\ Head(conn[i].down) \in DownLine
                                   /\ Tail(conn[i].down) \in Seq(DownLine)
                                   /\ ToSet(Tail(conn[i].down)) \subseteq ToSet(conn[i].down)
<1>1. conn[i] \in Connection
  BY DEF Typed
<1>2. conn[i].up \in Seq(UpLine) /\ conn[i].down \in Seq(DownLine)
  BY <1>1 DEF Connection
<1>3. ToSet(conn[i].up) \subseteq Up /\ ToSet(conn[i].down) \subseteq Down
  BY DEF Up, Down
<1> DEFINE u == conn[i].up
           d == conn[i].down
<1>4. u \in Seq(UpLine) /\ d \in Seq(DownLine)
  BY <1>2
<1> HIDE DEF u, d
<1>5. u # <<>> => Head(u) \in ToSet(u) /\ Head(u) \in UpLine /\ Tail(u) \in Seq(UpLine)
                  /\ ToSet(Tail(u)) \subseteq ToSet(u)
  BY <1>4, LinesOf
<1>6. d # <<>> => Head(d) \in ToSet(d) /\ Head(d) \in DownLine /\ Tail(d) \in Seq(DownLine)
                  /\ ToSet(Tail(d)) \subseteq ToSet(d)
  BY <1>4, LinesOf
<1> QED
  BY <1>1, <1>2, <1>3, <1>5, <1>6 DEF u, d

\* The line at the head of a queue is taken.
LEMMA LineTaken ==
  ASSUME Typed, NEW i \in DOMAIN conn
  PROVE  /\ conn[i].up # <<>> /\ conn' = [conn EXCEPT ![i].up = Tail(@)]
              => ConnectionsGo({}, {}) /\ HostKept /\ LateKept /\ DOMAIN conn' = DOMAIN conn
         /\ conn[i].down # <<>> /\ conn' = [conn EXCEPT ![i].down = Tail(@)]
              => ConnectionsGo({}, {}) /\ HostKept /\ LateKept /\ DOMAIN conn' = DOMAIN conn
<1>1. conn[i] \in Connection /\ conn \in Seq(Connection)
  BY OneConnection DEF Typed
<1>2. ASSUME conn[i].up # <<>>, conn' = [conn EXCEPT ![i].up = Tail(@)]
      PROVE  ConnectionsGo({}, {}) /\ HostKept /\ LateKept /\ DOMAIN conn' = DOMAIN conn
  <2> DEFINE c == [conn[i] EXCEPT !.up = Tail(conn[i].up)]
  <2>1. conn' = [conn EXCEPT ![i] = c]
    BY <1>2
  <2>2. Tail(conn[i].up) \in Seq(UpLine) /\ ToSet(Tail(conn[i].up)) \subseteq ToSet(conn[i].up)
    BY <1>2, OneConnection
  <2>3. /\ c \in Connection /\ c.up = Tail(conn[i].up) /\ c.down = conn[i].down
        /\ c.host = conn[i].host /\ c.late = conn[i].late
    BY <1>1, <2>2 DEF Connection
  <2> HIDE DEF c
  <2>4. /\ ToSet(c.up) \subseteq ToSet(conn[i].up) \cup {}
        /\ ToSet(c.down) \subseteq ToSet(conn[i].down) \cup {}
    BY <2>2, <2>3
  <2>5. c \in Connection
    BY <2>3
  <2>6. /\ ConnectionsGo({}, {}) /\ DOMAIN conn' = DOMAIN conn
        /\ conn'[i] = c /\ \A j \in DOMAIN conn \ {i} : conn'[j] = conn[j]
    BY <1>1, <2>1, <2>4, <2>5, OneChanges
  <2> QED
    BY <2>3, <2>6 DEF HostKept, LateKept
<1>3. ASSUME conn[i].down # <<>>, conn' = [conn EXCEPT ![i].down = Tail(@)]
      PROVE  ConnectionsGo({}, {}) /\ HostKept /\ LateKept /\ DOMAIN conn' = DOMAIN conn
  <2> DEFINE c == [conn[i] EXCEPT !.down = Tail(conn[i].down)]
  <2>1. conn' = [conn EXCEPT ![i] = c]
    BY <1>3
  <2>2. Tail(conn[i].down) \in Seq(DownLine) /\ ToSet(Tail(conn[i].down)) \subseteq ToSet(conn[i].down)
    BY <1>3, OneConnection
  <2>3. /\ c \in Connection /\ c.down = Tail(conn[i].down) /\ c.up = conn[i].up
        /\ c.host = conn[i].host /\ c.late = conn[i].late
    BY <1>1, <2>2 DEF Connection
  <2> HIDE DEF c
  <2>4. /\ ToSet(c.up) \subseteq ToSet(conn[i].up) \cup {}
        /\ ToSet(c.down) \subseteq ToSet(conn[i].down) \cup {}
    BY <2>2, <2>3
  <2>5. c \in Connection
    BY <2>3
  <2>6. /\ ConnectionsGo({}, {}) /\ DOMAIN conn' = DOMAIN conn
        /\ conn'[i] = c /\ \A j \in DOMAIN conn \ {i} : conn'[j] = conn[j]
    BY <1>1, <2>1, <2>4, <2>5, OneChanges
  <2> QED
    BY <2>3, <2>6 DEF HostKept, LateKept
<1> QED
  BY <1>2, <1>3

\* A line is written to a connection, or lost.
LEMMA UpWritten ==
  ASSUME Typed, NEW i \in DOMAIN conn, NEW line \in UpLine, Written(i, "up", line)
  PROVE  ConnectionsGo({line}, {}) /\ HostKept /\ LateKept /\ DOMAIN conn' = DOMAIN conn
<1> DEFINE q == IF conn[i].broken THEN conn[i].up ELSE Append(conn[i].up, line)
           c == [conn[i] EXCEPT !.up = q]
<1>1. conn[i] \in Connection /\ conn \in Seq(Connection) /\ conn[i].up \in Seq(UpLine)
  BY OneConnection DEF Typed
<1>2. conn' = [conn EXCEPT ![i] = c]
  BY DEF Written
<1>3. q \in Seq(UpLine) /\ ToSet(q) \subseteq ToSet(conn[i].up) \cup {line}
  <2>1. /\ Append(conn[i].up, line) \in Seq(UpLine)
        /\ ToSet(Append(conn[i].up, line)) = ToSet(conn[i].up) \cup {line}
    BY <1>1, LinesOf
  <2> QED
    BY <1>1, <2>1
<1> HIDE DEF q
<1>4. /\ c \in Connection /\ c.up = q /\ c.down = conn[i].down
      /\ c.host = conn[i].host /\ c.late = conn[i].late
  BY <1>1, <1>3 DEF Connection
<1> HIDE DEF c
<1>5. /\ ToSet(c.up) \subseteq ToSet(conn[i].up) \cup {line}
      /\ ToSet(c.down) \subseteq ToSet(conn[i].down) \cup {}
  BY <1>3, <1>4
<1>6. c \in Connection
  BY <1>4
<1>7. /\ ConnectionsGo({line}, {}) /\ DOMAIN conn' = DOMAIN conn
      /\ conn'[i] = c /\ \A j \in DOMAIN conn \ {i} : conn'[j] = conn[j]
  BY <1>1, <1>2, <1>5, <1>6, OneChanges
<1> QED
  BY <1>4, <1>7 DEF HostKept, LateKept

\* The same on its way down.
LEMMA DownWritten ==
  ASSUME Typed, NEW i \in DOMAIN conn, NEW line \in DownLine, Written(i, "down", line)
  PROVE  ConnectionsGo({}, {line}) /\ HostKept /\ LateKept /\ DOMAIN conn' = DOMAIN conn
<1> DEFINE q == IF conn[i].broken THEN conn[i].down ELSE Append(conn[i].down, line)
           c == [conn[i] EXCEPT !.down = q]
<1>1. conn[i] \in Connection /\ conn \in Seq(Connection) /\ conn[i].down \in Seq(DownLine)
  BY OneConnection DEF Typed
<1>2. conn' = [conn EXCEPT ![i] = c]
  BY DEF Written
<1>3. q \in Seq(DownLine) /\ ToSet(q) \subseteq ToSet(conn[i].down) \cup {line}
  <2>1. /\ Append(conn[i].down, line) \in Seq(DownLine)
        /\ ToSet(Append(conn[i].down, line)) = ToSet(conn[i].down) \cup {line}
    BY <1>1, LinesOf
  <2> QED
    BY <1>1, <2>1
<1> HIDE DEF q
<1>4. /\ c \in Connection /\ c.down = q /\ c.up = conn[i].up
      /\ c.host = conn[i].host /\ c.late = conn[i].late
  BY <1>1, <1>3 DEF Connection
<1> HIDE DEF c
<1>5. /\ ToSet(c.up) \subseteq ToSet(conn[i].up) \cup {}
      /\ ToSet(c.down) \subseteq ToSet(conn[i].down) \cup {line}
  BY <1>3, <1>4
<1>6. c \in Connection
  BY <1>4
<1>7. /\ ConnectionsGo({}, {line}) /\ DOMAIN conn' = DOMAIN conn
      /\ conn'[i] = c /\ \A j \in DOMAIN conn \ {i} : conn'[j] = conn[j]
  BY <1>1, <1>2, <1>5, <1>6, OneChanges
<1> QED
  BY <1>4, <1>7 DEF HostKept, LateKept

\* Connect adds a connection that says hello.
LEMMA ConnectChanges ==
  ASSUME Typed, Connect
  PROVE  /\ ConnectionsGo({ClientHello}, {}) /\ HostKept /\ LateKept
         /\ Len(conn') \in DOMAIN conn' /\ conn'[Len(conn')].late = FALSE
         /\ conn'[Len(conn')].host = TRUE
         /\ DOMAIN conn' = DOMAIN conn \cup {Len(conn')}
<1> DEFINE c == [up |-> <<ClientHello>>, down |-> <<>>, host |-> TRUE, phone |-> TRUE,
                 broken |-> FALSE, late |-> FALSE]
<1>1. conn' = Append(conn, c) /\ conn \in Seq(Connection)
  BY DEF Connect, Typed
<1>2. <<ClientHello>> \in Seq(UpLine) /\ <<>> \in Seq(DownLine)
  BY DEF UpLine
<1>3. c \in Connection
  BY <1>2 DEF Connection
<1>4. ToSet(c.up) \subseteq {ClientHello} /\ ToSet(c.down) = {} /\ c.late = FALSE /\ c.host = TRUE
  BY DEF ToSet
<1> HIDE DEF c
<1>5. /\ conn' \in Seq(Connection) /\ Len(conn') = Len(conn) + 1 /\ Len(conn) \in Nat
      /\ DOMAIN conn = 1..Len(conn) /\ DOMAIN conn' = 1..Len(conn) + 1
      /\ \A j \in 1..Len(conn) : conn'[j] = conn[j]
      /\ conn'[Len(conn) + 1] = c
  BY <1>1, <1>3
<1>6. Len(conn) <= Len(conn') /\ DOMAIN conn \subseteq DOMAIN conn'
  BY <1>5
<1>7. Up' \subseteq Up \cup {ClientHello}
  <2> SUFFICES ASSUME NEW j \in DOMAIN conn'
               PROVE  ToSet(conn'[j].up) \subseteq Up \cup {ClientHello}
    BY DEF Up
  <2>1. CASE j \in 1..Len(conn)
    BY <1>5, <2>1 DEF Up
  <2>2. CASE j = Len(conn) + 1
    BY <1>4, <1>5, <2>2
  <2> QED
    BY <1>5, <2>1, <2>2
<1>8. Down' \subseteq Down \cup {}
  <2> SUFFICES ASSUME NEW j \in DOMAIN conn'
               PROVE  ToSet(conn'[j].down) \subseteq Down
    BY DEF Down
  <2>1. CASE j \in 1..Len(conn)
    BY <1>5, <2>1 DEF Down
  <2>2. CASE j = Len(conn) + 1
    BY <1>4, <1>5, <2>2
  <2> QED
    BY <1>5, <2>1, <2>2
<1>9. HostKept /\ LateKept
  BY <1>5 DEF HostKept, LateKept
<1>10. /\ Len(conn') \in DOMAIN conn' /\ conn'[Len(conn')].late = FALSE
       /\ DOMAIN conn' = DOMAIN conn \cup {Len(conn')} /\ conn'[Len(conn')].host = TRUE
  BY <1>4, <1>5
<1> QED
  BY <1>5, <1>6, <1>7, <1>8, <1>9, <1>10 DEF ConnectionsGo

\* Accept answers the hello of a connection, and marks it if it is served too late.
LEMMA AcceptChanges ==
  ASSUME Typed, NEW i \in DOMAIN conn, Accept(i), HelloFits(Head(conn[i].up), phone.listener)
  PROVE  /\ ConnectionsGo({}, {ServerHello(i)}) /\ HostKept /\ DOMAIN conn' = DOMAIN conn
         /\ \A j \in DOMAIN conn \ {i} : conn'[j] = conn[j]
         /\ conn'[i].late = (pairing = "revoked")
<1> DEFINE u == Tail(conn[i].up)
           d == IF conn[i].broken THEN conn[i].down ELSE Append(conn[i].down, ServerHello(i))
           l == (pairing = "revoked")
           c == [conn[i] EXCEPT !.up = u, !.late = l, !.down = d]
<1>1. conn[i] \in Connection /\ conn \in Seq(Connection) /\ conn[i].down \in Seq(DownLine)
  BY OneConnection DEF Typed
<1>2. conn' = [conn EXCEPT ![i] = c]
  BY DEF Accept
<1>3. u \in Seq(UpLine) /\ ToSet(u) \subseteq ToSet(conn[i].up)
  BY OneConnection DEF Accept
<1>4. d \in Seq(DownLine) /\ ToSet(d) \subseteq ToSet(conn[i].down) \cup {ServerHello(i)}
  <2>1. ServerHello(i) \in DownLine
    BY <1>1 DEF ServerHello, DownLine
  <2>2. /\ Append(conn[i].down, ServerHello(i)) \in Seq(DownLine)
        /\ ToSet(Append(conn[i].down, ServerHello(i))) = ToSet(conn[i].down) \cup {ServerHello(i)}
    BY <1>1, <2>1, LinesOf
  <2> QED
    BY <1>1, <2>2
<1> HIDE DEF u, d
<1>5. l \in BOOLEAN
  OBVIOUS
<1> HIDE DEF l
<1>6. /\ c \in Connection /\ c.up = u /\ c.down = d /\ c.host = conn[i].host /\ c.late = l
  BY <1>1, <1>3, <1>4, <1>5 DEF Connection
<1> HIDE DEF c
<1>7. /\ ToSet(c.up) \subseteq ToSet(conn[i].up) \cup {}
      /\ ToSet(c.down) \subseteq ToSet(conn[i].down) \cup {ServerHello(i)}
  BY <1>3, <1>4, <1>6
<1>8. c \in Connection
  BY <1>6
<1>9. /\ ConnectionsGo({}, {ServerHello(i)}) /\ DOMAIN conn' = DOMAIN conn
      /\ conn'[i] = c /\ \A j \in DOMAIN conn \ {i} : conn'[j] = conn[j]
  BY <1>1, <1>2, <1>7, <1>8, OneChanges
<1>10. HostKept
  BY <1>6, <1>9 DEF HostKept
<1> QED
  BY <1>6, <1>9, <1>10 DEF l

\* A break loses what is on its way.
LEMMA BreakChanges ==
  ASSUME Typed, NEW i \in DOMAIN conn, Break(i)
  PROVE  ConnectionsGo({}, {}) /\ HostKept /\ LateKept /\ DOMAIN conn' = DOMAIN conn
<1> DEFINE c == [conn[i] EXCEPT !.broken = TRUE, !.up = <<>>, !.down = <<>>]
<1>1. conn[i] \in Connection /\ conn \in Seq(Connection)
  BY OneConnection DEF Typed
<1>2. conn' = [conn EXCEPT ![i] = c]
  BY DEF Break
<1>3. /\ c \in Connection /\ c.up = <<>> /\ c.down = <<>>
      /\ c.host = conn[i].host /\ c.late = conn[i].late
  <2> DEFINE e == <<>>
  <2>1. c = [conn[i] EXCEPT !.broken = TRUE, !.up = e, !.down = e]
    OBVIOUS
  <2>2. e \in Seq(UpLine) /\ e \in Seq(DownLine) /\ e = <<>>
    BY LinesOf
  <2> HIDE DEF e
  <2> QED
    BY <1>1, <2>1, <2>2 DEF Connection
<1> HIDE DEF c
<1>4. /\ ToSet(c.up) \subseteq ToSet(conn[i].up) \cup {}
      /\ ToSet(c.down) \subseteq ToSet(conn[i].down) \cup {}
  BY <1>3 DEF ToSet
<1>5. c \in Connection
  BY <1>3
<1>6. /\ ConnectionsGo({}, {}) /\ DOMAIN conn' = DOMAIN conn
      /\ conn'[i] = c /\ \A j \in DOMAIN conn \ {i} : conn'[j] = conn[j]
  BY <1>1, <1>2, <1>4, <1>5, OneChanges
<1> QED
  BY <1>3, <1>6 DEF HostKept, LateKept

-----------------------------------------------------------------------------
(* What each step does to connections.                                     *)

\* Nothing new is on its way, and no end of a host closes.
Quiet == ConnectionsGo({}, {}) /\ HostKept /\ LateKept /\ DOMAIN conn' = DOMAIN conn

\* A step that leaves connections alone.
LEMMA NoConnectionMoves ==
  ASSUME Typed, UNCHANGED conn
  PROVE  Quiet
<1>1. Up' = Up /\ Down' = Down
  BY DEF Up, Down
<1>2. conn' = conn /\ conn \in Seq(Connection)
  BY DEF Typed
<1>3. ConnectionsGo({}, {})
  BY <1>1, <1>2 DEF ConnectionsGo
<1> QED
  BY <1>2, <1>3 DEF Quiet, HostKept, LateKept

\* The server finds the answer to its hello.
LEMMA ConnectedMoves ==
  ASSUME Typed, Related, Connected
  PROVE  Quiet /\ Len(conn) \in DOMAIN conn
<1>1. Len(conn) \in DOMAIN conn
  BY DEF Connected, Related, HostRelated
<1>2. conn[Len(conn)].down # <<>> /\ conn' = [conn EXCEPT ![Len(conn)].down = Tail(@)]
  BY DEF Connected
<1> QED
  BY <1>1, <1>2, LineTaken DEF Quiet

\* The server closes its end.
LEMMA HostEndMoves ==
  ASSUME Typed, ConnectFails \/ WorkerFails \/ ChannelCloses \/ HostStops
  PROVE  ConnectionsGo({}, {}) /\ LateKept /\ DOMAIN conn' = DOMAIN conn
<1>1. HostEnds(Len(conn)) \/ HostEnds(channel.conn)
  BY DEF ConnectFails, WorkerFails, ChannelCloses, HostStops, ChannelEnds
<1>2. conn \in Seq(Connection)
  BY DEF Typed
<1>3. ASSUME HostEnds(Len(conn))
      PROVE  ConnectionsGo({}, {}) /\ LateKept /\ DOMAIN conn' = DOMAIN conn
  BY <1>2, <1>3, HostEndsChanges
<1>4. ASSUME HostEnds(channel.conn)
      PROVE  ConnectionsGo({}, {}) /\ LateKept /\ DOMAIN conn' = DOMAIN conn
  BY <1>2, <1>4, HostEndsChanges
<1> QED
  BY <1>1, <1>3, <1>4

\* The thread writes the request it was given.
LEMMA WorkerSendsMoves ==
  ASSUME Typed, Related, WorkerSends
  PROVE  /\ ConnectionsGo({RequestFrame(worker.request)}, {}) /\ HostKept /\ LateKept
         /\ DOMAIN conn' = DOMAIN conn
         /\ worker \in Worker /\ RequestFrame(worker.request) \in RequestLine
         /\ channel.conn \in DOMAIN conn
<1>1. worker \in Worker
  BY DEF WorkerSends, Typed, HostTyped, Idle
<1>2. worker.request \in Request /\ channel.conn \in Nat /\ channel.sequence \in Nat
  BY <1>1 DEF Worker, Typed, HostTyped
<1>3. RequestFrame(worker.request) \in RequestLine
  BY <1>2 DEF RequestFrame, RequestLine
<1>4. channel.conn \in DOMAIN conn
  BY DEF WorkerSends, Related, HostRelated, Typed, HostTyped
<1>5. RequestFrame(worker.request) \in UpLine
  BY <1>3 DEF UpLine
<1>6. Written(channel.conn, "up", RequestFrame(worker.request))
  BY DEF WorkerSends
<1> QED
  BY <1>1, <1>3, <1>4, <1>5, <1>6, UpWritten

\* The thread reads an answer that was on its way.
LEMMA WorkerReceivesMoves ==
  ASSUME Typed, Related, WorkerReceives
  PROVE  /\ Quiet /\ channel.conn \in DOMAIN conn /\ worker \in Worker
         /\ Head(conn[channel.conn].down) \in Down
         /\ Head(conn[channel.conn].down) \in ResponseLine
         /\ Head(conn[channel.conn].down).id = worker.request.id
<1>1. worker # Idle /\ worker \in Worker
  BY DEF WorkerReceives, Typed, HostTyped, Idle
<1>2. channel.conn \in DOMAIN conn
  BY <1>1 DEF Related, HostRelated, Typed, HostTyped
<1>3. conn[channel.conn].down # <<>> /\ conn' = [conn EXCEPT ![channel.conn].down = Tail(@)]
  BY DEF WorkerReceives
<1>4. Quiet
  BY <1>2, <1>3, LineTaken DEF Quiet
<1>5. Head(conn[channel.conn].down) \in Down /\ Head(conn[channel.conn].down) \in DownLine
  BY <1>2, <1>3, OneConnection
<1>6. ResponseFits(Head(conn[channel.conn].down))
  BY DEF WorkerReceives
<1>7. /\ Head(conn[channel.conn].down).type = "response"
      /\ Head(conn[channel.conn].down).id = worker.request.id
  BY <1>6 DEF ResponseFits, AnswerFits
<1>8. Head(conn[channel.conn].down) \in ResponseLine
  BY <1>5, <1>7 DEF DownLine
<1> QED
  BY <1>1, <1>2, <1>4, <1>5, <1>7, <1>8

\* The phone reads a request that was on its way.
LEMMA ReadFrameMoves ==
  ASSUME Typed, Related, ReadFrame
  PROVE  /\ Quiet /\ phone.conn \in DOMAIN conn
         /\ Head(conn[phone.conn].up) \in Up /\ Head(conn[phone.conn].up) \in RequestLine
<1>1. phone.conn \in DOMAIN conn
  BY DEF ReadFrame, Related, PhoneRelated
<1>2. conn[phone.conn].up # <<>> /\ conn' = [conn EXCEPT ![phone.conn].up = Tail(@)]
  BY DEF ReadFrame
<1>3. Quiet
  BY <1>1, <1>2, LineTaken DEF Quiet
<1>4. Head(conn[phone.conn].up) \in Up /\ Head(conn[phone.conn].up) \in UpLine
  BY <1>1, <1>2, OneConnection
<1>5. Head(conn[phone.conn].up).type = "request"
  BY DEF ReadFrame, RequestFits
<1>6. Head(conn[phone.conn].up) \in RequestLine
  BY <1>4, <1>5 DEF UpLine, ClientHello
<1> QED
  BY <1>1, <1>3, <1>4, <1>6

\* The phone writes its answer, or closes its ends.
LEMMA WriteFrameMoves ==
  ASSUME Typed, Related, WriteFrame
  PROVE  /\ ConnectionsGo({}, {ResponseFrame(phone.frame, phone.code, phone.event)})
         /\ HostKept /\ LateKept /\ DOMAIN conn' = DOMAIN conn
         /\ phone.frame \in RequestLine /\ phone.code \in Codes
         /\ ResponseFrame(phone.frame, phone.code, phone.event) \in ResponseLine
<1>1. /\ phone.conn \in DOMAIN conn /\ phone.frame \in RequestLine
      /\ phone.code \in Codes /\ phone.event \in Nat
  BY DEF WriteFrame, Related, PhoneRelated, Typed, PhoneTyped, Phone
<1>2. ResponseFrame(phone.frame, phone.code, phone.event) \in ResponseLine
  <2>1. /\ phone.frame.session \in Nat /\ phone.frame.sequence \in Nat
        /\ phone.frame.request \in Request /\ phone.frame.request.id \in Nat
    BY <1>1 DEF RequestLine, Request
  <2> QED
    BY <1>1, <2>1 DEF ResponseFrame, ResponseLine
<1>3. ResponseFrame(phone.frame, phone.code, phone.event) \in DownLine
  BY <1>2 DEF DownLine
<1>4. CASE Written(phone.conn, "down", ResponseFrame(phone.frame, phone.code, phone.event))
  BY <1>1, <1>2, <1>3, <1>4, DownWritten
<1>5. CASE PhoneEnds
  <2>1. ConnectionsGo({}, {}) /\ HostKept /\ LateKept /\ DOMAIN conn' = DOMAIN conn
    BY <1>5, PhoneEndsChanges DEF Typed
  <2> QED
    BY <1>1, <1>2, <2>1 DEF ConnectionsGo
<1> QED
  BY <1>4, <1>5 DEF WriteFrame

-----------------------------------------------------------------------------
(* Types and relations hold at first, and every step keeps them.           *)

\* What the other side does to connections leaves a process as it was.
LEMMA HostUndisturbed ==
  ASSUME Typed, HostRelated, UNCHANGED hostVars, NEW U, NEW D, ConnectionsGo(U, D),
         HostKept, DOMAIN conn' = DOMAIN conn
  PROVE  HostTyped' /\ HostRelated'
<1>1. HostTyped'
  BY DEF Typed, HostTyped, hostVars
<1>2. /\ conn \in Seq(Connection) /\ conn' \in Seq(Connection)
      /\ Len(conn) = Len(conn')
  BY DEF ConnectionsGo, Typed
<1>3. channel.conn \in DOMAIN conn => conn'[channel.conn].host = conn[channel.conn].host
  BY DEF HostKept
<1>4. Len(conn) \in DOMAIN conn => conn'[Len(conn)].host = conn[Len(conn)].host
  BY DEF HostKept
<1>5. channel.open = TRUE => channel.conn \in DOMAIN conn
  BY DEF HostRelated, Typed, HostTyped
<1> QED
  BY <1>1, <1>2, <1>3, <1>4, <1>5 DEF HostRelated, hostVars

\* The same of the phone.
LEMMA PhoneUndisturbed ==
  ASSUME Typed, PhoneRelated, UNCHANGED phoneVars, NEW U, NEW D, ConnectionsGo(U, D)
  PROVE  PhoneTyped' /\ PhoneRelated'
<1>1. PhoneTyped'
  BY DEF Typed, PhoneTyped, phoneVars
<1>2. /\ conn \in Seq(Connection) /\ conn' \in Seq(Connection)
      /\ Len(conn) <= Len(conn') /\ DOMAIN conn \subseteq DOMAIN conn'
      /\ Len(conn) \in Nat /\ Len(conn') \in Nat
  BY DEF ConnectionsGo, Typed
<1> QED
  BY <1>1, <1>2 DEF PhoneRelated, phoneVars

\* At first.
LEMMA TypedAtFirst ==
  ASSUME Init
  PROVE  Typed /\ Related
<1>1. HostTyped
  BY DEF Init, HostTyped, Closed
<1>2. PhoneTyped
  BY DEF Init, PhoneTyped, At, Phone, Places
<1>3. conn \in Seq(Connection) /\ faults \in 0..MaxFaults
  BY DEF Init
<1>4. HostRelated
  BY DEF Init, HostRelated, Closed
<1>5. PhoneRelated
  BY DEF Init, PhoneRelated, At
<1> QED
  BY <1>1, <1>2, <1>3, <1>4, <1>5 DEF Typed, Related

\* The server connects, or fails to.
LEMMA ConnectingTyped ==
  ASSUME Typed, Related, Connect \/ Connected \/ ConnectFails
  PROVE  HostTyped' /\ HostRelated' /\ UNCHANGED phoneVars
<1>1. CASE Connect
  <2>1. HostTyped'
    BY <1>1 DEF Connect, Typed, HostTyped
  <2>2. channel' = channel /\ channel.open = FALSE /\ worker' = Idle /\ call' = NoCall
    BY <1>1 DEF Connect, Related, HostRelated
  <2>3. Len(conn') \in DOMAIN conn' /\ conn'[Len(conn')].host = TRUE
    BY <1>1, ConnectChanges
  <2>4. host' = "connecting" /\ UNCHANGED phoneVars
    BY <1>1 DEF Connect
  <2> QED
    BY <2>1, <2>2, <2>3, <2>4 DEF HostRelated
<1>2. CASE Connected
  <2>1. Quiet /\ Len(conn) \in DOMAIN conn
    BY <1>2, ConnectedMoves
  <2>2. /\ host = "connecting" /\ host' = "up" /\ store' = "open"
        /\ channel' = [open |-> TRUE, conn |-> Len(conn), sequence |-> 0]
        /\ UNCHANGED <<worker, call, attempts, record, told, phoneVars, faults>>
    BY <1>2 DEF Connected
  <2>3. Len(conn) \in Nat
    BY DEF Typed
  <2>4. HostTyped'
    BY <2>2, <2>3 DEF Typed, HostTyped
  <2>5. worker = Idle /\ call = NoCall
    BY <2>2 DEF Related, HostRelated
  <2>6. conn[Len(conn)].host = TRUE
    BY <2>2 DEF Related, HostRelated
  <2> QED
    BY <2>1, <2>2, <2>4, <2>5, <2>6 DEF HostRelated, Quiet, HostKept
<1>3. CASE ConnectFails
  <2>1. HostTyped'
    BY <1>3 DEF ConnectFails, Typed, HostTyped
  <2>2. channel' = channel /\ channel.open = FALSE /\ worker' = Idle /\ call' = NoCall
    BY <1>3 DEF ConnectFails, Related, HostRelated
  <2>3. host' = "down" /\ UNCHANGED phoneVars
    BY <1>3 DEF ConnectFails
  <2> QED
    BY <2>1, <2>2, <2>3 DEF HostRelated
<1> QED
  BY <1>1, <1>2, <1>3

\* A capture starts, is answered at once, or is given up.
LEMMA CapturesTyped ==
  ASSUME Typed, Related, (\E c \in Calls : Capture(c) \/ Replay(c)) \/ DeadlineExceeded
  PROVE  HostTyped' /\ HostRelated' /\ UNCHANGED phoneVars /\ UNCHANGED conn
<1>1. ASSUME NEW c \in Calls, Capture(c)
      PROVE  HostTyped' /\ HostRelated' /\ UNCHANGED phoneVars /\ UNCHANGED conn
  <2>1. c \in Call /\ c.key \in Keys /\ c.text \in Texts
    BY DEF Call
  <2>2. /\ attempts' = attempts + 1 /\ attempts < MaxAttempts
        /\ call' = CreateEvent(c) /\ host = "up"
        /\ worker' = [at |-> "start", request |-> call', abandoned |-> FALSE]
        /\ UNCHANGED <<host, store, channel, record, told, phoneVars, conn, faults>>
    BY <1>1 DEF Capture
  <2>3. attempts \in Nat /\ attempts' \in 0..MaxAttempts
    BY <2>2 DEF Typed, HostTyped
  <2>4. call' \in Request
    BY <2>1, <2>2, <2>3 DEF CreateEvent, Request
  <2>5. worker' \in Worker /\ worker'.request = call' /\ worker' # Idle
    BY <2>2, <2>4 DEF Worker, Idle
  <2>6. HostTyped'
    BY <2>2, <2>3, <2>4, <2>5 DEF Typed, HostTyped
  <2>7. call' # NoCall
    BY <2>4 DEF Request, NoCall
  <2>8. HostRelated'
    BY <2>2, <2>5, <2>7 DEF Related, HostRelated
  <2> QED
    BY <2>2, <2>6, <2>8
<1>2. ASSUME NEW c \in Calls, Replay(c)
      PROVE  HostTyped' /\ HostRelated' /\ UNCHANGED phoneVars /\ UNCHANGED conn
  <2>1. c \in Call /\ c.key \in Keys /\ c.text \in Texts
    BY DEF Call
  <2>2. /\ record[c.key] # NoRecord
        /\ told' = [told EXCEPT ![c.key] =
                      @ \cup {[code |-> "ok", text |-> c.text, event |-> record[c.key].event]}]
        /\ UNCHANGED <<host, store, channel, worker, call, attempts, record, phoneVars, conn, faults>>
    BY <1>2 DEF Replay, Told
  <2>3. record[c.key].event \in Nat
    BY <2>1, <2>2 DEF Typed, HostTyped
  <2>4. told' \in [Keys -> SUBSET [code : Codes, text : Texts, event : Nat]]
    <3>1. [code |-> "ok", text |-> c.text, event |-> record[c.key].event]
            \in [code : Codes, text : Texts, event : Nat]
      BY <2>1, <2>3 DEF Codes
    <3> QED
      BY <2>1, <2>2, <3>1 DEF Typed, HostTyped
  <2>5. HostTyped'
    BY <2>2, <2>4 DEF Typed, HostTyped
  <2>6. HostRelated'
    BY <2>2 DEF Related, HostRelated
  <2> QED
    BY <2>2, <2>5, <2>6
<1>3. ASSUME DeadlineExceeded
      PROVE  HostTyped' /\ HostRelated' /\ UNCHANGED phoneVars /\ UNCHANGED conn
  <2>1. /\ call # NoCall /\ worker' = [worker EXCEPT !.abandoned = TRUE]
        /\ store' = "poisoned" /\ call' = NoCall
        /\ UNCHANGED <<host, channel, attempts, record, told, phoneVars, conn, faults>>
    BY <1>3 DEF DeadlineExceeded, Poison, GiveUp
  <2>2. worker \in Worker /\ worker # Idle
    BY <2>1 DEF Related, HostRelated, Typed, HostTyped
  <2>3. worker' \in Worker /\ worker'.abandoned = TRUE /\ worker' # Idle
    BY <2>1, <2>2 DEF Worker, Idle
  <2>4. HostTyped'
    BY <2>1, <2>3 DEF Typed, HostTyped
  <2>5. HostRelated'
    BY <2>1, <2>2, <2>3 DEF Related, HostRelated
  <2> QED
    BY <2>1, <2>4, <2>5
<1> QED
  BY <1>1, <1>2, <1>3

\* The thread sends, or the channel ends.
LEMMA ChannelTyped ==
  ASSUME Typed, Related, WorkerSends \/ WorkerFails \/ ChannelCloses \/ HostStops
  PROVE  HostTyped' /\ HostRelated' /\ UNCHANGED phoneVars
<1>1. CASE WorkerSends
  <2>1. /\ worker \in Worker /\ channel.conn \in DOMAIN conn
        /\ HostKept /\ DOMAIN conn' = DOMAIN conn /\ conn' \in Seq(Connection)
    BY <1>1, WorkerSendsMoves DEF ConnectionsGo
  <2>2. /\ channel' = [channel EXCEPT !.sequence = @ + 1]
        /\ worker' = [worker EXCEPT !.at = "wait"]
        /\ UNCHANGED <<host, store, call, attempts, record, told, phoneVars, faults>>
    BY <1>1 DEF WorkerSends
  <2>3. channel \in [open : BOOLEAN, conn : Nat, sequence : Nat]
    BY DEF Typed, HostTyped
  <2>4. /\ channel' \in [open : BOOLEAN, conn : Nat, sequence : Nat]
        /\ channel'.conn = channel.conn /\ channel'.open = channel.open
    BY <2>2, <2>3
  <2>5. /\ worker' \in Worker /\ worker'.request = worker.request
        /\ worker'.abandoned = worker.abandoned /\ worker # Idle /\ worker' # Idle
    BY <2>1, <2>2 DEF Worker, Idle
  <2>6. HostTyped'
    BY <2>2, <2>4, <2>5 DEF Typed, HostTyped
  <2>7. host = "up"
    BY <2>5 DEF Related, HostRelated, Typed, HostTyped
  <2>8. conn'[channel.conn].host = conn[channel.conn].host
    BY <2>1 DEF HostKept
  <2>9. HostRelated'
    BY <2>1, <2>2, <2>4, <2>5, <2>7, <2>8 DEF Related, HostRelated
  <2> QED
    BY <2>2, <2>6, <2>9
<1>2. CASE WorkerFails
  <2>1. ConnectionsGo({}, {}) /\ DOMAIN conn' = DOMAIN conn
    BY <1>2, HostEndMoves
  <2>2. /\ channel' = [channel EXCEPT !.open = FALSE] /\ worker' = Idle
        /\ \/ worker.abandoned /\ UNCHANGED <<store, call>>
           \/ ~worker.abandoned /\ store' = "poisoned" /\ call' = NoCall
        /\ UNCHANGED <<host, attempts, record, told, phoneVars, faults>>
        /\ worker # Idle
    BY <1>2 DEF WorkerFails, ChannelEnds, Poison, GiveUp, Idle
  <2>3. channel \in [open : BOOLEAN, conn : Nat, sequence : Nat]
    BY DEF Typed, HostTyped
  <2>4. /\ channel' \in [open : BOOLEAN, conn : Nat, sequence : Nat]
        /\ channel'.conn = channel.conn /\ channel'.open = FALSE
    BY <2>2, <2>3
  <2>5. HostTyped'
    BY <2>2, <2>4 DEF Typed, HostTyped
  <2>6. host = "up" /\ channel.conn \in DOMAIN conn
    BY <2>2 DEF Related, HostRelated, Typed, HostTyped
  <2>7. call' = NoCall
    BY <2>2 DEF Related, HostRelated
  <2>8. HostRelated'
    BY <2>1, <2>2, <2>4, <2>6, <2>7 DEF HostRelated
  <2> QED
    BY <2>2, <2>5, <2>8
<1>3. CASE ChannelCloses
  <2>1. ConnectionsGo({}, {}) /\ DOMAIN conn' = DOMAIN conn
    BY <1>3, HostEndMoves
  <2>2. /\ channel' = [channel EXCEPT !.open = FALSE] /\ host = "up"
        /\ UNCHANGED <<host, store, worker, call, attempts, record, told, phoneVars, faults>>
    BY <1>3 DEF ChannelCloses, ChannelEnds
  <2>3. channel \in [open : BOOLEAN, conn : Nat, sequence : Nat]
    BY DEF Typed, HostTyped
  <2>4. /\ channel' \in [open : BOOLEAN, conn : Nat, sequence : Nat]
        /\ channel'.conn = channel.conn /\ channel'.open = FALSE
    BY <2>2, <2>3
  <2>5. HostTyped'
    BY <2>2, <2>4 DEF Typed, HostTyped
  <2>6. HostRelated'
    BY <2>1, <2>2, <2>4 DEF Related, HostRelated
  <2> QED
    BY <2>2, <2>5, <2>6
<1>4. CASE HostStops
  <2>1. /\ host' = "down" /\ store' = "poisoned" /\ channel' = Closed /\ worker' = Idle
        /\ call' = NoCall /\ UNCHANGED <<attempts, record, told, phoneVars, faults>>
    BY <1>4 DEF HostStops, GiveUp
  <2>2. HostTyped'
    BY <2>1 DEF Typed, HostTyped, Closed
  <2>3. HostRelated'
    BY <2>1 DEF HostRelated, Closed
  <2> QED
    BY <2>1, <2>2, <2>3
<1> QED
  BY <1>1, <1>2, <1>3, <1>4

\* An answer of the phone ends a capture, or is dropped.
LEMMA WorkerReceivesTyped ==
  ASSUME Typed, Related, WorkerReceives
  PROVE  HostTyped' /\ HostRelated' /\ UNCHANGED phoneVars
<1> DEFINE frame == Head(conn[channel.conn].down)
<1>1. /\ HostKept /\ DOMAIN conn' = DOMAIN conn /\ conn' \in Seq(Connection)
      /\ channel.conn \in DOMAIN conn /\ worker \in Worker /\ frame \in ResponseLine
  BY WorkerReceivesMoves DEF Quiet, ConnectionsGo
<1>2. /\ worker' = Idle
      /\ worker.abandoned \in BOOLEAN
      /\ worker.abandoned = TRUE => UNCHANGED <<call, record, told, store>>
      /\ worker.abandoned = FALSE => Outcome(frame)
      /\ UNCHANGED <<host, channel, attempts, phoneVars, faults>>
  BY <1>1 DEF WorkerReceives, Worker
<1>3. frame.code \in Codes /\ frame.event \in Nat
  BY <1>1 DEF ResponseLine
<1> HIDE DEF frame
<1>4. worker # Idle /\ worker.abandoned = (call = NoCall) /\ host = "up"
  BY <1>1 DEF Worker, Idle, Related, HostRelated
<1>5. call' = NoCall
  BY <1>2, <1>4 DEF Outcome, GiveUp
<1>6. /\ record' \in [Keys -> {NoRecord} \cup [text : Texts, event : Nat]]
      /\ told' \in [Keys -> SUBSET [code : Codes, text : Texts, event : Nat]]
      /\ store' \in {"open", "poisoned"}
  <2>1. CASE worker.abandoned = TRUE
    BY <1>2, <2>1 DEF Typed, HostTyped
  <2>2. CASE worker.abandoned = FALSE
    <3>1. call \in Request /\ call.key \in Keys /\ call.text \in Texts
      BY <1>4, <2>2 DEF Typed, HostTyped, Request
    <3>2. \/ Finish(frame)
          \/ /\ told' = [told EXCEPT ![call.key] =
                           @ \cup {[code |-> frame.code, text |-> call.text, event |-> frame.event]}]
             /\ UNCHANGED <<record, store>>
          \/ store' = "poisoned" /\ UNCHANGED <<record, told>>
      BY <1>2, <2>2 DEF Outcome, Told, Poison
    <3>3. [code |-> frame.code, text |-> call.text, event |-> frame.event]
            \in [code : Codes, text : Texts, event : Nat]
      BY <1>3, <3>1
    <3>4. told \in [Keys -> SUBSET [code : Codes, text : Texts, event : Nat]]
      BY DEF Typed, HostTyped
    <3>5. CASE Finish(frame)
      <4>1. /\ record' = [record EXCEPT ![call.key] = [text |-> call.text, event |-> frame.event]]
            /\ \/ told' = [told EXCEPT ![call.key] =
                             @ \cup {[code |-> "ok", text |-> call.text, event |-> frame.event]}]
               \/ UNCHANGED told
            /\ UNCHANGED store
        BY <3>5 DEF Finish, Told
      <4>2. [code |-> "ok", text |-> call.text, event |-> frame.event]
              \in [code : Codes, text : Texts, event : Nat]
        BY <1>3, <3>1 DEF Codes
      <4>3. told' \in [Keys -> SUBSET [code : Codes, text : Texts, event : Nat]]
        BY <3>1, <3>4, <4>1, <4>2
      <4>4. [text |-> call.text, event |-> frame.event] \in [text : Texts, event : Nat]
        BY <1>3, <3>1
      <4>5. record \in [Keys -> {NoRecord} \cup [text : Texts, event : Nat]]
        BY DEF Typed, HostTyped
      <4>6. record' \in [Keys -> {NoRecord} \cup [text : Texts, event : Nat]]
        BY <3>1, <4>1, <4>4, <4>5
      <4> QED
        BY <4>1, <4>3, <4>6 DEF Typed, HostTyped
    <3>6. CASE /\ told' = [told EXCEPT ![call.key] =
                             @ \cup {[code |-> frame.code, text |-> call.text, event |-> frame.event]}]
               /\ UNCHANGED <<record, store>>
      <4>1. told' \in [Keys -> SUBSET [code : Codes, text : Texts, event : Nat]]
        BY <3>1, <3>3, <3>4, <3>6
      <4> QED
        BY <3>6, <4>1 DEF Typed, HostTyped
    <3>7. CASE store' = "poisoned" /\ UNCHANGED <<record, told>>
      BY <3>7 DEF Typed, HostTyped
    <3> QED
      BY <3>2, <3>5, <3>6, <3>7
  <2> QED
    BY <1>2, <2>1, <2>2
<1>7. HostTyped'
  BY <1>2, <1>5, <1>6 DEF Typed, HostTyped
<1>8. conn'[channel.conn].host = conn[channel.conn].host
  BY <1>1 DEF HostKept
<1>9. HostRelated'
  BY <1>1, <1>2, <1>4, <1>5, <1>8 DEF Related, HostRelated
<1> QED
  BY <1>2, <1>7, <1>9

\* The serve loop at a place where it has no connection.
LEMMA AtTyped ==
  ASSUME Typed, NEW place \in Places \ {"serve", "handle", "reply"},
         NEW listener \in {"none", "open", "closed"}, phone' = At(place, listener),
         pairing' \in {"active", "revoked", "expired"}, UNCHANGED <<event, slot>>,
         conn' \in Seq(Connection)
  PROVE  PhoneTyped' /\ PhoneRelated'
<1>1. /\ At(place, listener) \in Phone /\ At(place, listener).conn = 0
      /\ At(place, listener).at = place
  BY DEF At, Phone
<1>2. PhoneTyped'
  BY <1>1 DEF Typed, PhoneTyped
<1>3. 0 \in 0..Len(conn')
  OBVIOUS
<1>4. PhoneRelated'
  BY <1>1, <1>3 DEF PhoneRelated
<1> QED
  BY <1>2, <1>4

\* The loop goes on by itself.
LEMMA LoopTyped ==
  ASSUME Typed, Related,
         BuildListener \/ PublishListener \/ UseListener \/ Bind \/ PhoneStarts \/ Expire
  PROVE  PhoneTyped' /\ PhoneRelated' /\ UNCHANGED hostVars /\ UNCHANGED conn
<1>1. /\ UNCHANGED <<hostVars, event, slot, conn, faults>>
      /\ pairing' \in {"active", "revoked", "expired"}
      /\ conn' \in Seq(Connection)
  BY DEF BuildListener, PublishListener, UseListener, Bind, PhoneStarts, Expire, Typed, PhoneTyped
<1>2. \/ phone' = At("built", "open") \/ phone' = At("stopped", "none")
      \/ phone' = At("loop", "none")
      \/ phone.at = "built" /\ phone' = [phone EXCEPT !.at = "published"]
      \/ phone.at = "published" /\ phone' = [phone EXCEPT !.at = "bind"]
      \/ phone.at = "bind" /\ phone' = [phone EXCEPT !.at = "accept"]
      \/ phone' = phone
  BY DEF BuildListener, PublishListener, UseListener, Bind, PhoneStarts, Expire
<1>3. CASE \/ phone' = At("built", "open") \/ phone' = At("stopped", "none")
           \/ phone' = At("loop", "none")
  <2>1. {"built", "stopped", "loop"} \subseteq Places \ {"serve", "handle", "reply"}
    BY DEF Places
  <2> QED
    BY <1>1, <1>3, <2>1, AtTyped
<1>4. CASE \/ phone.at = "built" /\ phone' = [phone EXCEPT !.at = "published"]
           \/ phone.at = "published" /\ phone' = [phone EXCEPT !.at = "bind"]
           \/ phone.at = "bind" /\ phone' = [phone EXCEPT !.at = "accept"]
  <2>1. /\ phone' \in Phone /\ phone'.conn = phone.conn
        /\ phone'.at \in {"published", "bind", "accept"}
    BY <1>4 DEF Typed, PhoneTyped, Phone, Places
  <2>2. PhoneTyped'
    BY <1>1, <2>1 DEF Typed, PhoneTyped
  <2>3. PhoneRelated'
    BY <1>1, <2>1 DEF Related, PhoneRelated
  <2> QED
    BY <1>1, <2>2, <2>3
<1>5. CASE phone' = phone
  BY <1>1, <1>5 DEF Typed, PhoneTyped, Related, PhoneRelated
<1> QED
  BY <1>1, <1>2, <1>3, <1>4, <1>5

\* What ends a connection, and a stop of the app.
LEMMA ServingEndsTyped ==
  ASSUME Typed, Related, ReadEnds \/ PhoneStops \/ Revoke
  PROVE  PhoneTyped' /\ PhoneRelated' /\ UNCHANGED hostVars /\ Quiet
<1>1. /\ PhoneEnds /\ UNCHANGED <<hostVars, event, slot>>
      /\ pairing' \in {"active", "revoked", "expired"}
  BY DEF ReadEnds, PhoneStops, Revoke, Typed, PhoneTyped
<1>2. Quiet
  BY <1>1, PhoneEndsChanges DEF Quiet, Typed
<1>3. conn' \in Seq(Connection) /\ Len(conn') = Len(conn) /\ DOMAIN conn' = DOMAIN conn
  BY <1>2 DEF Quiet, ConnectionsGo, Typed
<1>4. \/ phone' = At("loop", "none") \/ phone' = At("down", "none")
      \/ phone' = [phone EXCEPT !.listener = "closed"] \/ phone' = phone
  BY DEF ReadEnds, PhoneStops, Revoke
<1>5. CASE phone' = At("loop", "none") \/ phone' = At("down", "none")
  <2>1. {"loop", "down"} \subseteq Places \ {"serve", "handle", "reply"}
    BY DEF Places
  <2> QED
    BY <1>1, <1>2, <1>3, <1>5, <2>1, AtTyped
<1>6. CASE phone' = [phone EXCEPT !.listener = "closed"]
  <2>1. /\ phone' \in Phone /\ phone'.conn = phone.conn /\ phone'.at = phone.at
        /\ phone'.frame = phone.frame /\ phone'.code = phone.code
    BY <1>6 DEF Typed, PhoneTyped, Phone
  <2>2. PhoneTyped'
    BY <1>1, <2>1 DEF Typed, PhoneTyped
  <2>3. PhoneRelated'
    BY <1>3, <2>1 DEF Related, PhoneRelated
  <2> QED
    BY <1>1, <1>2, <2>2, <2>3
<1>7. CASE phone' = phone
  BY <1>1, <1>2, <1>3, <1>7 DEF Typed, PhoneTyped, Related, PhoneRelated
<1> QED
  BY <1>4, <1>5, <1>6, <1>7

\* A connection is accepted or refused.
LEMMA AcceptTyped ==
  ASSUME Typed, Related, NEW i \in DOMAIN conn, Accept(i)
  PROVE  /\ PhoneTyped' /\ PhoneRelated' /\ UNCHANGED hostVars /\ HostKept
         /\ ConnectionsGo({}, {ServerHello(i)}) /\ DOMAIN conn' = DOMAIN conn
<1>1. UNCHANGED <<hostVars, pairing, event, slot, faults>>
  BY DEF Accept
<1>2. CASE HelloFits(Head(conn[i].up), phone.listener)
  <2>1. ConnectionsGo({}, {ServerHello(i)}) /\ DOMAIN conn' = DOMAIN conn /\ HostKept
    BY <1>2, AcceptChanges
  <2>2. phone' = [phone EXCEPT !.at = "serve", !.conn = i, !.expected = 1]
    BY <1>2 DEF Accept
  <2>3. i \in Nat /\ conn' \in Seq(Connection) /\ i \in 0..Len(conn')
    BY <2>1 DEF Typed, ConnectionsGo
  <2>4. phone' \in Phone /\ phone'.at = "serve" /\ phone'.conn = i
    BY <2>2, <2>3 DEF Typed, PhoneTyped, Phone, Places
  <2>5. PhoneTyped'
    BY <1>1, <2>4 DEF Typed, PhoneTyped
  <2>6. PhoneRelated'
    BY <2>1, <2>3, <2>4 DEF PhoneRelated
  <2> QED
    BY <1>1, <2>1, <2>5, <2>6
<1>3. CASE ~HelloFits(Head(conn[i].up), phone.listener)
  <2>1. PhoneEnds /\ phone' = At("loop", "none")
    BY <1>3 DEF Accept
  <2>2. ConnectionsGo({}, {}) /\ DOMAIN conn' = DOMAIN conn /\ HostKept
    BY <2>1, PhoneEndsChanges DEF Typed
  <2>3. conn' \in Seq(Connection) /\ "loop" \in Places \ {"serve", "handle", "reply"}
    BY <2>2 DEF ConnectionsGo, Places
  <2>4. PhoneTyped' /\ PhoneRelated'
    BY <1>1, <2>1, <2>3, AtTyped DEF Typed, PhoneTyped
  <2> QED
    BY <1>1, <2>2, <2>4 DEF ConnectionsGo
<1> QED
  BY <1>2, <1>3

\* A request is read.
LEMMA ReadFrameTyped ==
  ASSUME Typed, Related, ReadFrame
  PROVE  PhoneTyped' /\ PhoneRelated' /\ UNCHANGED hostVars
<1> DEFINE frame == Head(conn[phone.conn].up)
<1>1. /\ DOMAIN conn' = DOMAIN conn /\ conn' \in Seq(Connection)
      /\ phone.conn \in DOMAIN conn /\ frame \in RequestLine
  BY ReadFrameMoves DEF Quiet, ConnectionsGo
<1>2. /\ phone' = [phone EXCEPT !.at = "handle", !.frame = frame]
      /\ UNCHANGED <<hostVars, pairing, event, slot, faults>>
  BY DEF ReadFrame
<1> HIDE DEF frame
<1>3. frame \in UpLine
  BY <1>1 DEF UpLine
<1>4. /\ phone' \in Phone /\ phone'.at = "handle" /\ phone'.frame = frame
      /\ phone'.conn = phone.conn
  BY <1>2, <1>3 DEF Typed, PhoneTyped, Phone, Places
<1>5. PhoneTyped'
  BY <1>2, <1>4 DEF Typed, PhoneTyped
<1>6. PhoneRelated'
  BY <1>1, <1>4 DEF PhoneRelated
<1> QED
  BY <1>2, <1>5, <1>6

\* A request is handled.
LEMMA HandleTyped ==
  ASSUME Typed, Related, Handle
  PROVE  /\ PhoneTyped' /\ PhoneRelated' /\ UNCHANGED hostVars /\ UNCHANGED conn
         /\ faults' \in 0..MaxFaults
<1> DEFINE request == phone.frame.request
<1>1. phone.frame \in RequestLine /\ request \in Request /\ phone.conn \in DOMAIN conn
  BY DEF Handle, Related, PhoneRelated, RequestLine
<1>2. request.key \in Keys /\ request.text \in Texts /\ request.id \in Nat
  BY <1>1 DEF Request
<1>3. /\ UNCHANGED <<hostVars, pairing, conn>> /\ phone.at = "handle"
  BY DEF Handle
<1>4. faults' \in 0..MaxFaults
  <2>1. UNCHANGED faults \/ Fault
    BY DEF Handle
  <2> QED
    BY <2>1 DEF Fault, Typed
<1>5. ASSUME NEW code \in Codes, NEW e \in Nat, Replied(code, e)
      PROVE  phone' \in Phone /\ PhoneRelated'
  <2>1. /\ phone' \in Phone /\ phone'.at = "reply" /\ phone'.code = code
        /\ phone'.frame = phone.frame /\ phone'.conn = phone.conn
    BY <1>5 DEF Replied, Typed, PhoneTyped, Phone, Places
  <2> QED
    BY <1>1, <1>3, <2>1 DEF Related, PhoneRelated
<1>6. Len(event) \in Nat /\ slot[request.key] \in {NoSlot} \cup [digest : Texts \X Nat, event : Nat]
  BY <1>2 DEF Typed, PhoneTyped
<1>7. /\ event' \in Seq(Event)
      /\ slot' \in [Keys -> {NoSlot} \cup [digest : Texts \X Nat, event : Nat]]
  <2>1. \/ UNCHANGED <<event, slot>>
        \/ /\ event' = Append(event, [key |-> request.key, text |-> request.text])
           /\ slot' = [slot EXCEPT ![request.key] =
                         [digest |-> Digest(request), event |-> Len(event) + 1]]
    BY DEF Handle
  <2>2. [key |-> request.key, text |-> request.text] \in Event
    BY <1>2 DEF Event
  <2>3. [digest |-> Digest(request), event |-> Len(event) + 1] \in [digest : Texts \X Nat, event : Nat]
    BY <1>2, <1>6 DEF Digest
  <2>4. /\ event \in Seq(Event)
        /\ slot \in [Keys -> {NoSlot} \cup [digest : Texts \X Nat, event : Nat]]
    BY DEF Typed, PhoneTyped
  <2> HIDE DEF request
  <2>5. CASE UNCHANGED <<event, slot>>
    BY <2>4, <2>5
  <2>6. CASE /\ event' = Append(event, [key |-> request.key, text |-> request.text])
             /\ slot' = [slot EXCEPT ![request.key] =
                           [digest |-> Digest(request), event |-> Len(event) + 1]]
    BY <1>2, <2>2, <2>3, <2>4, <2>6
  <2> QED
    BY <2>1, <2>5, <2>6
<1>8. phone' \in Phone /\ PhoneRelated'
  <2>1. \/ \E code \in Codes : Replied(code, 0)
        \/ slot[request.key] # NoSlot /\ Replied("ok", slot[request.key].event)
        \/ Replied("ok", Len(event) + 1)
    BY DEF Handle, Applies, Rollback, Codes
  <2>2. "ok" \in Codes /\ 0 \in Nat
    BY DEF Codes
  <2> HIDE DEF request
  <2>3. slot[request.key] # NoSlot => slot[request.key].event \in Nat
    BY <1>6
  <2>4. Len(event) + 1 \in Nat
    BY <1>6
  <2> QED
    BY <1>5, <2>1, <2>2, <2>3, <2>4
<1> QED
  BY <1>3, <1>4, <1>7, <1>8 DEF PhoneTyped, Typed

\* An answer is written, or cannot be.
LEMMA WriteFrameTyped ==
  ASSUME Typed, Related, WriteFrame
  PROVE  PhoneTyped' /\ PhoneRelated' /\ UNCHANGED hostVars
<1>1. /\ DOMAIN conn' = DOMAIN conn /\ conn' \in Seq(Connection) /\ phone.conn \in DOMAIN conn
      /\ phone.conn \in 0..Len(conn')
  BY WriteFrameMoves DEF ConnectionsGo, WriteFrame, Related, PhoneRelated, Typed
<1>2. UNCHANGED <<hostVars, pairing, event, slot, faults>>
  BY DEF WriteFrame
<1>3. \/ phone' = [At("serve", phone.listener) EXCEPT !.conn = phone.conn,
                                                       !.expected = phone.expected + 1]
      \/ phone' = At("loop", "none")
  BY DEF WriteFrame
<1>4. CASE phone' = [At("serve", phone.listener) EXCEPT !.conn = phone.conn,
                                                        !.expected = phone.expected + 1]
  <2>1. /\ phone.listener \in {"none", "open", "closed"} /\ phone.conn \in Nat
        /\ phone.expected + 1 \in Nat
    BY DEF Typed, PhoneTyped, Phone
  <2>2. phone' = [at |-> "serve", listener |-> phone.listener, conn |-> phone.conn,
                  expected |-> phone.expected + 1, frame |-> "none", code |-> "none",
                  event |-> 0]
    BY <1>4 DEF At
  <2>3. [at |-> "serve", listener |-> phone.listener, conn |-> phone.conn,
         expected |-> phone.expected + 1, frame |-> "none", code |-> "none", event |-> 0]
          \in Phone
    BY <2>1 DEF Phone, Places
  <2>4. phone' \in Phone /\ phone'.at = "serve" /\ phone'.conn = phone.conn
    BY <2>2, <2>3
  <2>5. PhoneTyped'
    BY <1>2, <2>4 DEF Typed, PhoneTyped
  <2>6. PhoneRelated'
    BY <1>1, <2>4 DEF PhoneRelated
  <2> QED
    BY <1>2, <2>5, <2>6
<1>5. CASE phone' = At("loop", "none")
  <2>1. "loop" \in Places \ {"serve", "handle", "reply"}
    BY DEF Places
  <2> QED
    BY <1>1, <1>2, <1>5, <2>1, AtTyped DEF Typed, PhoneTyped
<1> QED
  BY <1>3, <1>4, <1>5

\* Every step keeps the types and the relations.
LEMMA NextTyped ==
  ASSUME Typed, Related, [Next]_vars
  PROVE  Typed' /\ Related'
<1>1. ASSUME Fault PROVE faults' \in 0..MaxFaults
  BY <1>1 DEF Fault, Typed
<1>2. faults \in 0..MaxFaults /\ conn \in Seq(Connection)
  BY DEF Typed
<1>3. ASSUME HostTyped', HostRelated', UNCHANGED phoneVars, UNCHANGED faults,
             NEW U, NEW D, ConnectionsGo(U, D)
      PROVE  Typed' /\ Related'
  <2>1. PhoneTyped' /\ PhoneRelated'
    BY <1>3, PhoneUndisturbed DEF Related
  <2> QED
    BY <1>2, <1>3, <2>1 DEF Typed, Related, ConnectionsGo
<1>4. ASSUME PhoneTyped', PhoneRelated', UNCHANGED hostVars, faults' \in 0..MaxFaults,
             NEW U, NEW D, ConnectionsGo(U, D), HostKept, DOMAIN conn' = DOMAIN conn
      PROVE  Typed' /\ Related'
  <2>1. HostTyped' /\ HostRelated'
    BY <1>4, HostUndisturbed DEF Related
  <2> QED
    BY <1>4, <2>1 DEF Typed, Related, ConnectionsGo
<1>5. CASE Connect
  <2>1. HostTyped' /\ HostRelated' /\ UNCHANGED phoneVars
    BY <1>5, ConnectingTyped
  <2>2. ConnectionsGo({ClientHello}, {}) /\ UNCHANGED faults
    BY <1>5, ConnectChanges DEF Connect
  <2> QED
    BY <1>3, <2>1, <2>2
<1>6. CASE Connected
  <2>1. HostTyped' /\ HostRelated' /\ UNCHANGED phoneVars
    BY <1>6, ConnectingTyped
  <2>2. ConnectionsGo({}, {}) /\ UNCHANGED faults
    BY <1>6, ConnectedMoves DEF Connected, Quiet
  <2> QED
    BY <1>3, <2>1, <2>2
<1>7. CASE ConnectFails
  <2>1. HostTyped' /\ HostRelated' /\ UNCHANGED phoneVars
    BY <1>7, ConnectingTyped
  <2>2. ConnectionsGo({}, {}) /\ UNCHANGED faults
    BY <1>7, HostEndMoves DEF ConnectFails
  <2> QED
    BY <1>3, <2>1, <2>2
<1>8. CASE (\E c \in Calls : Capture(c) \/ Replay(c)) \/ DeadlineExceeded
  <2>1. HostTyped' /\ HostRelated' /\ UNCHANGED phoneVars /\ UNCHANGED conn
    BY <1>8, CapturesTyped
  <2>2. ConnectionsGo({}, {}) /\ UNCHANGED faults
    BY <1>8, <2>1, NoConnectionMoves DEF Quiet, Capture, Replay, DeadlineExceeded
  <2> QED
    BY <1>3, <2>1, <2>2
<1>9. CASE WorkerSends
  <2>1. HostTyped' /\ HostRelated' /\ UNCHANGED phoneVars
    BY <1>9, ChannelTyped
  <2>2. ConnectionsGo({RequestFrame(worker.request)}, {}) /\ UNCHANGED faults
    BY <1>9, WorkerSendsMoves DEF WorkerSends
  <2> QED
    BY <1>3, <2>1, <2>2
<1>10. CASE WorkerFails \/ ChannelCloses \/ HostStops
  <2>1. HostTyped' /\ HostRelated' /\ UNCHANGED phoneVars
    BY <1>10, ChannelTyped
  <2>2. ConnectionsGo({}, {}) /\ UNCHANGED faults
    BY <1>10, HostEndMoves DEF WorkerFails, ChannelCloses, HostStops
  <2> QED
    BY <1>3, <2>1, <2>2
<1>11. CASE WorkerReceives
  <2>1. HostTyped' /\ HostRelated' /\ UNCHANGED phoneVars
    BY <1>11, WorkerReceivesTyped
  <2>2. ConnectionsGo({}, {}) /\ UNCHANGED faults
    BY <1>11, WorkerReceivesMoves DEF WorkerReceives, Quiet
  <2> QED
    BY <1>3, <2>1, <2>2
<1>12. CASE BuildListener \/ PublishListener \/ UseListener \/ Bind \/ PhoneStarts \/ Expire
  <2>1. PhoneTyped' /\ PhoneRelated' /\ UNCHANGED hostVars /\ UNCHANGED conn
    BY <1>12, LoopTyped
  <2>2. ConnectionsGo({}, {}) /\ HostKept /\ DOMAIN conn' = DOMAIN conn
    BY <2>1, NoConnectionMoves DEF Quiet
  <2>3. faults' \in 0..MaxFaults
    BY <1>2, <1>12 DEF BuildListener, PublishListener, UseListener, Bind, PhoneStarts, Expire
  <2> QED
    BY <1>4, <2>1, <2>2, <2>3
<1>13. CASE ReadEnds \/ PhoneStops \/ Revoke
  <2>1. PhoneTyped' /\ PhoneRelated' /\ UNCHANGED hostVars /\ Quiet
    BY <1>13, ServingEndsTyped
  <2>2. ConnectionsGo({}, {}) /\ HostKept /\ DOMAIN conn' = DOMAIN conn
    BY <2>1 DEF Quiet
  <2>3. faults' \in 0..MaxFaults
    BY <1>1, <1>2, <1>13 DEF ReadEnds, PhoneStops, Revoke
  <2> QED
    BY <1>4, <2>1, <2>2, <2>3
<1>14. ASSUME NEW i \in DOMAIN conn, Accept(i)
       PROVE  Typed' /\ Related'
  <2>1. /\ PhoneTyped' /\ PhoneRelated' /\ UNCHANGED hostVars /\ HostKept
        /\ ConnectionsGo({}, {ServerHello(i)}) /\ DOMAIN conn' = DOMAIN conn
    BY <1>14, AcceptTyped
  <2>2. faults' \in 0..MaxFaults
    BY <1>2, <1>14 DEF Accept
  <2> QED
    BY <1>4, <2>1, <2>2
<1>15. CASE ReadFrame
  <2>1. PhoneTyped' /\ PhoneRelated' /\ UNCHANGED hostVars
    BY <1>15, ReadFrameTyped
  <2>2. ConnectionsGo({}, {}) /\ HostKept /\ DOMAIN conn' = DOMAIN conn
    BY <1>15, ReadFrameMoves DEF Quiet
  <2>3. faults' \in 0..MaxFaults
    BY <1>2, <1>15 DEF ReadFrame
  <2> QED
    BY <1>4, <2>1, <2>2, <2>3
<1>16. CASE Handle
  <2>1. /\ PhoneTyped' /\ PhoneRelated' /\ UNCHANGED hostVars /\ UNCHANGED conn
        /\ faults' \in 0..MaxFaults
    BY <1>16, HandleTyped
  <2>2. ConnectionsGo({}, {}) /\ HostKept /\ DOMAIN conn' = DOMAIN conn
    BY <2>1, NoConnectionMoves DEF Quiet
  <2> QED
    BY <1>4, <2>1, <2>2
<1>17. CASE WriteFrame
  <2>1. PhoneTyped' /\ PhoneRelated' /\ UNCHANGED hostVars
    BY <1>17, WriteFrameTyped
  <2>2. /\ ConnectionsGo({}, {ResponseFrame(phone.frame, phone.code, phone.event)})
        /\ HostKept /\ DOMAIN conn' = DOMAIN conn
    BY <1>17, WriteFrameMoves
  <2>3. faults' \in 0..MaxFaults
    BY <1>2, <1>17 DEF WriteFrame
  <2> QED
    BY <1>4, <2>1, <2>2, <2>3
<1>18. ASSUME NEW i \in DOMAIN conn, Break(i)
       PROVE  Typed' /\ Related'
  <2>1. ConnectionsGo({}, {}) /\ HostKept /\ DOMAIN conn' = DOMAIN conn
    BY <1>18, BreakChanges
  <2>2. UNCHANGED hostVars /\ UNCHANGED phoneVars
    BY <1>18 DEF Break
  <2>3. PhoneTyped' /\ PhoneRelated'
    BY <2>1, <2>2, PhoneUndisturbed DEF Related
  <2>4. faults' \in 0..MaxFaults
    BY <1>1, <1>18 DEF Break
  <2> QED
    BY <1>4, <2>1, <2>2, <2>3, <2>4
<1>19. CASE UNCHANGED vars
  <2>1. Quiet /\ UNCHANGED hostVars /\ UNCHANGED phoneVars
    BY <1>19, NoConnectionMoves DEF vars
  <2>2. ConnectionsGo({}, {}) /\ HostKept /\ DOMAIN conn' = DOMAIN conn
    BY <2>1 DEF Quiet
  <2>3. PhoneTyped' /\ PhoneRelated'
    BY <2>1, <2>2, PhoneUndisturbed DEF Related
  <2>4. faults' \in 0..MaxFaults
    BY <1>2, <1>19 DEF vars
  <2> QED
    BY <1>4, <2>1, <2>2, <2>3, <2>4
<1> QED
  BY <1>5, <1>6, <1>7, <1>8, <1>9, <1>10, <1>11, <1>12, <1>13, <1>14, <1>15, <1>16, <1>17,
     <1>18, <1>19
  DEF Next, HostStep, PhoneStep

-----------------------------------------------------------------------------
(* What is stored, what is known of it, and what was told.                 *)

\* An event and the record of its slot are of one request.
Stored ==
  /\ OneEventPerSlot
  /\ \A k \in Keys : slot[k] # NoSlot => /\ slot[k].event \in DOMAIN event
                                         /\ slot[k].digest[1] = event[slot[k].event].text

\* The thread, a line on its way and the phone may carry a request.
Carries(r) ==
  \/ worker # Idle /\ worker.request = r
  \/ \E line \in Up \cap RequestLine : line.request = r
  \/ phone.at \in {"handle", "reply"} /\ phone.frame.request = r

\* The phone, or a line on its way, may answer it by its number.
Answered(n, code, e) ==
  \/ \E line \in Down \cap ResponseLine : line.id = n /\ line.code = code /\ line.event = e
  \/ /\ phone.at = "reply"
     /\ phone.frame.request.id = n /\ phone.code = code /\ phone.event = e

Means(r, code, e) ==
  /\ code = "ok" => Durable(r.key, r.text, e)
  /\ code = "conflict" => slot[r.key] # NoSlot

\* A number stands for one request, and an answer that is on its way is true of it,
\* on whatever connection, and whoever has given up waiting for it.
NumbersKnown ==
  /\ \A r \in Request : Carries(r) => r.id <= attempts
  /\ \A r, s \in Request : Carries(r) /\ Carries(s) /\ r.id = s.id => r = s
AnswersTrue ==
  \A n \in Nat, code \in Codes, e \in Nat : Answered(n, code, e) =>
    /\ n <= attempts
    /\ \A r \in Request : Carries(r) /\ r.id = n => Means(r, code, e)

Known == NumbersKnown /\ AnswersTrue

\* The record of a slot is not the absence of one.
LEMMA SlotIsNew ==
  ASSUME NEW d, NEW e
  PROVE  [digest |-> d, event |-> e] # NoSlot
<1>1. DOMAIN [digest |-> d, event |-> e] = {"digest", "event"} /\ DOMAIN NoSlot = {"known"}
  BY DEF NoSlot
<1> QED
  BY <1>1

\* A step after which nothing is asked or answered that was not before.
NothingNew ==
  /\ \A r \in Request : Carries(r)' => Carries(r)
  /\ \A n \in Nat, code \in Codes, e \in Nat : Answered(n, code, e)' => Answered(n, code, e)

\* Steps that ask and answer nothing.
LEMMA QuietStep ==
  ASSUME NEW U, NEW D, ConnectionsGo(U, D),
         U \cap RequestLine = {}, D \cap ResponseLine = {},
         worker' # Idle => worker # Idle /\ worker'.request = worker.request,
         phone'.at \in {"handle", "reply"} =>
           /\ phone.at = phone'.at /\ phone'.frame = phone.frame
           /\ phone'.code = phone.code /\ phone'.event = phone.event
  PROVE  NothingNew
<1>1. ASSUME NEW r \in Request, Carries(r)'
      PROVE  Carries(r)
  <2>1. Up' \cap RequestLine \subseteq Up \cap RequestLine
    BY DEF ConnectionsGo
  <2> QED
    BY <1>1, <2>1 DEF Carries
<1>2. ASSUME NEW n \in Nat, NEW code \in Codes, NEW e \in Nat, Answered(n, code, e)'
      PROVE  Answered(n, code, e)
  <2>1. Down' \cap ResponseLine \subseteq Down \cap ResponseLine
    BY DEF ConnectionsGo
  <2> QED
    BY <1>2, <2>1 DEF Answered
<1> QED
  BY <1>1, <1>2 DEF NothingNew

\* Sending, reading and writing only move what was carried or answered already.
LEMMA MovingStep ==
  ASSUME Typed, Related, WorkerSends \/ ReadFrame \/ WriteFrame
  PROVE  NothingNew
<1>1. CASE WorkerSends
  <2>1. /\ ConnectionsGo({RequestFrame(worker.request)}, {}) /\ worker \in Worker
    BY <1>1, WorkerSendsMoves
  <2>2. /\ Up' \subseteq Up \cup {RequestFrame(worker.request)} /\ Down' \subseteq Down
        /\ worker # Idle /\ RequestFrame(worker.request).request = worker.request
    BY <2>1 DEF ConnectionsGo, Worker, Idle, RequestFrame
  <2>3. worker'.request = worker.request /\ phone' = phone
    BY <1>1, <2>1 DEF WorkerSends, Worker, phoneVars
  <2>4. ASSUME NEW r \in Request, Carries(r)' PROVE Carries(r)
    BY <2>2, <2>3, <2>4 DEF Carries
  <2>5. ASSUME NEW n \in Nat, NEW code \in Codes, NEW e \in Nat, Answered(n, code, e)'
        PROVE  Answered(n, code, e)
    BY <2>2, <2>3, <2>5 DEF Answered
  <2> QED
    BY <2>4, <2>5 DEF NothingNew
<1>2. CASE ReadFrame
  <2> DEFINE frame == Head(conn[phone.conn].up)
  <2>1. ConnectionsGo({}, {}) /\ frame \in Up /\ frame \in RequestLine
    BY <1>2, ReadFrameMoves DEF Quiet
  <2>2. phone' = [phone EXCEPT !.at = "handle", !.frame = frame] /\ worker' = worker
    BY <1>2 DEF ReadFrame, hostVars
  <2> HIDE DEF frame
  <2>3. phone'.at = "handle" /\ phone'.frame = frame
    BY <2>2 DEF Typed, PhoneTyped, Phone
  <2>4. Up' \subseteq Up /\ Down' \subseteq Down
    BY <2>1 DEF ConnectionsGo
  <2>5. ASSUME NEW r \in Request, Carries(r)' PROVE Carries(r)
    BY <2>1, <2>2, <2>3, <2>4, <2>5 DEF Carries
  <2>6. ASSUME NEW n \in Nat, NEW code \in Codes, NEW e \in Nat, Answered(n, code, e)'
        PROVE  Answered(n, code, e)
    BY <2>3, <2>4, <2>6 DEF Answered
  <2> QED
    BY <2>5, <2>6 DEF NothingNew
<1>3. CASE WriteFrame
  <2> DEFINE frame == ResponseFrame(phone.frame, phone.code, phone.event)
  <2>1. ConnectionsGo({}, {frame}) /\ frame \in ResponseLine
    BY <1>3, WriteFrameMoves
  <2>2. /\ frame.id = phone.frame.request.id /\ frame.code = phone.code
        /\ frame.event = phone.event
    BY DEF ResponseFrame
  <2> HIDE DEF frame
  <2>3. phone.at = "reply" /\ worker' = worker
    BY <1>3 DEF WriteFrame, hostVars
  <2>4. phone'.at \notin {"handle", "reply"}
    <3>1. \/ phone' = [at |-> "serve", listener |-> phone.listener, conn |-> phone.conn,
                       expected |-> phone.expected + 1, frame |-> "none", code |-> "none",
                       event |-> 0]
          \/ phone' = At("loop", "none")
      BY <1>3 DEF WriteFrame, At
    <3> QED
      BY <3>1 DEF At
  <2>5. Up' \subseteq Up /\ Down' \subseteq Down \cup {frame}
    BY <2>1 DEF ConnectionsGo
  <2>6. ASSUME NEW r \in Request, Carries(r)' PROVE Carries(r)
    BY <2>3, <2>4, <2>5, <2>6 DEF Carries
  <2>7. ASSUME NEW n \in Nat, NEW code \in Codes, NEW e \in Nat, Answered(n, code, e)'
        PROVE  Answered(n, code, e)
    BY <2>2, <2>3, <2>4, <2>5, <2>7 DEF Answered
  <2> QED
    BY <2>6, <2>7 DEF NothingNew
<1> QED
  BY <1>1, <1>2, <1>3

\* What is stored stays.
StoredStays ==
  /\ \A k \in Keys : slot[k] # NoSlot => slot'[k] = slot[k]
  /\ \A e \in DOMAIN event : e \in DOMAIN event' /\ event'[e] = event[e]

\* What an answer means goes on to be true.
LEMMA MeansStays ==
  ASSUME Stored, StoredStays, NEW r \in Request, NEW code, NEW e, Means(r, code, e)
  PROVE  Means(r, code, e)'
<1>1. r.key \in Keys
  BY DEF Request
<1>2. slot[r.key] # NoSlot => slot'[r.key] = slot[r.key] /\ slot[r.key].event \in DOMAIN event
  BY <1>1 DEF Stored, StoredStays
<1>3. slot[r.key] # NoSlot /\ slot[r.key].event = e => event'[e] = event[e]
  BY <1>2 DEF StoredStays
<1> QED
  BY <1>2, <1>3 DEF Means, Durable

\* An event has a key.
LEMMA EventsTyped ==
  ASSUME Typed, NEW e \in DOMAIN event
  PROVE  event[e].key \in Keys
<1>1. event \in Seq(Event)
  BY DEF Typed, PhoneTyped
<1>2. event[e] \in Event
  BY <1>1
<1> QED
  BY <1>2 DEF Event

\* A transaction stores an event with the record of its slot, or nothing.
LEMMA HandleStores ==
  ASSUME Typed, Related, Stored, Handle
  PROVE  Stored' /\ StoredStays
<1> DEFINE request == phone.frame.request
           new == [key |-> request.key, text |-> request.text]
           s == [digest |-> Digest(request), event |-> Len(event) + 1]
<1>1. request \in Request
  BY DEF Handle, Related, PhoneRelated, RequestLine
<1>2. request.key \in Keys /\ request.text \in Texts
  BY <1>1 DEF Request
<1>3. \/ UNCHANGED <<event, slot>>
      \/ /\ slot[request.key] = NoSlot
         /\ event' = Append(event, new) /\ slot' = [slot EXCEPT ![request.key] = s]
  BY DEF Handle, Applies
<1>4. new.key = request.key /\ new.text = request.text
  OBVIOUS
<1>5. s # NoSlot /\ s.event = Len(event) + 1 /\ s.digest[1] = request.text
  <2>1. s # NoSlot
    BY SlotIsNew
  <2> QED
    BY <2>1 DEF Digest
<1>6. new \in Event
  BY <1>2 DEF Event
<1> HIDE DEF request, new, s
<1>7. CASE UNCHANGED <<event, slot>>
  BY <1>7 DEF Stored, StoredStays, OneEventPerSlot
<1>8. CASE /\ slot[request.key] = NoSlot
           /\ event' = Append(event, new) /\ slot' = [slot EXCEPT ![request.key] = s]
  <2>1. /\ slot'[request.key] = s
        /\ \A k \in Keys \ {request.key} : slot'[k] = slot[k]
    BY <1>2, <1>8 DEF Typed, PhoneTyped
  <2>2. /\ event \in Seq(Event) /\ Len(event) \in Nat
        /\ DOMAIN event = 1..Len(event) /\ DOMAIN event' = 1..Len(event) + 1
        /\ \A e \in 1..Len(event) : event'[e] = event[e]
        /\ event'[Len(event) + 1] = new
    BY <1>6, <1>8 DEF Typed, PhoneTyped
  <2>3. StoredStays
    BY <1>8, <2>1, <2>2 DEF StoredStays
  <2>4. \A e \in DOMAIN event : event[e].key \in Keys
    BY EventsTyped
  <2>5. ASSUME NEW e \in DOMAIN event'
        PROVE  slot'[event'[e].key] # NoSlot /\ slot'[event'[e].key].event = e
    <3>1. CASE e = Len(event) + 1
      BY <1>4, <1>5, <2>1, <2>2, <3>1
    <3>2. CASE e \in 1..Len(event)
      <4>1. slot[event[e].key] # NoSlot /\ slot[event[e].key].event = e
        BY <2>2, <3>2 DEF Stored, OneEventPerSlot
      <4>2. event[e].key # request.key /\ event[e].key \in Keys
        BY <1>8, <2>2, <2>4, <3>2, <4>1
      <4> QED
        BY <2>1, <2>2, <3>2, <4>1, <4>2
    <3> QED
      BY <2>2, <3>1, <3>2
  <2>6. ASSUME NEW k \in Keys, slot'[k] # NoSlot
        PROVE  /\ event'[slot'[k].event].key = k
               /\ slot'[k].event \in DOMAIN event'
               /\ slot'[k].digest[1] = event'[slot'[k].event].text
    <3>1. CASE k = request.key
      BY <1>4, <1>5, <2>1, <2>2, <3>1
    <3>2. CASE k # request.key
      <4>1. slot'[k] = slot[k] /\ slot[k] # NoSlot
        BY <2>1, <2>6, <3>2
      <4>2. /\ event[slot[k].event].key = k /\ slot[k].event \in DOMAIN event
            /\ slot[k].digest[1] = event[slot[k].event].text
        BY <4>1 DEF Stored, OneEventPerSlot
      <4> QED
        BY <2>2, <4>1, <4>2
    <3> QED
      BY <3>1, <3>2
  <2>7. Stored'
    BY <2>5, <2>6 DEF Stored, OneEventPerSlot
  <2> QED
    BY <2>3, <2>7
<1> QED
  BY <1>3, <1>7, <1>8

\* What the phone is about to answer is true of the request it has handled.
LEMMA HandleAnswers ==
  ASSUME Typed, Related, Stored, Handle, NEW r, NEW code, NEW e,
         r = phone.frame.request, phone'.code = code, phone'.event = e
  PROVE  Means(r, code, e)' /\ phone'.frame = phone.frame /\ phone'.at = "reply"
<1>1. r \in Request /\ r.key \in Keys /\ r.text \in Texts
  BY DEF Handle, Related, PhoneRelated, RequestLine, Request
<1>2. phone \in Phone
  BY DEF Typed, PhoneTyped
<1>3. ASSUME NEW c, NEW x, Replied(c, x)
      PROVE  /\ phone'.at = "reply" /\ phone'.frame = phone.frame
             /\ code = c /\ e = x
  BY <1>2, <1>3 DEF Replied, Phone
<1>4. \/ \E c \in {"expired", "conflict", "unavailable"} :
           /\ Replied(c, 0)
           /\ c = "conflict" => slot'[r.key] # NoSlot
      \/ /\ slot[r.key] # NoSlot /\ slot[r.key].digest = Digest(r)
         /\ Replied("ok", slot[r.key].event) /\ UNCHANGED <<event, slot>>
      \/ /\ event' = Append(event, [key |-> r.key, text |-> r.text])
         /\ slot' = [slot EXCEPT ![r.key] = [digest |-> Digest(r), event |-> Len(event) + 1]]
         /\ Replied("ok", Len(event) + 1)
  BY DEF Handle, Applies, Rollback
<1>5. ASSUME NEW c \in {"expired", "conflict", "unavailable"}, Replied(c, 0),
             c = "conflict" => slot'[r.key] # NoSlot
      PROVE  Means(r, code, e)' /\ phone'.frame = phone.frame /\ phone'.at = "reply"
  <2>1. phone'.at = "reply" /\ phone'.frame = phone.frame /\ code = c
    BY <1>3, <1>5
  <2> QED
    BY <1>5, <2>1 DEF Means
<1>6. ASSUME slot[r.key] # NoSlot, slot[r.key].digest = Digest(r),
             Replied("ok", slot[r.key].event), UNCHANGED <<event, slot>>
      PROVE  Means(r, code, e)' /\ phone'.frame = phone.frame /\ phone'.at = "reply"
  <2>1. /\ phone'.at = "reply" /\ phone'.frame = phone.frame /\ code = "ok"
        /\ e = slot[r.key].event
    BY <1>3, <1>6
  <2>2. event[slot[r.key].event].text = r.text
    BY <1>1, <1>6 DEF Stored, Digest
  <2> QED
    BY <1>6, <2>1, <2>2 DEF Means, Durable
<1>7. ASSUME event' = Append(event, [key |-> r.key, text |-> r.text]),
             slot' = [slot EXCEPT ![r.key] = [digest |-> Digest(r), event |-> Len(event) + 1]],
             Replied("ok", Len(event) + 1)
      PROVE  Means(r, code, e)' /\ phone'.frame = phone.frame /\ phone'.at = "reply"
  <2>1. phone'.at = "reply" /\ phone'.frame = phone.frame /\ code = "ok" /\ e = Len(event) + 1
    BY <1>3, <1>7
  <2>2. slot'[r.key] = [digest |-> Digest(r), event |-> Len(event) + 1]
    BY <1>1, <1>7 DEF Typed, PhoneTyped
  <2>3. slot'[r.key] # NoSlot /\ slot'[r.key].event = Len(event) + 1
    BY <2>2, SlotIsNew
  <2>4. event'[Len(event) + 1] = [key |-> r.key, text |-> r.text]
    BY <1>1, <1>7 DEF Typed, PhoneTyped
  <2>5. event'[Len(event) + 1].text = r.text
    BY <2>4
  <2> QED
    BY <2>1, <2>3, <2>5 DEF Means, Durable
<1> QED
  BY <1>4, <1>5, <1>6, <1>7

\* What is durable stays so.
LEMMA DurableStays ==
  ASSUME Stored, StoredStays, NEW k \in Keys, NEW text, NEW e, Durable(k, text, e)
  PROVE  Durable(k, text, e)'
<1>1. slot'[k] = slot[k] /\ slot[k] # NoSlot /\ slot[k].event \in DOMAIN event /\ slot[k].event = e
  BY DEF Stored, StoredStays, Durable
<1>2. event'[e] = event[e]
  BY <1>1 DEF StoredStays
<1> QED
  BY <1>1, <1>2 DEF Durable

\* A step that leaves the database alone.
LEMMA NothingStored ==
  ASSUME Stored, UNCHANGED <<event, slot>>
  PROVE  Stored' /\ StoredStays
  BY DEF Stored, StoredStays, OneEventPerSlot

\* What was told goes on to be true.
LEMMA ToldGoesOn ==
  ASSUME Stored, StoredStays, ToldIsDurable, UNCHANGED <<record, told>>
  PROVE  ToldIsDurable'
<1>1. ASSUME NEW k \in Keys, record[k] # NoRecord
      PROVE  Durable(k, record[k].text, record[k].event)'
  <2>1. Durable(k, record[k].text, record[k].event)
    BY <1>1 DEF ToldIsDurable
  <2> DEFINE text == record[k].text
             e == record[k].event
  <2>2. /\ slot'[k] = slot[k] /\ slot[k] # NoSlot /\ slot[k].event = record[k].event
        /\ event[record[k].event].text = record[k].text /\ slot[k].event \in DOMAIN event
    BY <2>1 DEF Stored, StoredStays, Durable
  <2>3. event'[record[k].event] = event[record[k].event]
    BY <2>2 DEF StoredStays
  <2> QED
    BY <2>2, <2>3 DEF Durable
<1>2. ASSUME NEW k \in Keys, NEW answer \in told[k]
      PROVE  /\ answer.code = "ok" => Durable(k, answer.text, answer.event)'
             /\ answer.code = "conflict" => slot'[k] # NoSlot
  <2>1. /\ answer.code = "ok" => Durable(k, answer.text, answer.event)
        /\ answer.code = "conflict" => slot[k] # NoSlot
    BY DEF ToldIsDurable
  <2>2. answer.code = "ok" => Durable(k, answer.text, answer.event)'
    BY <2>1, DurableStays
  <2> QED
    BY <2>1, <2>2 DEF StoredStays
<1> QED
  BY <1>1, <1>2 DEF ToldIsDurable

\* What is known goes on to be so.
LEMMA KnownGoesOn ==
  ASSUME Stored, StoredStays, Known, NothingNew,
         attempts \in Nat, attempts' \in Nat, attempts <= attempts'
  PROVE  Known'
<1>1. ASSUME NEW r \in Request, Carries(r)' PROVE Carries(r)
  BY <1>1 DEF NothingNew
<1>2. NumbersKnown'
  <2>1. ASSUME NEW r \in Request, Carries(r)' PROVE r.id <= attempts'
    <3>1. r.id <= attempts /\ r.id \in Nat
      BY <1>1, <2>1 DEF Known, NumbersKnown, Request
    <3> QED
      BY <3>1
  <2>2. ASSUME NEW r \in Request, NEW s \in Request, Carries(r)', Carries(s)', r.id = s.id
        PROVE  r = s
    BY <1>1, <2>2 DEF Known, NumbersKnown
  <2> QED
    BY <2>1, <2>2 DEF NumbersKnown
<1>3. AnswersTrue'
  <2> SUFFICES ASSUME NEW n \in Nat, NEW code \in Codes, NEW e \in Nat, Answered(n, code, e)'
               PROVE  /\ n <= attempts'
                      /\ \A r \in Request : Carries(r)' /\ r.id = n => Means(r, code, e)'
    BY DEF AnswersTrue
  <2>1. Answered(n, code, e)
    BY DEF NothingNew
  <2>2. n <= attempts /\ \A r \in Request : Carries(r) /\ r.id = n => Means(r, code, e)
    BY <2>1 DEF Known, AnswersTrue
  <2>3. ASSUME NEW r \in Request, Carries(r)', r.id = n
        PROVE  Means(r, code, e)'
    BY <1>1, <2>2, <2>3, MeansStays
  <2> QED
    BY <2>2, <2>3
<1> QED
  BY <1>2, <1>3 DEF Known

\* A capture takes a number nobody has heard of.
LEMMA CaptureKnown ==
  ASSUME Typed, Known, NEW c \in Calls, Capture(c)
  PROVE  Known'
<1>1. /\ attempts' = attempts + 1 /\ call' = CreateEvent(c)
      /\ worker' = [at |-> "start", request |-> call', abandoned |-> FALSE]
      /\ UNCHANGED <<phone, conn, event, slot>>
  BY DEF Capture, phoneVars
<1>2. attempts \in Nat /\ c \in Call /\ c.key \in Keys /\ c.text \in Texts
  BY DEF Typed, HostTyped, Call
<1>3. call' \in Request /\ call'.id = attempts + 1
  BY <1>1, <1>2 DEF CreateEvent, Request
<1>4. worker'.request = call' /\ Up' = Up /\ Down' = Down
  BY <1>1 DEF Up, Down
<1>5. ASSUME NEW r \in Request, Carries(r)'
      PROVE  r = call' \/ (Carries(r) /\ r.id <= attempts)
  <2>1. r = call' \/ Carries(r)
    BY <1>1, <1>4, <1>5 DEF Carries
  <2>2. Carries(r) => r.id <= attempts
    BY DEF Known, NumbersKnown
  <2> QED
    BY <2>1, <2>2
<1>6. NumbersKnown'
  <2>1. ASSUME NEW r \in Request, Carries(r)' PROVE r.id <= attempts'
    <3>1. r.id \in Nat
      BY DEF Request
    <3> QED
      BY <1>1, <1>2, <1>3, <1>5, <2>1, <3>1
  <2>2. ASSUME NEW r \in Request, NEW s \in Request, Carries(r)', Carries(s)', r.id = s.id
        PROVE  r = s
    <3>1. r = call' \/ (Carries(r) /\ r.id <= attempts)
      BY <1>5, <2>2
    <3>2. s = call' \/ (Carries(s) /\ s.id <= attempts)
      BY <1>5, <2>2
    <3>3. ~(attempts + 1 <= attempts)
      BY <1>2
    <3>4. CASE Carries(r) /\ Carries(s)
      BY <2>2, <3>4 DEF Known, NumbersKnown
    <3> QED
      BY <1>3, <2>2, <3>1, <3>2, <3>3, <3>4
  <2> QED
    BY <2>1, <2>2 DEF NumbersKnown
<1>7. AnswersTrue'
  <2> SUFFICES ASSUME NEW n \in Nat, NEW code \in Codes, NEW e \in Nat, Answered(n, code, e)'
               PROVE  /\ n <= attempts'
                      /\ \A r \in Request : Carries(r)' /\ r.id = n => Means(r, code, e)'
    BY DEF AnswersTrue
  <2>1. Answered(n, code, e)
    BY <1>1, <1>4 DEF Answered
  <2>2. n <= attempts /\ \A r \in Request : Carries(r) /\ r.id = n => Means(r, code, e)
    BY <2>1 DEF Known, AnswersTrue
  <2>3. ASSUME NEW r \in Request, Carries(r)', r.id = n
        PROVE  Means(r, code, e)'
    <3>1. r # call'
      BY <1>2, <1>3, <2>2, <2>3
    <3>2. Means(r, code, e)
      BY <1>5, <2>2, <2>3, <3>1
    <3> QED
      BY <1>1, <3>2 DEF Means, Durable
  <2>4. n <= attempts'
    BY <1>1, <1>2, <2>2
  <2> QED
    BY <2>3, <2>4
<1> QED
  BY <1>6, <1>7 DEF Known

\* The phone answers what it was asked.
LEMMA HandleKnown ==
  ASSUME Typed, Related, Stored, Known, Handle
  PROVE  Known'
<1>1. Stored' /\ StoredStays
  BY HandleStores
<1>2. UNCHANGED <<worker, attempts, conn>> /\ phone.at = "handle" /\ attempts \in Nat
  BY DEF Handle, hostVars, Typed, HostTyped
<1>3. phone.frame.request \in Request /\ Carries(phone.frame.request)
  BY <1>2 DEF Related, PhoneRelated, RequestLine, Carries
<1>4. phone'.frame = phone.frame /\ phone'.at = "reply"
  BY HandleAnswers
<1>5. Up' = Up /\ Down' = Down
  BY <1>2 DEF Up, Down
<1>6. ASSUME NEW r \in Request, Carries(r)' PROVE Carries(r)
  BY <1>2, <1>4, <1>5, <1>6 DEF Carries
<1>7. NumbersKnown'
  <2>1. \A r \in Request : Carries(r)' => r.id <= attempts'
    BY <1>2, <1>6 DEF Known, NumbersKnown
  <2>2. \A r, s \in Request : Carries(r)' /\ Carries(s)' /\ r.id = s.id => r = s
    BY <1>6 DEF Known, NumbersKnown
  <2> QED
    BY <2>1, <2>2 DEF NumbersKnown
<1>8. AnswersTrue'
  <2> SUFFICES ASSUME NEW n \in Nat, NEW code \in Codes, NEW e \in Nat, Answered(n, code, e)'
               PROVE  /\ n <= attempts'
                      /\ \A r \in Request : Carries(r)' /\ r.id = n => Means(r, code, e)'
    BY DEF AnswersTrue
  <2>1. \/ Answered(n, code, e)
        \/ phone.frame.request.id = n /\ phone'.code = code /\ phone'.event = e
    BY <1>4, <1>5 DEF Answered
  <2>2. CASE Answered(n, code, e)
    <3>1. n <= attempts /\ \A r \in Request : Carries(r) /\ r.id = n => Means(r, code, e)
      BY <2>2 DEF Known, AnswersTrue
    <3>2. ASSUME NEW r \in Request, Carries(r)', r.id = n
          PROVE  Means(r, code, e)'
      BY <1>1, <1>6, <3>1, <3>2, MeansStays
    <3> QED
      BY <1>2, <3>1, <3>2
  <2>3. CASE phone.frame.request.id = n /\ phone'.code = code /\ phone'.event = e
    <3>1. n <= attempts
      BY <1>3, <2>3 DEF Known, NumbersKnown
    <3>2. ASSUME NEW r \in Request, Carries(r)', r.id = n
          PROVE  Means(r, code, e)'
      <4>1. r = phone.frame.request
        BY <1>3, <1>6, <2>3, <3>2 DEF Known, NumbersKnown
      <4> QED
        BY <2>3, <4>1, HandleAnswers
    <3> QED
      BY <1>2, <3>1, <3>2
  <2> QED
    BY <2>1, <2>2, <2>3
<1> QED
  BY <1>7, <1>8 DEF Known

\* One more answer that is true, and perhaps a record of it.
LEMMA OneMoreTold ==
  ASSUME Typed, ToldIsDurable, UNCHANGED <<event, slot>>,
         NEW key \in Keys, NEW code, NEW text, NEW e,
         code = "ok" => Durable(key, text, e), code = "conflict" => slot[key] # NoSlot,
         \/ told' = [told EXCEPT ![key] = @ \cup {[code |-> code, text |-> text, event |-> e]}]
         \/ told' = told,
         \/ code = "ok" /\ record' = [record EXCEPT ![key] = [text |-> text, event |-> e]]
         \/ record' = record
  PROVE  ToldIsDurable'
<1> DEFINE answer == [code |-> code, text |-> text, event |-> e]
           line == [text |-> text, event |-> e]
<1>1. answer.code = code /\ answer.text = text /\ answer.event = e /\ line.text = text /\ line.event = e
  OBVIOUS
<1>2. \/ told' = [told EXCEPT ![key] = @ \cup {answer}]
      \/ told' = told
  OBVIOUS
<1>3. \/ code = "ok" /\ record' = [record EXCEPT ![key] = line]
      \/ record' = record
  OBVIOUS
<1> HIDE DEF answer, line
<1>4. \A k \in Keys : told'[k] = told[k] \/ (k = key /\ told'[k] = told[k] \cup {answer})
  BY <1>2 DEF Typed, HostTyped
<1>5. \A k \in Keys : record'[k] = record[k] \/ (k = key /\ code = "ok" /\ record'[k] = line)
  BY <1>3 DEF Typed, HostTyped
<1>6. \A k \in Keys : \A t, x : Durable(k, t, x) => Durable(k, t, x)'
  BY DEF Durable
<1>7. ASSUME NEW k \in Keys, NEW a \in told'[k]
      PROVE  /\ a.code = "ok" => Durable(k, a.text, a.event)'
             /\ a.code = "conflict" => slot'[k] # NoSlot
  <2>1. CASE a \in told[k]
    BY <1>6, <2>1 DEF ToldIsDurable
  <2>2. CASE a \notin told[k]
    <3>1. k = key /\ a = answer
      BY <1>4, <2>2
    <3>2. a.code = code /\ a.text = text /\ a.event = e
      BY <1>1, <3>1
    <3>3. a.code = "ok" => Durable(k, a.text, a.event)'
      BY <1>6, <3>1, <3>2
    <3> QED
      BY <3>1, <3>2, <3>3
  <2> QED
    BY <2>1, <2>2
<1>8. ASSUME NEW k \in Keys, record'[k] # NoRecord
      PROVE  /\ slot'[k] # NoSlot /\ slot'[k].event = record'[k].event
             /\ event'[record'[k].event].text = record'[k].text
  <2>1. CASE record'[k] = record[k]
    BY <1>8, <2>1 DEF ToldIsDurable, Durable
  <2>2. CASE k = key /\ code = "ok" /\ record'[k] = line
    <3>1. Durable(k, text, e)
      BY <2>2
    <3> QED
      BY <1>1, <2>2, <3>1 DEF Durable
  <2> QED
    BY <1>5, <2>1, <2>2
<1>9. (\A k \in Keys : record[k] # NoRecord => Durable(k, record[k].text, record[k].event))'
  BY <1>8 DEF Durable
<1> QED
  BY <1>7, <1>9 DEF ToldIsDurable

\* Who asks again is told what was recorded.
LEMMA ReplayTold ==
  ASSUME Typed, ToldIsDurable, NEW c \in Calls, Replay(c)
  PROVE  ToldIsDurable'
<1>1. /\ record[c.key] # NoRecord /\ record[c.key].text = c.text
      /\ Told(c.key, "ok", c.text, record[c.key].event)
      /\ UNCHANGED <<record, event, slot>>
  BY DEF Replay, phoneVars
<1>2. c.key \in Keys
  BY DEF Call
<1>3. Durable(c.key, c.text, record[c.key].event)
  BY <1>1, <1>2 DEF ToldIsDurable
<1>4. told' = [told EXCEPT ![c.key] =
                 @ \cup {[code |-> "ok", text |-> c.text, event |-> record[c.key].event]}]
  BY <1>1 DEF Told
<1> QED
  BY <1>1, <1>2, <1>3, <1>4, OneMoreTold

\* Who is answered by the phone is told what is true of the capture.
LEMMA ReceivedTold ==
  ASSUME Typed, Related, Known, ToldIsDurable, WorkerReceives
  PROVE  ToldIsDurable'
<1> DEFINE frame == Head(conn[channel.conn].down)
<1>1. /\ worker \in Worker /\ frame \in Down /\ frame \in ResponseLine
      /\ frame.id = worker.request.id
  BY WorkerReceivesMoves
<1>2. /\ worker.abandoned \in BOOLEAN
      /\ worker.abandoned = TRUE => UNCHANGED <<call, record, told, store>>
      /\ worker.abandoned = FALSE => Outcome(frame)
      /\ UNCHANGED <<event, slot>>
  BY <1>1 DEF WorkerReceives, Worker, phoneVars
<1> HIDE DEF frame
<1>3. frame.code \in Codes /\ frame.event \in Nat /\ frame.id \in Nat
  BY <1>1 DEF ResponseLine
<1>4. CASE worker.abandoned = TRUE
  BY <1>2, <1>4 DEF ToldIsDurable, Durable
<1>5. CASE worker.abandoned = FALSE
  <2>1. worker # Idle /\ worker.request \in Request
    BY <1>1 DEF Worker, Idle
  <2>2. call # NoCall /\ call = worker.request
    BY <1>5, <2>1 DEF Related, HostRelated
  <2>3. call \in Request /\ call.key \in Keys
    BY <2>1, <2>2 DEF Request
  <2>4. Carries(call)
    BY <2>1, <2>2 DEF Carries
  <2>5. Answered(frame.id, frame.code, frame.event)
    BY <1>1 DEF Answered
  <2>6. Means(call, frame.code, frame.event)
    BY <1>1, <1>3, <2>2, <2>3, <2>4, <2>5 DEF Known, AnswersTrue
  <2>7. /\ frame.code = "ok" => Durable(call.key, call.text, frame.event)
        /\ frame.code = "conflict" => slot[call.key] # NoSlot
    BY <2>6 DEF Means
  <2>8. \/ told' = [told EXCEPT ![call.key] =
              @ \cup {[code |-> frame.code, text |-> call.text, event |-> frame.event]}]
        \/ told' = told
    BY <1>2, <1>5 DEF Outcome, Finish, Told
  <2>9. \/ /\ frame.code = "ok"
           /\ record' = [record EXCEPT ![call.key] = [text |-> call.text, event |-> frame.event]]
        \/ record' = record
    BY <1>2, <1>5 DEF Outcome, Finish
  <2>10. UNCHANGED <<event, slot>> /\ call.key \in Keys
    BY <1>2, <2>3
  <2> DEFINE k == call.key
             t == call.text
             c == frame.code
             x == frame.event
  <2>11. /\ k \in Keys /\ UNCHANGED <<event, slot>>
         /\ c = "ok" => Durable(k, t, x)
         /\ c = "conflict" => slot[k] # NoSlot
         /\ \/ told' = [told EXCEPT ![k] = @ \cup {[code |-> c, text |-> t, event |-> x]}]
            \/ told' = told
         /\ \/ c = "ok" /\ record' = [record EXCEPT ![k] = [text |-> t, event |-> x]]
            \/ record' = record
    BY <2>7, <2>8, <2>9, <2>10
  <2> HIDE DEF k, t, c, x
  <2> QED
    BY <2>11, OneMoreTold
<1> QED
  BY <1>2, <1>4, <1>5

Facts == Stored /\ Known /\ ToldIsDurable

\* The loop of the phone does not ask or answer while it looks for a connection, and
\* what ends a connection leaves a request that is handled as it is.
LEMMA PhoneQuiet ==
  ASSUME Typed, Related,
         \/ BuildListener \/ PublishListener \/ UseListener \/ Bind \/ PhoneStarts \/ Expire
         \/ ReadEnds \/ PhoneStops \/ Revoke
         \/ \E i \in DOMAIN conn : Accept(i)
  PROVE  phone'.at \in {"handle", "reply"} =>
           /\ phone.at = phone'.at /\ phone'.frame = phone.frame
           /\ phone'.code = phone.code /\ phone'.event = phone.event
<1>1. phone \in Phone
  BY DEF Typed, PhoneTyped
<1>2. \/ \E place \in {"built", "stopped", "loop", "down"}, l \in {"open", "none"} :
           phone' = At(place, l)
      \/ phone' = [phone EXCEPT !.at = "published"]
      \/ phone' = [phone EXCEPT !.at = "bind"]
      \/ phone' = [phone EXCEPT !.at = "accept"]
      \/ \E i \in DOMAIN conn : phone' = [phone EXCEPT !.at = "serve", !.conn = i, !.expected = 1]
      \/ phone' = [phone EXCEPT !.listener = "closed"]
      \/ phone' = phone
  BY DEF BuildListener, PublishListener, UseListener, Bind, PhoneStarts, Expire, ReadEnds,
         PhoneStops, Revoke, Accept
<1>3. ASSUME NEW place \in {"built", "stopped", "loop", "down"}, NEW l, phone' = At(place, l)
      PROVE  phone'.at \notin {"handle", "reply"}
  BY <1>3 DEF At
<1>4. CASE \/ phone' = [phone EXCEPT !.at = "published"]
           \/ phone' = [phone EXCEPT !.at = "bind"]
           \/ phone' = [phone EXCEPT !.at = "accept"]
           \/ \E i \in DOMAIN conn :
                phone' = [phone EXCEPT !.at = "serve", !.conn = i, !.expected = 1]
  <2>1. phone'.at \in {"published", "bind", "accept", "serve"}
    BY <1>1, <1>4 DEF Phone
  <2> QED
    BY <2>1
<1>5. CASE phone' = [phone EXCEPT !.listener = "closed"]
  BY <1>1, <1>5 DEF Phone
<1>6. CASE phone' = phone
  BY <1>6
<1> QED
  BY <1>2, <1>3, <1>4, <1>5, <1>6

\* A step that stores, tells and asks nothing.
LEMMA FactsGoOn ==
  ASSUME Typed, Facts, NothingNew, UNCHANGED <<event, slot, record, told, attempts>>
  PROVE  Facts'
<1>1. Stored' /\ StoredStays
  BY NothingStored DEF Facts
<1>2. attempts \in Nat /\ attempts' \in Nat /\ attempts <= attempts'
  BY DEF Typed, HostTyped
<1>3. Known'
  BY <1>1, <1>2, KnownGoesOn DEF Facts
<1>4. ToldIsDurable'
  BY <1>1, ToldGoesOn DEF Facts
<1> QED
  BY <1>1, <1>3, <1>4 DEF Facts

\* The same of the steps of the server that start no capture and end none.
LEMMA ServerFacts ==
  ASSUME Typed, Related, Facts,
         \/ Connect \/ Connected \/ ConnectFails \/ WorkerFails \/ ChannelCloses \/ HostStops
         \/ DeadlineExceeded
  PROVE  Facts'
<1>1. UNCHANGED <<event, slot, record, told, attempts>> /\ phone' = phone
  BY DEF Connect, Connected, ConnectFails, WorkerFails, ChannelCloses, HostStops,
         DeadlineExceeded, phoneVars
<1>2. worker' # Idle => worker # Idle /\ worker'.request = worker.request
  <2>1. CASE DeadlineExceeded
    <3>1. worker # Idle /\ worker' = [worker EXCEPT !.abandoned = TRUE]
      BY <2>1 DEF DeadlineExceeded, Related, HostRelated
    <3>2. worker \in Worker
      BY <3>1 DEF Typed, HostTyped
    <3> QED
      BY <3>1, <3>2 DEF Worker
  <2>2. CASE \/ Connect \/ Connected \/ ConnectFails \/ WorkerFails \/ ChannelCloses \/ HostStops
    <3>1. worker' = worker \/ worker' = Idle
      BY <2>2 DEF Connect, Connected, ConnectFails, WorkerFails, ChannelCloses, HostStops
    <3> QED
      BY <3>1
  <2> QED
    BY <2>1, <2>2
<1>3. ConnectionsGo({ClientHello}, {})
  <2>1. CASE Connect
    BY <2>1, ConnectChanges
  <2>2. CASE Connected
    BY <2>2, ConnectedMoves DEF Quiet, ConnectionsGo
  <2>3. CASE ConnectFails \/ WorkerFails \/ ChannelCloses \/ HostStops
    BY <2>3, HostEndMoves DEF ConnectionsGo
  <2>4. CASE DeadlineExceeded
    <3>1. Quiet
      BY <2>4, NoConnectionMoves DEF DeadlineExceeded
    <3> QED
      BY <3>1 DEF Quiet, ConnectionsGo
  <2> QED
    BY <2>1, <2>2, <2>3, <2>4
<1>4. {ClientHello} \cap RequestLine = {} /\ {} \cap ResponseLine = {}
  BY DEF ClientHello, RequestLine
<1>5. NothingNew
  BY <1>1, <1>2, <1>3, <1>4, QuietStep
<1> QED
  BY <1>1, <1>5, FactsGoOn

\* The same of the loop of the phone.
LEMMA LoopFacts ==
  ASSUME Typed, Related, Facts,
         \/ BuildListener \/ PublishListener \/ UseListener \/ Bind \/ PhoneStarts \/ Expire
         \/ ReadEnds \/ PhoneStops \/ Revoke
         \/ \E i \in DOMAIN conn : Accept(i)
  PROVE  Facts'
<1>1. UNCHANGED <<event, slot, record, told, attempts, worker>>
  BY DEF BuildListener, PublishListener, UseListener, Bind, PhoneStarts, Expire, ReadEnds,
         PhoneStops, Revoke, Accept, hostVars
<1>2. PICK D : ConnectionsGo({}, D) /\ D \cap ResponseLine = {}
  <2>1. CASE BuildListener \/ PublishListener \/ UseListener \/ Bind \/ PhoneStarts \/ Expire
    <3>1. Quiet
      BY <2>1, LoopTyped, NoConnectionMoves
    <3> QED
      BY <3>1 DEF Quiet
  <2>2. CASE ReadEnds \/ PhoneStops \/ Revoke
    BY <2>2, ServingEndsTyped DEF Quiet
  <2>3. ASSUME NEW i \in DOMAIN conn, Accept(i)
        PROVE  ConnectionsGo({}, {ServerHello(i)}) /\ {ServerHello(i)} \cap ResponseLine = {}
    <3>1. ConnectionsGo({}, {ServerHello(i)})
      BY <2>3, AcceptTyped
    <3>2. {ServerHello(i)} \cap ResponseLine = {}
      BY DEF ServerHello, ResponseLine
    <3> QED
      BY <3>1, <3>2
  <2> QED
    BY <2>1, <2>2, <2>3
<1>3. phone'.at \in {"handle", "reply"} =>
        /\ phone.at = phone'.at /\ phone'.frame = phone.frame
        /\ phone'.code = phone.code /\ phone'.event = phone.event
  BY PhoneQuiet
<1>4. worker' # Idle => worker # Idle /\ worker'.request = worker.request
  BY <1>1
<1>5. {} \cap RequestLine = {}
  OBVIOUS
<1>6. NothingNew
  BY <1>2, <1>3, <1>4, <1>5, QuietStep
<1> QED
  BY <1>1, <1>6, FactsGoOn

\* Every step keeps what is stored, known and told.
LEMMA NextFacts ==
  ASSUME Typed, Related, Facts, [Next]_vars
  PROVE  Facts'
<1>1. CASE \/ Connect \/ Connected \/ ConnectFails \/ WorkerFails \/ ChannelCloses \/ HostStops
           \/ DeadlineExceeded
  BY <1>1, ServerFacts
<1>2. CASE \/ BuildListener \/ PublishListener \/ UseListener \/ Bind \/ PhoneStarts \/ Expire
           \/ ReadEnds \/ PhoneStops \/ Revoke
           \/ \E i \in DOMAIN conn : Accept(i)
  BY <1>2, LoopFacts
<1>3. CASE WorkerSends \/ ReadFrame \/ WriteFrame
  <2>1. UNCHANGED <<event, slot, record, told, attempts>>
    BY <1>3 DEF WorkerSends, ReadFrame, WriteFrame, hostVars, phoneVars
  <2> QED
    BY <1>3, <2>1, MovingStep, FactsGoOn
<1>4. CASE WorkerReceives
  <2>1. /\ UNCHANGED <<event, slot, attempts, phone>> /\ worker' = Idle
    BY <1>4 DEF WorkerReceives, phoneVars
  <2>2. ConnectionsGo({}, {})
    BY <1>4, WorkerReceivesMoves DEF Quiet
  <2>3. NothingNew
    BY <2>1, <2>2, QuietStep
  <2>4. Stored' /\ StoredStays
    BY <2>1, NothingStored DEF Facts
  <2>5. attempts \in Nat /\ attempts' \in Nat /\ attempts <= attempts'
    BY <2>1 DEF Typed, HostTyped
  <2>6. Known'
    BY <2>3, <2>4, <2>5, KnownGoesOn DEF Facts
  <2>7. ToldIsDurable'
    BY <1>4, ReceivedTold DEF Facts
  <2> QED
    BY <2>4, <2>6, <2>7 DEF Facts
<1>5. CASE Handle
  <2>1. Stored' /\ StoredStays
    BY <1>5, HandleStores DEF Facts
  <2>2. Known'
    BY <1>5, HandleKnown DEF Facts
  <2>3. UNCHANGED <<record, told>>
    BY <1>5 DEF Handle, hostVars
  <2>4. ToldIsDurable'
    BY <2>1, <2>3, ToldGoesOn DEF Facts
  <2> QED
    BY <2>1, <2>2, <2>4 DEF Facts
<1>6. ASSUME NEW c \in Calls, Capture(c)
      PROVE  Facts'
  <2>1. UNCHANGED <<event, slot, record, told>>
    BY <1>6 DEF Capture, phoneVars
  <2>2. Stored' /\ StoredStays
    BY <2>1, NothingStored DEF Facts
  <2>3. ToldIsDurable'
    BY <2>1, <2>2, ToldGoesOn DEF Facts
  <2>4. Known'
    BY <1>6, CaptureKnown DEF Facts
  <2> QED
    BY <2>2, <2>3, <2>4 DEF Facts
<1>7. ASSUME NEW c \in Calls, Replay(c)
      PROVE  Facts'
  <2>1. UNCHANGED <<event, slot, attempts, phone, conn, worker>>
    BY <1>7 DEF Replay, phoneVars
  <2>2. Stored' /\ StoredStays
    BY <2>1, NothingStored DEF Facts
  <2>3. ToldIsDurable'
    BY <1>7, ReplayTold DEF Facts
  <2>4. ConnectionsGo({}, {})
    BY <2>1, NoConnectionMoves DEF Quiet
  <2>5. NothingNew
    BY <2>1, <2>4, QuietStep
  <2>6. attempts \in Nat /\ attempts' \in Nat /\ attempts <= attempts'
    BY <2>1 DEF Typed, HostTyped
  <2>7. Known'
    BY <2>2, <2>5, <2>6, KnownGoesOn DEF Facts
  <2> QED
    BY <2>2, <2>3, <2>7 DEF Facts
<1>8. ASSUME (\E i \in DOMAIN conn : Break(i)) \/ UNCHANGED vars
      PROVE  Facts'
  <2>1. UNCHANGED <<event, slot, record, told, attempts, phone, worker>>
    BY <1>8 DEF Break, vars, hostVars, phoneVars
  <2>2. ConnectionsGo({}, {})
    <3>1. ASSUME NEW i \in DOMAIN conn, Break(i) PROVE ConnectionsGo({}, {})
      BY <3>1, BreakChanges
    <3>2. CASE UNCHANGED vars
      BY <3>2, NoConnectionMoves DEF Quiet, vars
    <3> QED
      BY <1>8, <3>1, <3>2
  <2>3. NothingNew
    BY <2>1, <2>2, QuietStep
  <2> QED
    BY <2>1, <2>3, FactsGoOn
<1> QED
  BY <1>1, <1>2, <1>3, <1>4, <1>5, <1>6, <1>7, <1>8 DEF Next, HostStep, PhoneStep

\* At first nothing is stored, asked or told.
LEMMA FactsAtFirst ==
  ASSUME Init
  PROVE  Facts
<1>1. Up = {} /\ Down = {}
  BY DEF Init, Up, Down
<1>2. worker = Idle /\ phone.at = "loop"
  BY DEF Init, At
<1>3. Known
  BY <1>1, <1>2 DEF Known, NumbersKnown, AnswersTrue, Carries, Answered
<1>4. Stored
  BY DEF Init, Stored, OneEventPerSlot
<1>5. ToldIsDurable
  BY DEF Init, ToldIsDurable
<1> QED
  BY <1>3, <1>4, <1>5 DEF Facts

-----------------------------------------------------------------------------
(* The connection that is served too late.                                 *)

\* The loop has a listener that may yet accept a connection.
MayAccept == phone.at \in {"built", "published", "bind", "accept"} /\ phone.listener = "open"

\* No connection was served too late while the pairing stands, nor as long as the
\* listener of the loop may accept; so the one that is, is the first.
ServedLate ==
  /\ pairing # "revoked" => \A i \in DOMAIN conn : conn[i].late = FALSE
  /\ MayAccept => \A i \in DOMAIN conn : conn[i].late = FALSE
  /\ \A i, j \in DOMAIN conn : conn[i].late = TRUE /\ conn[j].late = TRUE => i = j

\* Steps that mark no connection.
LEMMA LateGoesOn ==
  ASSUME ServedLate, conn' \in Seq(Connection),
         \A j \in DOMAIN conn' : conn'[j].late = TRUE => j \in DOMAIN conn /\ conn[j].late = TRUE,
         pairing = "revoked" => pairing' = "revoked",
         MayAccept' => MayAccept \/ pairing = "active"
  PROVE  ServedLate'
<1>1. \A j \in DOMAIN conn' : conn'[j].late \in BOOLEAN
  <2>1. \A j \in DOMAIN conn' : conn'[j] \in Connection
    OBVIOUS
  <2> QED
    BY <2>1 DEF Connection
<1> QED
  BY <1>1 DEF ServedLate

\* Every step of the rest of the system marks no connection.
LEMMA OthersLate ==
  ASSUME Typed, Related, Typed', ServedLate,
         \/ HostStep \/ (\E c \in Calls : Capture(c) \/ Replay(c))
         \/ Expire \/ PhoneStops \/ ReadFrame \/ ReadEnds \/ Handle \/ WriteFrame
         \/ (\E i \in DOMAIN conn : Break(i)) \/ UNCHANGED vars
  PROVE  ServedLate'
<1>1. \A j \in DOMAIN conn' : conn'[j].late = TRUE => j \in DOMAIN conn /\ conn[j].late = TRUE
  <2>1. CASE Connect
    BY <2>1, ConnectChanges DEF LateKept
  <2>2. CASE Connected \/ WorkerReceives \/ ReadFrame
    BY <2>2, ConnectedMoves, WorkerReceivesMoves, ReadFrameMoves DEF Quiet, LateKept
  <2>3. CASE ConnectFails \/ WorkerFails \/ ChannelCloses \/ HostStops
    BY <2>3, HostEndMoves DEF LateKept
  <2>4. CASE WorkerSends
    BY <2>4, WorkerSendsMoves DEF LateKept
  <2>5. CASE WriteFrame
    BY <2>5, WriteFrameMoves DEF LateKept
  <2>6. CASE ReadEnds \/ PhoneStops
    BY <2>6, ServingEndsTyped DEF Quiet, LateKept
  <2>7. CASE \/ DeadlineExceeded \/ Expire \/ Handle \/ UNCHANGED vars
             \/ \E c \in Calls : Capture(c) \/ Replay(c)
    BY <2>7 DEF DeadlineExceeded, Expire, Handle, vars, Capture, Replay
  <2>8. ASSUME NEW i \in DOMAIN conn, Break(i)
        PROVE  \A j \in DOMAIN conn' : conn'[j].late = TRUE => j \in DOMAIN conn /\ conn[j].late = TRUE
    BY <2>8, BreakChanges DEF LateKept
  <2> QED
    BY <2>1, <2>2, <2>3, <2>4, <2>5, <2>6, <2>7, <2>8 DEF HostStep
<1>2. pairing = "revoked" => pairing' = "revoked"
  BY DEF HostStep, Connect, Connected, ConnectFails, WorkerSends, WorkerFails, WorkerReceives,
         DeadlineExceeded, ChannelCloses, HostStops, Capture, Replay, Expire, PhoneStops,
         ReadFrame, ReadEnds, Handle, WriteFrame, Break, vars, phoneVars
<1>3. MayAccept' => MayAccept
  <2>1. phone \in Phone
    BY DEF Typed, PhoneTyped
  <2>2. CASE \/ HostStep \/ Expire \/ UNCHANGED vars \/ (\E i \in DOMAIN conn : Break(i))
             \/ \E c \in Calls : Capture(c) \/ Replay(c)
    <3>1. phone' = phone
      BY <2>2 DEF HostStep, Connect, Connected, ConnectFails, WorkerSends, WorkerFails,
                  WorkerReceives, DeadlineExceeded, ChannelCloses, HostStops, Capture, Replay,
                  Expire, Break, vars, phoneVars
    <3> QED
      BY <3>1 DEF MayAccept
  <2>3. CASE PhoneStops \/ ReadEnds
    <3>1. phone'.at \in {"down", "loop"}
      BY <2>3 DEF PhoneStops, ReadEnds, At
    <3> QED
      BY <3>1 DEF MayAccept
  <2>4. CASE ReadFrame
    <3>1. phone'.at = "handle"
      BY <2>1, <2>4 DEF ReadFrame, Phone
    <3> QED
      BY <3>1 DEF MayAccept
  <2>5. CASE Handle
    <3>1. phone'.at = "reply"
      BY <2>1, <2>5 DEF Handle, Replied, Rollback, Phone
    <3> QED
      BY <3>1 DEF MayAccept
  <2>6. CASE WriteFrame
    <3>1. \/ phone' = [at |-> "serve", listener |-> phone.listener, conn |-> phone.conn,
                       expected |-> phone.expected + 1, frame |-> "none", code |-> "none",
                       event |-> 0]
          \/ phone' = At("loop", "none")
      BY <2>6 DEF WriteFrame, At
    <3>2. phone'.at \in {"serve", "loop"}
      BY <3>1 DEF At
    <3> QED
      BY <3>2 DEF MayAccept
  <2> QED
    BY <2>2, <2>3, <2>4, <2>5, <2>6
<1> QED
  BY <1>1, <1>2, <1>3, LateGoesOn DEF Typed

\* The loop of the phone as far as it accepts: a listener is made only while the
\* pairing stands, and the first connection a revoked phone accepts is its last.
LEMMA LoopLate ==
  ASSUME Typed, Related, Typed', ServedLate,
         \/ BuildListener \/ PublishListener \/ UseListener \/ Bind \/ PhoneStarts \/ Revoke
         \/ \E i \in DOMAIN conn : Accept(i)
  PROVE  ServedLate'
<1>1. phone \in Phone
  BY DEF Typed, PhoneTyped
<1>2. CASE BuildListener \/ PublishListener \/ UseListener \/ Bind \/ PhoneStarts
  <2>1. UNCHANGED <<pairing, conn>>
    BY <1>2 DEF BuildListener, PublishListener, UseListener, Bind, PhoneStarts
  <2>2. MayAccept' => MayAccept \/ pairing = "active"
    <3>1. CASE BuildListener
      BY <3>1 DEF BuildListener, MayServe, MayAccept, At
    <3>2. CASE PublishListener \/ UseListener \/ Bind
      BY <1>1, <3>2 DEF PublishListener, UseListener, Bind, MayAccept, At, Phone
    <3>3. CASE PhoneStarts
      BY <3>3 DEF PhoneStarts, MayAccept, At
    <3> QED
      BY <1>2, <3>1, <3>2, <3>3
  <2> QED
    BY <2>1, <2>2, LateGoesOn DEF Typed
<1>3. CASE Revoke
  <2>1. LateKept /\ DOMAIN conn' = DOMAIN conn
    BY <1>3, ServingEndsTyped DEF Quiet
  <2>2. pairing = "active"
    BY <1>3 DEF Revoke
  <2> QED
    BY <2>1, <2>2, LateGoesOn DEF Typed, LateKept
<1>4. ASSUME NEW i \in DOMAIN conn, Accept(i)
      PROVE  ServedLate'
  <2>1. pairing' = pairing /\ phone.at = "accept"
    BY <1>4 DEF Accept
  <2>2. CASE HelloFits(Head(conn[i].up), phone.listener)
    <3>1. MayAccept
      BY <2>1, <2>2 DEF MayAccept, HelloFits
    <3>2. /\ DOMAIN conn' = DOMAIN conn /\ \A j \in DOMAIN conn \ {i} : conn'[j] = conn[j]
          /\ conn'[i].late = (pairing = "revoked")
      BY <1>4, <2>2, AcceptChanges
    <3>3. \A j \in DOMAIN conn : conn[j].late = FALSE
      BY <3>1 DEF ServedLate
    <3>4. ~MayAccept'
      <4>1. phone'.at = "serve"
        BY <1>1, <1>4, <2>2 DEF Accept, Phone
      <4> QED
        BY <4>1 DEF MayAccept
    <3>5. \A j \in DOMAIN conn \ {i} : conn'[j].late = FALSE
      BY <3>2, <3>3
    <3>6. pairing' # "revoked" => \A j \in DOMAIN conn' : conn'[j].late = FALSE
      BY <2>1, <3>2, <3>5
    <3> QED
      BY <3>2, <3>4, <3>5, <3>6 DEF ServedLate
  <2>3. CASE ~HelloFits(Head(conn[i].up), phone.listener)
    <3>1. PhoneEnds /\ phone'.at = "loop"
      <4>1. PhoneEnds /\ phone' = At("loop", "none")
        BY <1>4, <2>3 DEF Accept
      <4> QED
        BY <4>1 DEF At
    <3>2. LateKept /\ DOMAIN conn' = DOMAIN conn
      BY <3>1, PhoneEndsChanges DEF Typed
    <3>3. ~MayAccept'
      BY <3>1 DEF MayAccept
    <3> QED
      BY <2>1, <3>2, <3>3, LateGoesOn DEF Typed, LateKept
  <2> QED
    BY <2>2, <2>3
<1> QED
  BY <1>2, <1>3, <1>4

-----------------------------------------------------------------------------
(* Theorems.                                                               *)

\* The inductive invariant: types, what server and phone know of their connections,
\* what is stored, known and told, and what was served too late.
ChannelIsSound == Typed /\ Related /\ Facts /\ ServedLate

\* No step of server, phone, network or user breaks the invariant.
THEOREM ChannelSoundness == Spec => []ChannelIsSound
<1>1. Init => ChannelIsSound
  <2> SUFFICES ASSUME Init PROVE ChannelIsSound
    OBVIOUS
  <2>1. ServedLate
    BY DEF Init, ServedLate, MayAccept, At
  <2> QED
    BY <2>1, TypedAtFirst, FactsAtFirst DEF ChannelIsSound
<1>2. ChannelIsSound /\ [Next]_vars => ChannelIsSound'
  <2> SUFFICES ASSUME ChannelIsSound, [Next]_vars PROVE ChannelIsSound'
    OBVIOUS
  <2>1. Typed /\ Related /\ Facts /\ ServedLate
    BY DEF ChannelIsSound
  <2>2. Typed' /\ Related'
    BY <2>1, NextTyped
  <2>3. Facts'
    BY <2>1, NextFacts
  <2>4. CASE \/ HostStep \/ (\E c \in Calls : Capture(c) \/ Replay(c))
             \/ Expire \/ PhoneStops \/ ReadFrame \/ ReadEnds \/ Handle \/ WriteFrame
             \/ (\E i \in DOMAIN conn : Break(i)) \/ UNCHANGED vars
    <3>1. ServedLate'
      BY <2>1, <2>2, <2>4, OthersLate
    <3> QED
      BY <2>2, <2>3, <3>1 DEF ChannelIsSound
  <2>5. CASE \/ BuildListener \/ PublishListener \/ UseListener \/ Bind \/ PhoneStarts \/ Revoke
             \/ \E i \in DOMAIN conn : Accept(i)
    <3>1. ServedLate'
      BY <2>1, <2>2, <2>5, LoopLate
    <3> QED
      BY <2>2, <2>3, <3>1 DEF ChannelIsSound
  <2> QED
    BY <2>4, <2>5 DEF Next, PhoneStep
<1> QED
  BY <1>1, <1>2, PTL DEF Spec

\* Every variable has its type: what a server that is not up cannot have (an open
\* channel, a thread, a capture), and the record of a slot that names an event.
THEOREM TypesHold == Spec => []TypeOK
<1>1. ChannelIsSound => TypeOK
  <2> SUFFICES ASSUME ChannelIsSound PROVE TypeOK
    OBVIOUS
  <2>1. Typed /\ HostTyped /\ PhoneTyped /\ HostRelated /\ PhoneRelated /\ Stored
    BY DEF ChannelIsSound, Typed, Related, Facts
  <2>2. channel.open \in BOOLEAN
    BY <2>1 DEF HostTyped
  <2>3. host # "up" => ~channel.open /\ worker = Idle /\ call = NoCall
    BY <2>1 DEF HostRelated
  <2>4. call # NoCall => worker.at # "idle" /\ worker.request = call
    <3>1. call # NoCall => worker \in Worker /\ worker.request = call
      BY <2>1 DEF HostRelated, HostTyped
    <3> QED
      BY <3>1 DEF Worker
  <2>5. channel.open => channel.conn \in DOMAIN conn /\ conn[channel.conn].host
    BY <2>1, <2>2, <2>3 DEF HostRelated
  <2>6. phone.at \in Places
    BY <2>1 DEF PhoneTyped, Phone
  <2>7. phone.conn \in 0..Len(conn)
    BY <2>1 DEF PhoneRelated
  <2>8. /\ host \in {"down", "connecting", "up"} /\ store \in {"open", "poisoned"}
        /\ attempts \in 0..MaxAttempts /\ faults \in 0..MaxFaults
    BY <2>1 DEF Typed, HostTyped
  <2>9. \A k \in Keys : slot[k] # NoSlot => slot[k].event \in DOMAIN event
    BY <2>1 DEF Stored
  <2> QED
    BY <2>3, <2>4, <2>5, <2>6, <2>7, <2>8, <2>9 DEF TypeOK, Places
<1> QED
  BY <1>1, ChannelSoundness, PTL

\* An event and the record of its slot are stored together: a slot has one event,
\* however often the call was sent, and however the connections of its attempts
\* ended.
THEOREM SlotsHaveOneEvent == Spec => []OneEventPerSlot
<1>1. ChannelIsSound => OneEventPerSlot
  BY DEF ChannelIsSound, Facts, Stored
<1> QED
  BY <1>1, ChannelSoundness, PTL

\* Whatever the server has recorded or told, the phone has made durable with that
\* text: over any number of connections, breaks and restarts of either side.
THEOREM AnswersAreDurable == Spec => []ToldIsDurable
<1>1. ChannelIsSound => ToldIsDurable
  BY DEF ChannelIsSound, Facts
<1> QED
  BY <1>1, ChannelSoundness, PTL

\* After its pairing is revoked the phone serves one connection at the most.
THEOREM RevocationLeavesOne == Spec => []RevokedServesAtMostOne
<1>1. ChannelIsSound => RevokedServesAtMostOne
  <2> SUFFICES ASSUME ChannelIsSound PROVE RevokedServesAtMostOne
    OBVIOUS
  <2> DEFINE late == {i \in DOMAIN conn : conn[i].late}
  <2>1. \A i \in DOMAIN conn : conn[i].late \in BOOLEAN
    <3>1. \A i \in DOMAIN conn : conn[i] \in Connection
      BY DEF ChannelIsSound, Typed
    <3> QED
      BY <3>1 DEF Connection
  <2>2. \A i, j \in late : i = j
    BY <2>1 DEF ChannelIsSound, ServedLate
  <2>3. Cardinality(late) <= 1
    <3> HIDE DEF late
    <3>1. CASE late = {}
      BY <3>1, FS_EmptySet
    <3>2. CASE late # {}
      <4>1. PICK i \in late : TRUE
        BY <3>2
      <4>2. late = {i}
        BY <2>2, <4>1
      <4>3. Cardinality({i}) = 1
        BY FS_Singleton
      <4> QED
        BY <4>2, <4>3
    <3> QED
      BY <3>1, <3>2
  <2> QED
    BY <2>3 DEF RevokedServesAtMostOne
<1> QED
  BY <1>1, ChannelSoundness, PTL
-----------------------------------------------------------------------------
(* What is done lasts.                                                     *)

\* Few steps store, record or tell anything, or begin a capture.
LEMMA StepsThatTell ==
  ASSUME [Next]_vars
  PROVE  \/ Handle \/ WorkerReceives \/ \E c \in Calls : Replay(c) \/ Capture(c)
         \/ UNCHANGED <<event, slot, record, told>> /\ call' \in {call, NoCall}
<1> DEFINE Nothing == UNCHANGED <<event, slot, record, told>> /\ call' \in {call, NoCall}
<1>1. \/ Connect \/ Connected \/ ConnectFails \/ WorkerSends \/ WorkerFails
      \/ DeadlineExceeded \/ ChannelCloses \/ HostStops
      => Nothing
  BY DEF Connect, Connected, ConnectFails, WorkerSends, WorkerFails, DeadlineExceeded,
         ChannelCloses, HostStops, GiveUp, phoneVars
<1>2. BuildListener \/ PublishListener \/ UseListener \/ Bind => Nothing
  BY DEF BuildListener, PublishListener, UseListener, Bind, hostVars
<1>3. ReadFrame \/ ReadEnds \/ PhoneStarts \/ Expire => Nothing
  BY DEF ReadFrame, ReadEnds, PhoneStarts, Expire, hostVars
<1>4. WriteFrame => Nothing
  BY DEF WriteFrame, hostVars
<1>5. Revoke => Nothing
  BY DEF Revoke, hostVars
<1>6. PhoneStops \/ UNCHANGED vars => Nothing
  BY DEF PhoneStops, vars, hostVars, phoneVars
<1>7. ASSUME NEW i, Accept(i) \/ Break(i) PROVE Nothing
  BY <1>7 DEF Accept, Break, hostVars, phoneVars
<1> HIDE DEF Nothing
<1>8. \/ Handle \/ WorkerReceives \/ \E c \in Calls : Replay(c) \/ Capture(c)
      \/ Nothing
  BY <1>1, <1>2, <1>3, <1>4, <1>5, <1>6, <1>7 DEF Next, HostStep, PhoneStep
<1> QED
  BY <1>8 DEF Nothing

\* A capture in progress is under a key that has no record.
CallIsNew == call # NoCall => record[call.key] = NoRecord

\* Records and answers of the server.
ServerKeeps ==
  \A k \in Keys : /\ record[k] # NoRecord => record'[k] = record[k]
                  /\ told[k] \subseteq told'[k]

LEMMA ServerGoesOn ==
  ASSUME Typed, Related, CallIsNew, [Next]_vars
  PROVE  CallIsNew' /\ ServerKeeps
<1>1. DOMAIN record = Keys /\ DOMAIN told = Keys
  BY DEF Typed, HostTyped
<1>2. ASSUME UNCHANGED <<record, told>>, call' \in {call, NoCall} PROVE CallIsNew' /\ ServerKeeps
  BY <1>2 DEF CallIsNew, ServerKeeps
<1>3. CASE Handle
  BY <1>2, <1>3 DEF Handle, hostVars
<1>4. ASSUME NEW c \in Calls, Capture(c) PROVE CallIsNew' /\ ServerKeeps
  <2>1. record[c.key] = NoRecord /\ call'.key = c.key /\ UNCHANGED <<record, told>>
    BY <1>4 DEF Capture, CreateEvent
  <2> QED
    BY <2>1 DEF CallIsNew, ServerKeeps
<1>5. ASSUME NEW c \in Calls, Replay(c) PROVE CallIsNew' /\ ServerKeeps
  <2>1. UNCHANGED <<call, record>>
    BY <1>5 DEF Replay
  <2>2. PICK answer : told' = [told EXCEPT ![c.key] = told[c.key] \cup {answer}]
    BY <1>5 DEF Replay, Told
  <2> QED
    BY <1>1, <2>1, <2>2 DEF CallIsNew, ServerKeeps
<1>6. CASE WorkerReceives
  <2>1. UNCHANGED <<call, record, told>> \/ \E frame : Outcome(frame) /\ call # NoCall
    <3>1. worker \in Worker /\ worker # Idle
      BY <1>6, WorkerReceivesMoves DEF Worker, Idle
    <3>2. worker.abandoned \in BOOLEAN /\ worker.abandoned = (call = NoCall)
      BY <3>1 DEF Worker, Related, HostRelated
    <3> QED
      BY <1>6, <3>2 DEF WorkerReceives
  <2>2. CASE UNCHANGED <<call, record, told>>
    BY <1>2, <2>2
  <2>3. ASSUME NEW frame, Outcome(frame), call # NoCall PROVE CallIsNew' /\ ServerKeeps
    <3>1. record[call.key] = NoRecord /\ call' = NoCall
      BY <2>3 DEF CallIsNew, Outcome, GiveUp
    <3>2. \A k \in Keys : k # call.key => record'[k] = record[k]
      BY <1>1, <2>3 DEF Outcome, Finish
    <3>3. told' = told \/ \E answer : told' = [told EXCEPT ![call.key] = told[call.key] \cup {answer}]
      BY <2>3 DEF Outcome, Finish, Told
    <3>4. \A k \in Keys : told[k] \subseteq told'[k]
      BY <1>1, <3>3
    <3> QED
      BY <3>1, <3>2, <3>4 DEF CallIsNew, ServerKeeps
  <2> QED
    BY <2>1, <2>2, <2>3
<1> QED
  BY <1>2, <1>3, <1>4, <1>5, <1>6, StepsThatTell

\* What is done lasts, whatever connection breaks and whoever stops: no slot and no event
\* of the phone, no record and no answer of the server is ever changed.
DoneLasts == [][StoredStays /\ ServerKeeps]_vars

THEOREM WhatIsDoneLasts == Spec => DoneLasts
<1>1. Init => CallIsNew
  BY DEF Init, CallIsNew
<1>2. ChannelIsSound /\ CallIsNew /\ [Next]_vars => CallIsNew'
  BY ServerGoesOn DEF ChannelIsSound
<1>3. ChannelIsSound /\ CallIsNew /\ [Next]_vars => [StoredStays /\ ServerKeeps]_vars
  <2> SUFFICES ASSUME ChannelIsSound, CallIsNew, [Next]_vars PROVE StoredStays /\ ServerKeeps
    OBVIOUS
  <2>1. ServerKeeps
    BY ServerGoesOn DEF ChannelIsSound
  <2>2. CASE Handle
    BY <2>1, <2>2, HandleStores DEF ChannelIsSound, Facts
  <2>3. CASE ~Handle
    <3>1. UNCHANGED <<event, slot>>
      BY <2>3, StepsThatTell DEF WorkerReceives, Replay, Capture, phoneVars
    <3> QED
      BY <2>1, <3>1, NothingStored DEF ChannelIsSound, Facts
  <2> QED
    BY <2>2, <2>3
<1> QED
  BY <1>1, <1>2, <1>3, ChannelSoundness, PTL DEF Spec, DoneLasts

-----------------------------------------------------------------------------
(* What agents are promised.                                               *)

\* How the promise is read off the slots of the phone.
Reading ==
  /\ \A k \in Keys : /\ slot[k] = NoSlot => MadeUnder(k) = {}
                     /\ slot[k] # NoSlot =>
                          MadeUnder(k) = {<<slot[k].event, event[slot[k].event].text>>}
                     /\ AnsweredUnder(k) \subseteq MadeUnder(k)
  /\ \A j, k \in Keys : \A x \in MadeUnder(j), y \in MadeUnder(k) : x = y => j = k

LEMMA ReadingHolds ==
  ASSUME ChannelIsSound
  PROVE  Reading
<1>1. Stored /\ ToldIsDurable
  BY DEF ChannelIsSound, Facts
<1>2. ASSUME NEW k \in Keys, NEW x
      PROVE  x \in MadeUnder(k) <=>
               slot[k] # NoSlot /\ x = <<slot[k].event, event[slot[k].event].text>>
  <2>1. x \in MadeUnder(k) <=>
          \E e \in DOMAIN event : event[e].key = k /\ x = <<e, event[e].text>>
    BY DEF MadeUnder
  <2>2. \A e \in DOMAIN event : event[e].key = k => slot[k] # NoSlot /\ slot[k].event = e
    BY <1>1 DEF Stored, OneEventPerSlot
  <2>3. slot[k] # NoSlot => slot[k].event \in DOMAIN event /\ event[slot[k].event].key = k
    BY <1>1 DEF Stored, OneEventPerSlot
  <2> QED
    BY <2>1, <2>2, <2>3
<1>3. ASSUME NEW k \in Keys, NEW x \in AnsweredUnder(k) PROVE x \in MadeUnder(k)
  <2>1. PICK a \in told[k] : a.code = "ok" /\ x = <<a.event, a.text>>
    BY <1>3 DEF AnsweredUnder
  <2>2. slot[k] # NoSlot /\ slot[k].event = a.event /\ event[a.event].text = a.text
    BY <1>1, <2>1 DEF ToldIsDurable, Durable
  <2> QED
    BY <1>2, <2>1, <2>2
<1>4. ASSUME NEW j \in Keys, NEW k \in Keys, NEW x, x \in MadeUnder(j), x \in MadeUnder(k)
      PROVE  j = k
  <2>1. slot[j] # NoSlot /\ slot[k] # NoSlot /\ slot[j].event = slot[k].event
    BY <1>2, <1>4
  <2>2. event[slot[j].event].key = j /\ event[slot[k].event].key = k
    BY <1>1, <2>1 DEF Stored, OneEventPerSlot
  <2> QED
    BY <2>1, <2>2
<1> QED
  BY <1>2, <1>3, <1>4 DEF Reading

LEMMA PromiseStutters ==
  ASSUME \A k \in Keys : MadeUnder(k)' = MadeUnder(k) /\ AnsweredUnder(k)' = AnsweredUnder(k)
  PROVE  [Promise!PromiseNext]_Promise!cvars
<1>1. [k \in Keys |-> MadeUnder(k)]' = [k \in Keys |-> MadeUnder(k)]
  OBVIOUS
<1>2. [k \in Keys |-> AnsweredUnder(k)]' = [k \in Keys |-> AnsweredUnder(k)]
  OBVIOUS
<1>3. UNCHANGED Promise!cvars
  BY <1>1, <1>2 DEF Promise!cvars
<1> QED
  BY <1>3

\* The phone stores an event under a slot that has none.
LEMMA HandleIsPromised ==
  ASSUME ChannelIsSound, Reading, Reading', Handle
  PROVE  [Promise!PromiseNext]_Promise!cvars
<1>1. Typed /\ Related /\ Stored /\ StoredStays
  BY HandleStores DEF ChannelIsSound, Facts
<1>2. PICK k : k = phone.frame.request.key
  OBVIOUS
<1>3. \A j \in Keys : AnsweredUnder(j)' = AnsweredUnder(j)
  BY DEF Handle, hostVars, AnsweredUnder
<1>4. CASE UNCHANGED event
  <2>1. \A j \in Keys : MadeUnder(j)' = MadeUnder(j)
    BY <1>4 DEF MadeUnder
  <2> QED
    BY <1>3, <2>1, PromiseStutters
<1>5. CASE event' # event
  <2>1. /\ k \in Keys /\ slot[k] = NoSlot
        /\ \E s : slot' = [slot EXCEPT ![k] = s] /\ s # NoSlot
    <3>1. phone.frame.request \in Request
      BY <1>1 DEF Handle, Related, PhoneRelated, RequestLine
    <3> QED
      BY <1>2, <1>5, <3>1, SlotIsNew DEF Handle, Applies, Request
  <2>2. slot'[k] # NoSlot /\ \A j \in Keys : j # k => slot'[j] = slot[j]
    BY <1>1, <2>1 DEF Typed, PhoneTyped
  <2>3. ASSUME NEW j \in Keys, j # k PROVE MadeUnder(j)' = MadeUnder(j)
    <3>1. slot'[j] = slot[j]
      BY <2>2, <2>3
    <3>2. CASE slot[j] = NoSlot
      BY <3>1, <3>2 DEF Reading
    <3>3. CASE slot[j] # NoSlot
      <4>1. PICK e : e = slot[j].event
        OBVIOUS
      <4>2. event'[e] = event[e]
        BY <1>1, <3>3, <4>1 DEF Stored, StoredStays
      <4>3. MadeUnder(j) = {<<e, event[e].text>>}
        BY <3>3, <4>1 DEF Reading
      <4>4. MadeUnder(j)' = {<<e, event'[e].text>>}
        BY <3>1, <3>3, <4>1 DEF Reading
      <4> QED
        BY <4>2, <4>3, <4>4
    <3> QED
      BY <3>2, <3>3
  <2>4. MadeUnder(k) = {}
    BY <2>1 DEF Reading
  <2>5. PICK thing : MadeUnder(k)' = {thing}
    BY <2>1, <2>2 DEF Reading
  <2>6. \A j \in Keys : thing \notin MadeUnder(j)
    <3>1. ASSUME NEW j \in Keys, j # k PROVE thing \notin MadeUnder(j)
      <4>1. \A x \in MadeUnder(j)', y \in MadeUnder(k)' : x = y => j = k
        BY <2>1 DEF Reading
      <4> QED
        BY <2>3, <2>5, <3>1, <4>1
    <3> QED
      BY <2>4, <3>1
  <2>7. [j \in Keys |-> MadeUnder(j)]' = [[j \in Keys |-> MadeUnder(j)] EXCEPT ![k] = {thing}]
    BY <2>1, <2>3, <2>5
  <2>8. [j \in Keys |-> AnsweredUnder(j)]' = [j \in Keys |-> AnsweredUnder(j)]
    BY <1>3
  <2>9. thing \in [j \in Keys |-> MadeUnder(j)]'[k]
    BY <2>1, <2>7
  <2>10. Promise!Make(k)
    BY <2>1, <2>4, <2>6, <2>7, <2>8, <2>9 DEF Promise!Make
  <2> QED
    BY <2>1, <2>10 DEF Promise!PromiseNext
<1> QED
  BY <1>4, <1>5

\* One agent is told something.
LEMMA ToldIsPromised ==
  ASSUME Typed, Reading, Reading', UNCHANGED <<event, slot>>, NEW k, NEW answer,
         told' = [told EXCEPT ![k] = @ \cup {answer}]
  PROVE  [Promise!PromiseNext]_Promise!cvars
<1>1. DOMAIN told = Keys
  BY DEF Typed, HostTyped
<1>2. \A j \in Keys : MadeUnder(j)' = MadeUnder(j)
  BY DEF MadeUnder
<1>3. \A j \in Keys : j # k => told'[j] = told[j]
  BY <1>1
<1>4. \A j \in Keys : j # k => AnsweredUnder(j)' = AnsweredUnder(j)
  BY <1>3 DEF AnsweredUnder
<1>5. CASE \A j \in Keys : AnsweredUnder(j)' = AnsweredUnder(j)
  BY <1>2, <1>5, PromiseStutters
<1>6. CASE k \in Keys /\ AnsweredUnder(k)' # AnsweredUnder(k)
  <2>1. told[k] \subseteq told'[k]
    BY <1>1, <1>6
  <2>2. AnsweredUnder(k) \subseteq AnsweredUnder(k)'
    BY <2>1 DEF AnsweredUnder
  <2>3. AnsweredUnder(k)' \subseteq MadeUnder(k) /\ AnsweredUnder(k)' # {}
    <3>1. AnsweredUnder(k)' \subseteq MadeUnder(k)'
      BY <1>6 DEF Reading
    <3> QED
      BY <1>2, <1>6, <2>2, <3>1
  <2>4. AnsweredUnder(k)' = MadeUnder(k)
    <3>1. MadeUnder(k) # {}
      BY <2>3
    <3>2. \E x : MadeUnder(k) = {x}
      BY <1>6, <3>1 DEF Reading
    <3> QED
      BY <2>3, <3>2
  <2>5. [j \in Keys |-> MadeUnder(j)]' = [j \in Keys |-> MadeUnder(j)]
    BY <1>2
  <2>6. [j \in Keys |-> AnsweredUnder(j)]'
          = [[j \in Keys |-> AnsweredUnder(j)] EXCEPT ![k] = MadeUnder(k)]
    BY <1>4, <1>6, <2>4
  <2>7. MadeUnder(k) # {}
    BY <2>3
  <2>8. Promise!Answer(k)
    BY <1>6, <2>5, <2>6, <2>7 DEF Promise!Answer
  <2> QED
    BY <1>6, <2>8 DEF Promise!PromiseNext
<1> QED
  BY <1>4, <1>5, <1>6

\* What neither stores nor tells.
LEMMA NothingIsPromised ==
  ASSUME UNCHANGED <<event, told>>
  PROVE  [Promise!PromiseNext]_Promise!cvars
<1>1. \A k \in Keys : MadeUnder(k)' = MadeUnder(k) /\ AnsweredUnder(k)' = AnsweredUnder(k)
  BY DEF MadeUnder, AnsweredUnder
<1> QED
  BY <1>1, PromiseStutters

\* Every step does what is promised.
LEMMA StepIsPromised ==
  ASSUME ChannelIsSound, Reading, Reading', [Next]_vars
  PROVE  [Promise!PromiseNext]_Promise!cvars
<1>1. Typed
  BY DEF ChannelIsSound
<1>2. CASE Handle
  BY <1>2, HandleIsPromised
<1>3. ASSUME NEW c \in Calls, Replay(c) PROVE [Promise!PromiseNext]_Promise!cvars
  <2>1. PICK answer : told' = [told EXCEPT ![c.key] = @ \cup {answer}]
    BY <1>3 DEF Replay, Told
  <2>2. UNCHANGED <<event, slot>>
    BY <1>3 DEF Replay, phoneVars
  <2> QED
    BY <1>1, <2>1, <2>2, ToldIsPromised
<1>4. CASE WorkerReceives
  <2>1. UNCHANGED <<event, slot>>
    BY <1>4 DEF WorkerReceives, phoneVars
  <2>2. \/ told' = told
        \/ \E answer : told' = [told EXCEPT ![call.key] = @ \cup {answer}]
    BY <1>4 DEF WorkerReceives, Outcome, Finish, Told
  <2> QED
    BY <1>1, <2>1, <2>2, ToldIsPromised, NothingIsPromised
<1>5. CASE UNCHANGED <<event, told>>
  BY <1>5, NothingIsPromised
<1>6. ASSUME NEW c \in Calls, Capture(c) PROVE UNCHANGED <<event, told>>
  BY <1>6 DEF Capture, phoneVars
<1> QED
  BY <1>2, <1>3, <1>4, <1>5, <1>6, StepsThatTell

\* Over any number of connections, breaks, restarts and attempts, the server and the phone
\* do what a store promises: a slot makes one event, and agents are answered with that
\* event and its text.
THEOREM CapturesArePromised == Spec => ImplementsPromise
<1>1. Init => Promise!PromiseInit
  <2> SUFFICES ASSUME Init PROVE Promise!PromiseInit
    OBVIOUS
  <2>1. event = <<>> /\ told = [k \in Keys |-> {}]
    BY DEF Init
  <2>2. \A k \in Keys : MadeUnder(k) = {} /\ AnsweredUnder(k) = {}
    BY <2>1 DEF MadeUnder, AnsweredUnder
  <2> QED
    BY <2>2 DEF Promise!PromiseInit
<1>2. ChannelIsSound => Reading
  BY ReadingHolds
<1>3. ChannelIsSound /\ Reading /\ Reading' /\ [Next]_vars => [Promise!PromiseNext]_Promise!cvars
  BY StepIsPromised
<1> QED
  BY <1>1, <1>2, <1>3, ChannelSoundness, PTL DEF Spec, ImplementsPromise, Promise!PromiseSpec

=============================================================================
