----------------------------- MODULE RoundTripper ------------------------------
(***************************************************************************)
(* The uTLS round tripper (pkg/utls/roundtripper.go) under the HTTP        *)
(* queries of tasks (handleHttpGetTask), for one HTTPS server.  There are  *)
(* a transport for HTTP/1 and one for HTTP/2; which of them is asked is    *)
(* remembered from the last handshake.  A connection that speaks the other *)
(* protocol is parked for a minute, and the request is tried again.        *)
(*                                                                         *)
(* The transports are external: they use a connection they hold again, or  *)
(* ask for one.  So is the collector, which closes what nobody refers to.  *)
(***************************************************************************)
EXTENDS Naturals

CONSTANTS
  Requests,     \* identities of requests
  Conns,        \* identities of connections
  NoConn,
  MaxSwitches   \* how often the server comes to speak another protocol

ASSUME SwitchesAssumption == MaxSwitches \in Nat
ASSUME ConnsAssumption == NoConn \notin Conns

VARIABLES
  server,    \* the protocol the server negotiates
  switches,  \* how often that has changed
  memory,    \* the protocol in connectWithH1
  found,     \* whether RoundTrip looks the memory up under the address it is kept by
  request,   \* each request: its place, the transport that was asked, the tries
             \* that failed for the protocol, and the switches there had been when
             \* it began or, if a handshake was waiting to be recorded, at that
  last,      \* the last handshake: what it negotiated, and the switches till then
  pending,   \* pendingConn: of each protocol
  conn       \* each connection: whether it is open, its protocol, whether it is
             \* claimed, whether its timer runs, who holds it: a transport, the
             \* request that dials it, nobody, or nobody for ever

queryVars == <<server, switches, memory, found, request, last, pending, conn>>

Protocols == {"h1", "h2"}
Other(p) == IF p = "h1" THEN "h2" ELSE "h1"

Retries == 5
NoRequest == [at |-> "over", p |-> "h2", tries |-> 0, from |-> 0]
Closed == [open |-> FALSE, p |-> "h2", claimed |-> TRUE, timer |-> FALSE, by |-> "nobody"]

QueryTypeOK ==
  /\ server \in Protocols
  /\ switches \in 0..MaxSwitches
  /\ memory \in Protocols
  /\ found \in BOOLEAN
  /\ request \in [Requests -> [at : {"over", "pick", "ask", "dial", "shaken"}, p : Protocols,
                               tries : 0..Retries, from : 0..switches]]
  /\ last \in [p : Protocols, switches : 0..switches]
  /\ pending \in [Protocols -> Conns \cup {NoConn}]
  /\ conn \in [Conns -> [open : BOOLEAN, p : Protocols, claimed : BOOLEAN, timer : BOOLEAN,
                         by : Protocols \cup {"dialer", "nobody", "lost"}]]

QueryInit ==
  /\ server \in Protocols
  /\ switches = 0
  /\ memory = "h2"
  /\ found \in BOOLEAN
  /\ request = [r \in Requests |-> NoRequest]
  /\ last = [p |-> server, switches |-> 0]
  /\ pending = [p \in Protocols |-> NoConn]
  /\ conn = [c \in Conns |-> Closed]

-----------------------------------------------------------------------------
(* RoundTrip. *)

\* A handshake is done, and what it negotiated is not remembered yet.
Recording == \E r \in Requests : request[r].at = "shaken"

\* handleHttpGetTask.
BeginRequest(r) ==
  /\ request[r].at = "over"
  /\ request' = [request EXCEPT ![r] =
       [at |-> "pick", p |-> "h2", tries |-> 0,
        from |-> IF Recording THEN last.switches ELSE switches]]
  /\ UNCHANGED <<server, switches, memory, found, last, pending, conn>>

\* Mutant: tries are not counted.
PickTransportAlways(r) ==
  /\ request[r].at = "pick"
  /\ request' = [request EXCEPT ![r].at = "ask", ![r].p = IF found THEN memory ELSE "h2"]
  /\ UNCHANGED <<server, switches, memory, found, last, pending, conn>>

\* RoundTrip asks for the name as it stands in the URL; what the transports pass on,
\* and what is remembered, has brackets around an IPv6 address and an international
\* name in its ASCII form.
PickTransport(r) ==
  /\ request[r].at = "pick"
  /\ request[r].tries < Retries
  /\ request' = [request EXCEPT ![r].at = "ask", ![r].p = IF found THEN memory ELSE "h2"]
  /\ UNCHANGED <<server, switches, memory, found, last, pending, conn>>

TooMany(r) ==
  /\ request[r].at = "pick"
  /\ request[r].tries = Retries
  /\ request' = [request EXCEPT ![r] = NoRequest]
  /\ UNCHANGED <<server, switches, memory, found, last, pending, conn>>

\* The transport holds a connection already.
Reuse(r) ==
  /\ request[r].at = "ask"
  /\ \E c \in Conns : conn[c].by = request[r].p
  /\ request' = [request EXCEPT ![r] = NoRequest]
  /\ UNCHANGED <<server, switches, memory, found, last, pending, conn>>

-----------------------------------------------------------------------------
(* dialOrGetTLSWithExpectedALPN. *)

\* accessDialingConnection is held from the handshake until its result is recorded.
Unlocked == \A r \in Requests : request[r].at \notin {"dial", "shaken"}

TryAgain(r) ==
  request' = [request EXCEPT ![r].at = "pick", ![r].tries = @ + 1]

WrongTransport(r) ==
  /\ request[r].at = "ask"
  /\ Unlocked
  /\ memory # request[r].p
  /\ TryAgain(r)
  /\ UNCHANGED <<server, switches, memory, found, last, pending, conn>>

\* getConn takes what is parked, unless it has expired.
Claim(r) ==
  LET c == pending[request[r].p] IN
  /\ request[r].at = "ask"
  /\ Unlocked
  /\ memory = request[r].p
  /\ c # NoConn
  /\ ~conn[c].claimed
  /\ pending' = [pending EXCEPT ![request[r].p] = NoConn]
  /\ conn' = [conn EXCEPT ![c].claimed = TRUE, ![c].by = request[r].p]
  /\ request' = [request EXCEPT ![r] = NoRequest]
  /\ UNCHANGED <<server, switches, memory, found, last>>

Dial(r) ==
  LET c == pending[request[r].p] IN
  /\ request[r].at = "ask"
  /\ Unlocked
  /\ memory = request[r].p
  /\ c # NoConn => conn[c].claimed
  /\ pending' = [pending EXCEPT ![request[r].p] = NoConn]
  /\ request' = [request EXCEPT ![r].at = "dial"]
  /\ UNCHANGED <<server, switches, memory, found, last, conn>>

\* The proxy, the connection or the removal of the SNI extension fails.
DialFails(r) ==
  /\ request[r].at = "dial"
  /\ request' = [request EXCEPT ![r] = NoRequest]
  /\ UNCHANGED <<server, switches, memory, found, last, pending, conn>>

\* A new connection with the protocol the server speaks now.
NewConn(c, by) ==
  /\ conn[c] = Closed
  /\ \A p \in Protocols : pending[p] # c
  /\ conn' = [conn EXCEPT ![c] =
       [open |-> TRUE, p |-> server, claimed |-> TRUE, timer |-> FALSE, by |-> by]]

\* dialTLS returns the error only.
HandshakeFails(r) ==
  /\ request[r].at = "dial"
  /\ \E c \in Conns : NewConn(c, "lost")
  /\ request' = [request EXCEPT ![r] = NoRequest]
  /\ UNCHANGED <<server, switches, memory, found, last, pending>>

Handshake(r) ==
  /\ request[r].at = "dial"
  /\ \E c \in Conns : NewConn(c, "dialer")
  /\ last' = [p |-> server, switches |-> switches]
  /\ request' = [request EXCEPT ![r].at = "shaken"]
  /\ UNCHANGED <<server, switches, memory, found, pending>>

DialMatches(r) ==
  /\ request[r].at = "shaken"
  /\ request[r].p = last.p
  /\ \E c \in Conns :
       /\ conn[c].by = "dialer"
       /\ conn' = [conn EXCEPT ![c].by = last.p]
  /\ request' = [request EXCEPT ![r] = NoRequest]
  /\ UNCHANGED <<server, switches, memory, found, last, pending>>

\* putConn, in the place of what may be parked there.
Park(c) ==
  /\ conn[c].by = "dialer"
  /\ conn' = [conn EXCEPT ![c].by = "nobody", ![c].claimed = FALSE, ![c].timer = TRUE]
  /\ pending' = [pending EXCEPT ![last.p] = c]

\* Mutant: the protocol is not remembered.
DialDiffersForgotten(r) ==
  /\ request[r].at = "shaken"
  /\ request[r].p # last.p
  /\ \E c \in Conns : Park(c)
  /\ TryAgain(r)
  /\ UNCHANGED <<server, switches, memory, found, last>>

DialDiffers(r) ==
  /\ request[r].at = "shaken"
  /\ request[r].p # last.p
  /\ \E c \in Conns : Park(c)
  /\ memory' = last.p
  /\ TryAgain(r)
  /\ UNCHANGED <<server, switches, found, last>>

-----------------------------------------------------------------------------
(* The timer of a parked connection, the transports, the collector, the server. *)

\* Mutant: whether it was claimed is not looked at.
TickAnyway(c) ==
  /\ conn[c].timer
  /\ conn' = [conn EXCEPT ![c].timer = FALSE, ![c].claimed = TRUE, ![c].open = FALSE]
  /\ UNCHANGED <<server, switches, memory, found, request, last, pending>>

\* The timer runs on when the connection is claimed.
Tick(c) ==
  /\ conn[c].timer
  /\ conn' = [conn EXCEPT ![c].timer = FALSE, ![c].claimed = TRUE,
                          ![c].open = @ /\ conn[c].claimed]
  /\ UNCHANGED <<server, switches, memory, found, request, last, pending>>

\* A transport drops its connection.
Drop(c) ==
  /\ conn[c].by \in Protocols
  /\ conn' = [conn EXCEPT ![c] = [Closed EXCEPT !.timer = conn[c].timer]]
  /\ UNCHANGED <<server, switches, memory, found, request, last, pending>>

\* The finalizer of a descriptor nobody refers to; nothing says when it runs.
Collect(c) ==
  /\ conn[c].by = "lost"
  /\ conn' = [conn EXCEPT ![c] = Closed]
  /\ UNCHANGED <<server, switches, memory, found, request, last, pending>>

Switch ==
  /\ switches < MaxSwitches
  /\ switches' = switches + 1
  /\ server' = Other(server)
  /\ UNCHANGED <<memory, found, request, last, pending, conn>>

RequestStep(r) ==
  \/ BeginRequest(r)
  \/ PickTransport(r)
  \/ TooMany(r)
  \/ Reuse(r)
  \/ WrongTransport(r)
  \/ Claim(r)
  \/ Dial(r)
  \/ DialFails(r)
  \/ HandshakeFails(r)
  \/ Handshake(r)
  \/ DialMatches(r)
  \/ DialDiffers(r)

QueryNext ==
  \/ \E r \in Requests : RequestStep(r)
  \/ \E c \in Conns : Tick(c) \/ Drop(c) \/ Collect(c)
  \/ Switch

QuerySpec == QueryInit /\ [][QueryNext]_queryVars

-----------------------------------------------------------------------------
(* Properties. *)

\* A request is tried once more, and again only as often as the server has changed
\* its protocol meanwhile, or since the handshake that was waiting to be recorded when
\* it began, whatever other requests do to what is remembered; provided that it is
\* looked up where it is kept (roundtripper.go:83-101, 149-179).
RetriesAreExplained ==
  found => \A r \in Requests : request[r].tries <= switches - request[r].from + 1

\* A connection that is open is in one of four hands: the transport's for its protocol;
\* those of the request that dials it and has still to record it; its timer's, which
\* closes it when its minute is over, as long as it can be claimed; or, after a failed
\* handshake and only then, nobody's (roundtripper.go:129-143, 219-222, 244-276).
ConnectionsAreAccounted ==
  /\ \A c \in Conns :
       /\ conn[c].by # "nobody" => conn[c].open
       /\ conn[c].by \in Protocols => conn[c].by = conn[c].p
       /\ conn[c].by = "dialer" => Recording
       /\ conn[c].open /\ conn[c].by = "nobody" => conn[c].timer /\ ~conn[c].claimed
  /\ \A p \in Protocols :
       pending[p] # NoConn /\ ~conn[pending[p]].claimed => conn[pending[p]].p = p
=============================================================================
