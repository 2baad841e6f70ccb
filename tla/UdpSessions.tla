----------------------------- MODULE UdpSessions -----------------------------
(***************************************************************************)
(* The UDP side of one clientcore.runtimeClient                            *)
(* (pkg/xtprocore/clientcore/udp.go): the map of sessions, the goroutine   *)
(* that reads each session's socket, the timers that wait for the backend  *)
(* and their callbacks, the goroutine that reads the UDP channel to the    *)
(* server, its ping, and closeControl.                                     *)
(*                                                                         *)
(* What runs under udpMu or udpCtrlMu is one step.  A session is closed in *)
(* the step that takes it out of the map: until then its reader acts as it *)
(* could have acted before.  Packets are not modelled; any may come.       *)
(***************************************************************************)
EXTENDS Naturals

CONSTANTS
  Ids,      \* ids that the server gives to sessions; it may use one again
  Sessions, \* identities of udpClientSessions; reused when nothing refers to one
  Calls,    \* identities of callbacks of timers
  Retries,  \* backendIdleRetries
  None      \* no session

ASSUME RetriesAssumption == Retries \in Nat \ {0}

ASSUME SessionsAssumption == None \notin Sessions

ASSUME IdsAssumption == Ids # {}

VARIABLES
  sessions, \* c.udpSessions
  of,       \* the id of each session
  open,     \* whether its socket is open
  timer,    \* its timer: nil, armed, or fired already
  idle,     \* its idleCount
  reader,   \* its readFromUDPLocal
  calls,    \* the callbacks: where each is, for which id, with which session
  ctl,      \* readUDPControl, likewise
  ready,    \* c.udpReady
  ticker,   \* whether c.udpPingTicker is there
  stage,    \* how far closeControl is: 0 not begun, 3 the UDP channel is closed
  quiet     \* no more data comes from the server or the backend

sessionVars == <<sessions, of, open, timer, idle>>
channelVars == <<ready, ticker, stage>>
vars == <<sessionVars, reader, calls, ctl, channelVars, quiet>>

CallPlaces == {"none", "fired", "counted", "again", "expired"}
CtlPlaces == {"read", "write", "wait", "failed", "ready", "start", "gone"}

TypeOK ==
  /\ sessions \in [Ids -> Sessions \cup {None}]
  /\ of \in [Sessions -> Ids]
  /\ open \in [Sessions -> BOOLEAN]
  /\ timer \in [Sessions -> {"nil", "armed", "fired"}]
  /\ idle \in [Sessions -> Nat]
  /\ reader \in [Sessions -> {"none", "read", "forward", "leave", "gone"}]
  /\ calls \in [Calls -> [at : CallPlaces, id : Ids, sess : Sessions \cup {None},
                          count : Nat]]
  /\ ctl \in [at : CtlPlaces, id : Ids, sess : Sessions \cup {None}]
  /\ ready \in BOOLEAN
  /\ ticker \in BOOLEAN
  /\ stage \in 0..3
  /\ quiet \in BOOLEAN

AnyId == CHOOSE id \in Ids : TRUE

NoCall == [at |-> "none", id |-> AnyId, sess |-> None, count |-> 0]
Reading == [at |-> "read", id |-> AnyId, sess |-> None]

\* setupUDPChannel has dialled the server and started readUDPControl.
Init ==
  /\ sessions = [id \in Ids |-> None]
  /\ of = [x \in Sessions |-> AnyId]
  /\ open = [x \in Sessions |-> FALSE]
  /\ timer = [x \in Sessions |-> "nil"]
  /\ idle = [x \in Sessions |-> 0]
  /\ reader = [x \in Sessions |-> "none"]
  /\ calls = [k \in Calls |-> NoCall]
  /\ ctl = Reading
  /\ ready = FALSE
  /\ ticker = FALSE
  /\ stage = 0
  /\ quiet = FALSE

-----------------------------------------------------------------------------
(* Operations on the map. *)

\* Mutant: Close leaves the timer running.
CloseSessionsTicking(gone) ==
  /\ sessions' = [id \in Ids |-> IF sessions[id] \in gone THEN None ELSE sessions[id]]
  /\ open' = [x \in Sessions |-> open[x] /\ x \notin gone]
  /\ UNCHANGED timer

\* udpClientSession.Close of some sessions, which leave the map.
CloseSessions(gone) ==
  /\ sessions' = [id \in Ids |-> IF sessions[id] \in gone THEN None ELSE sessions[id]]
  /\ open' = [x \in Sessions |-> open[x] /\ x \notin gone]
  /\ timer' = [x \in Sessions |->
       IF x \in gone /\ timer[x] = "armed" THEN "fired" ELSE timer[x]]

\* removeUDPSession: whichever session has the id now.
RemoveSession(id) ==
  /\ CloseSessions({sessions[id]} \ {None})
  /\ UNCHANGED <<of, idle>>

\* closeAllUDPSessions
CloseAll ==
  /\ CloseSessions({x \in Sessions : \E id \in Ids : sessions[id] = x})
  /\ UNCHANGED <<of, idle>>

\* startBackendWait: the wait of whichever session has the id begins anew.
StartWait(id) ==
  LET x == sessions[id] IN
  /\ timer' = IF x = None THEN timer ELSE [timer EXCEPT ![x] = "armed"]
  /\ idle' = IF x = None THEN idle ELSE [idle EXCEPT ![x] = 0]
  /\ UNCHANGED <<sessions, of, open>>

\* cancelBackendWait
CancelWait(id) ==
  LET x == sessions[id]
      waits == x # None /\ timer[x] # "nil" IN
  /\ timer' = IF waits THEN [timer EXCEPT ![x] = "nil"] ELSE timer
  /\ idle' = IF waits THEN [idle EXCEPT ![x] = 0] ELSE idle
  /\ UNCHANGED <<sessions, of, open>>

-----------------------------------------------------------------------------
(* receiveLoop: it handles one message at a time, then closes the client. *)

\* No goroutine holds the session.
Unused(x) ==
  /\ ~open[x]
  /\ reader[x] \in {"none", "gone"}
  /\ \A k \in Calls : calls[k].sess # x
  /\ ctl.sess # x

\* Mutant: the session that had the id before is overwritten and not closed.
OpenOverwriting(id, x) ==
  /\ stage = 0
  /\ Unused(x)
  /\ sessions' = [sessions EXCEPT ![id] = x]
  /\ of' = [of EXCEPT ![x] = id]
  /\ open' = [open EXCEPT ![x] = TRUE]
  /\ timer' = [timer EXCEPT ![x] = "nil"]
  /\ idle' = [idle EXCEPT ![x] = 0]
  /\ reader' = [reader EXCEPT ![x] = "read"]
  /\ UNCHANGED <<calls, ctl, channelVars, quiet>>

\* "udp_open": a session that has the id already is closed.
Open(id, x) ==
  /\ stage = 0
  /\ Unused(x)
  /\ sessions' = [sessions EXCEPT ![id] = x]
  /\ of' = [of EXCEPT ![x] = id]
  /\ open' = [y \in Sessions |-> y = x \/ (open[y] /\ y # sessions[id])]
  /\ timer' = [y \in Sessions |->
       IF y = x THEN "nil"
       ELSE IF y = sessions[id] /\ timer[y] = "armed" THEN "fired" ELSE timer[y]]
  /\ idle' = [idle EXCEPT ![x] = 0]
  /\ reader' = [reader EXCEPT ![x] = "read"]
  /\ UNCHANGED <<calls, ctl, channelVars, quiet>>

\* "udp_close"
CloseById(id) ==
  /\ stage = 0
  /\ RemoveSession(id)
  /\ UNCHANGED <<reader, calls, ctl, channelVars, quiet>>

\* Mutant: the sessions are forgotten.
CloseControlOnly ==
  /\ stage < 3
  /\ stage' = stage + 1
  /\ ticker' = IF stage = 1 THEN FALSE ELSE ticker
  /\ ready' = IF stage = 2 THEN FALSE ELSE ready
  /\ UNCHANGED <<sessionVars, reader, calls, ctl, quiet>>

\* closeControl in three steps: the sessions, the ping, the UDP channel.
CloseControl ==
  /\ stage < 3
  /\ stage' = stage + 1
  /\ IF stage = 0 THEN CloseAll ELSE UNCHANGED sessionVars
  /\ ticker' = IF stage = 1 THEN FALSE ELSE ticker
  /\ ready' = IF stage = 2 THEN FALSE ELSE ready
  /\ UNCHANGED <<reader, calls, ctl, quiet>>

ReceiveLoop ==
  \/ \E id \in Ids, x \in Sessions : Open(id, x)
  \/ \E id \in Ids : CloseById(id)
  \/ CloseControl

-----------------------------------------------------------------------------
(* readUDPControl. *)

CtlUnchanged == UNCHANGED <<reader, calls, channelVars, quiet>>

\* A packet comes; once the channel is closed there is none.
CtlReads == ctl.at = "read" /\ stage < 3

\* A datagram for a session that is in the map.
CtlData(id) ==
  /\ CtlReads
  /\ ~quiet
  /\ sessions[id] # None
  /\ ctl' = [at |-> "write", id |-> id, sess |-> sessions[id]]
  /\ UNCHANGED sessionVars
  /\ CtlUnchanged

\* It is written to the session's socket, which may have been closed meanwhile.
CtlWrites ==
  /\ ctl.at = "write"
  /\ \/ open[ctl.sess] /\ ctl' = [ctl EXCEPT !.at = "wait"]
     \/ ctl' = [ctl EXCEPT !.at = "failed"]
  /\ UNCHANGED sessionVars
  /\ CtlUnchanged

CtlWaits ==
  /\ ctl.at = "wait"
  /\ StartWait(ctl.id)
  /\ ctl' = Reading
  /\ CtlUnchanged

CtlFails ==
  /\ ctl.at = "failed"
  /\ RemoveSession(ctl.id)
  /\ ctl' = Reading
  /\ CtlUnchanged

CtlClose(id) ==
  /\ CtlReads
  /\ RemoveSession(id)
  /\ UNCHANGED ctl
  /\ CtlUnchanged

\* The server answers the handshake: udpReady is set, then the ping is started.
CtlHandshake ==
  /\ CtlReads
  /\ ctl' = [ctl EXCEPT !.at = "ready"]
  /\ UNCHANGED sessionVars
  /\ CtlUnchanged

CtlReady ==
  /\ ctl.at = "ready"
  /\ ready' = TRUE
  /\ ctl' = [ctl EXCEPT !.at = "start"]
  /\ UNCHANGED <<sessionVars, reader, calls, ticker, stage, quiet>>

CtlStartPing ==
  /\ ctl.at = "start"
  /\ ticker' = TRUE
  /\ ctl' = Reading
  /\ UNCHANGED <<sessionVars, reader, calls, ready, stage, quiet>>

\* Mutant: the ping is not stopped when the channel's reader ends.
CtlEndsPinging ==
  /\ ctl.at = "read"
  /\ ctl' = [ctl EXCEPT !.at = "gone"]
  /\ UNCHANGED <<sessionVars, reader, calls, channelVars, quiet>>

\* Reading the channel fails; the deferred stopUDPPing runs.
CtlEnds ==
  /\ ctl.at = "read"
  /\ ticker' = FALSE
  /\ ctl' = [ctl EXCEPT !.at = "gone"]
  /\ UNCHANGED <<sessionVars, reader, calls, ready, stage, quiet>>

Control ==
  \/ \E id \in Ids : CtlData(id)
  \/ CtlWrites
  \/ CtlWaits
  \/ CtlFails
  \/ \E id \in Ids : CtlClose(id)
  \/ CtlHandshake
  \/ CtlReady
  \/ CtlStartPing
  \/ CtlEnds

\* checkUDPPingTimeout: no pong came for six seconds.
PingTimeout ==
  /\ ticker
  /\ CloseAll
  /\ UNCHANGED <<reader, calls, ctl, channelVars, quiet>>

-----------------------------------------------------------------------------
(* readFromUDPLocal. *)

ReaderGoto(x, from, to) ==
  /\ reader[x] = from
  /\ reader' = [reader EXCEPT ![x] = to]
  /\ UNCHANGED <<calls, ctl, channelVars, quiet>>

\* The backend answers.
ReaderGets(x) ==
  /\ open[x]
  /\ ~quiet
  /\ ReaderGoto(x, "read", "forward")
  /\ UNCHANGED sessionVars

ReaderForwards(x) == ReaderGoto(x, "forward", "read") /\ CancelWait(of[x])

\* The socket was closed, or the backend is not there.
ReaderFails(x) == ReaderGoto(x, "read", "leave") /\ UNCHANGED sessionVars

ReaderLeaves(x) == ReaderGoto(x, "leave", "gone") /\ RemoveSession(of[x])

Reader(x) ==
  \/ ReaderGets(x)
  \/ ReaderForwards(x)
  \/ ReaderFails(x)
  \/ ReaderLeaves(x)

-----------------------------------------------------------------------------
(* handleBackendTimeout. *)

TimerFires(x, k) ==
  /\ timer[x] = "armed"
  /\ calls[k].at = "none"
  /\ timer' = [timer EXCEPT ![x] = "fired"]
  /\ calls' = [calls EXCEPT ![k] = [NoCall EXCEPT !.at = "fired", !.id = of[x]]]
  /\ UNCHANGED <<sessions, of, open, idle, reader, ctl, channelVars, quiet>>

CallUnchanged == UNCHANGED <<reader, ctl, channelVars, quiet>>

\* The callback looks for the session and reads idleCount.
CallLooks(k) ==
  /\ calls[k].at = "fired"
  /\ LET x == sessions[calls[k].id] IN
     calls' = [calls EXCEPT ![k] =
       IF x = None THEN [@ EXCEPT !.at = "expired"]
       ELSE [@ EXCEPT !.at = "counted", !.sess = x, !.count = idle[x] + 1]]
  /\ UNCHANGED sessionVars
  /\ CallUnchanged

\* It stores the new idleCount, which nothing protects, and compares it.
CallCounts(k) ==
  /\ calls[k].at = "counted"
  /\ idle' = [idle EXCEPT ![calls[k].sess] = calls[k].count]
  /\ calls' = [calls EXCEPT
       ![k].at = IF calls[k].count < Retries THEN "again" ELSE "expired",
       ![k].sess = None,
       ![k].count = 0]
  /\ UNCHANGED <<sessions, of, open, timer>>
  /\ CallUnchanged

CallWaits(k) ==
  /\ calls[k].at = "again"
  /\ StartWait(calls[k].id)
  /\ calls' = [calls EXCEPT ![k] = NoCall]
  /\ CallUnchanged

CallRemoves(k) ==
  /\ calls[k].at = "expired"
  /\ RemoveSession(calls[k].id)
  /\ calls' = [calls EXCEPT ![k] = NoCall]
  /\ CallUnchanged

Call(k) ==
  \/ CallLooks(k)
  \/ CallCounts(k)
  \/ CallWaits(k)
  \/ CallRemoves(k)

\* The environment: there is no more data for any session.
GoQuiet ==
  /\ ~quiet
  /\ quiet' = TRUE
  /\ UNCHANGED <<sessionVars, reader, calls, ctl, channelVars>>

Next ==
  \/ ReceiveLoop
  \/ Control
  \/ PingTimeout
  \/ \E x \in Sessions : Reader(x)
  \/ \E x \in Sessions, k \in Calls : TimerFires(x, k)
  \/ \E k \in Calls : Call(k)
  \/ GoQuiet

Spec == Init /\ [][Next]_vars

\* Timers fire and goroutines go on.  A read is only sure to end when its socket
\* is closed.
FairSpec ==
  /\ Spec
  /\ WF_vars(stage > 0 /\ CloseControl)
  /\ WF_vars(CtlWrites \/ CtlWaits \/ CtlFails \/ CtlReady \/ CtlStartPing)
  /\ WF_vars(stage = 3 /\ CtlEnds)
  /\ \A x \in Sessions :
       /\ WF_vars(ReaderForwards(x) \/ ReaderLeaves(x))
       /\ WF_vars(~open[x] /\ ReaderFails(x))
       /\ WF_vars(\E k \in Calls : TimerFires(x, k))
  /\ \A k \in Calls : WF_vars(Call(k))

-----------------------------------------------------------------------------
(* Properties. *)

\* Every open socket is the one its id leads to, and every session in the map is
\* open: none is out of reach of the next close, also when the server uses an id
\* again while goroutines of the former session are still at work
\* (udp.go:28-36, 169-196).
SocketsAreReachable ==
  \A x \in Sessions : open[x] <=> sessions[of[x]] = x

\* A timer waits only for an open session, whatever callback or datagram started
\* it and however late; so after closeControl no timer is armed and no socket open
\* (udp.go:198-233, 335-341 of runner.go).
TimersAreOfOpenSessions ==
  /\ \A x \in Sessions : timer[x] = "armed" => open[x]
  /\ stage > 0 => \A x \in Sessions : ~open[x]

\* A handshake that is handled while closeControl runs may start the ping again
\* after stopUDPPing; it is stopped for good when the channel's reader ends
\* (udp.go:69, 105-109, 299-325).
PingEndsWithChannel == ctl.at = "gone" => ~ticker

\* After closeControl every goroutine of the client's UDP side comes to an end, a
\* callback that is just starting a new wait included (udp.go:68-82, 146-161,
\* 220-233).
NothingSurvivesClose ==
  stage = 3 ~>
    /\ ctl.at = "gone"
    /\ \A x \in Sessions : reader[x] \in {"none", "gone"}
    /\ \A k \in Calls : calls[k].at = "none"

\* The condition idleCount < backendIdleRetries (udp.go:224): a session whose
\* backend stays silent is waited for that many times and then closed.
IdleSessionIsClosed ==
  \A id \in Ids :
    quiet /\ sessions[id] # None /\ timer[sessions[id]] = "armed"
      ~> sessions[id] = None
=============================================================================
