-------------------------- MODULE UdpSessionsProofs --------------------------
(* Proofs about UdpSessions for any ids, sessions and callbacks and any      *)
(* number of retries.                                                        *)
EXTENDS UdpSessions, TLAPS

-----------------------------------------------------------------------------
(* The inductive invariant. *)

\* The map leads to sessions of the id, and those are the open ones.
MapInv ==
  /\ \A id \in Ids : sessions[id] # None => of[sessions[id]] = id
  /\ SocketsAreReachable

UdpInv ==
  /\ TypeOK
  /\ MapInv
  /\ TimersAreOfOpenSessions
  /\ PingEndsWithChannel

LEMMA UdpInvInit == Init => UdpInv
<1> SUFFICES ASSUME Init PROVE UdpInv
  OBVIOUS
<1>1. AnyId \in Ids
  BY IdsAssumption DEF AnyId
<1>2. TypeOK
  <2>1. /\ open \in [Sessions -> BOOLEAN]
        /\ ready \in BOOLEAN /\ ticker \in BOOLEAN /\ quiet \in BOOLEAN
    BY DEF Init
  <2>2. /\ sessions \in [Ids -> Sessions \cup {None}]
        /\ of \in [Sessions -> Ids]
        /\ timer \in [Sessions -> {"nil", "armed", "fired"}]
        /\ idle \in [Sessions -> Nat]
        /\ reader \in [Sessions -> {"none", "read", "forward", "leave", "gone"}]
        /\ stage \in 0..3
    BY <1>1 DEF Init
  <2>3. /\ calls \in [Calls -> [at : CallPlaces, id : Ids, sess : Sessions \cup {None},
                                count : Nat]]
        /\ ctl \in [at : CtlPlaces, id : Ids, sess : Sessions \cup {None}]
    BY <1>1 DEF Init, NoCall, Reading, CallPlaces, CtlPlaces
  <2>4. QED
    BY <2>1, <2>2, <2>3 DEF TypeOK
<1>3. MapInv
  BY <1>1, SessionsAssumption DEF Init, MapInv, SocketsAreReachable
<1>4. TimersAreOfOpenSessions /\ PingEndsWithChannel
  BY DEF Init, TimersAreOfOpenSessions, PingEndsWithChannel, Reading
<1>5. QED
  BY <1>2, <1>3, <1>4 DEF UdpInv

-----------------------------------------------------------------------------
(* What the steps do to the map. *)

\* No session is opened or closed, and no timer started.
Calm ==
  /\ UNCHANGED <<sessions, of, open>>
  /\ \A x \in Sessions : timer'[x] = "armed" => timer[x] = "armed"

\* Some sessions leave the map and are closed.
Closing(gone) ==
  /\ gone \in SUBSET Sessions
  /\ CloseSessions(gone)
  /\ UNCHANGED <<of, idle>>

LEMMA RemoveCloses ==
  ASSUME TypeOK, NEW id \in Ids, RemoveSession(id)
  PROVE  \E gone : Closing(gone)
<1>1. {sessions[id]} \ {None} \in SUBSET Sessions
  BY DEF TypeOK
<1>2. QED
  BY <1>1 DEF RemoveSession, Closing

LEMMA CloseAllCloses ==
  ASSUME TypeOK, CloseAll
  PROVE  \E gone : Closing(gone)
<1>1. {x \in Sessions : \E id \in Ids : sessions[id] = x} \in SUBSET Sessions
  OBVIOUS
<1>2. QED
  BY <1>1 DEF CloseAll, Closing

LEMMA CallTyped ==
  ASSUME TypeOK, NEW k \in Calls
  PROVE  /\ calls[k].id \in Ids
         /\ calls[k].sess \in Sessions \cup {None}
         /\ calls[k].count \in Nat
         /\ calls[k].at \in CallPlaces
BY DEF TypeOK

LEMMA CtlTyped ==
  ASSUME TypeOK
  PROVE  ctl.id \in Ids /\ ctl.sess \in Sessions \cup {None} /\ ctl.at \in CtlPlaces
BY DEF TypeOK

LEMMA MapStep ==
  ASSUME TypeOK, [Next]_vars
  PROVE  \/ Calm
         \/ \E gone : Closing(gone)
         \/ \E id \in Ids : StartWait(id)
         \/ \E id \in Ids, x \in Sessions : Open(id, x)
<1> DEFINE Goal == \/ Calm
                   \/ \E gone : Closing(gone)
                   \/ \E id \in Ids : StartWait(id)
                   \/ \E id \in Ids, x \in Sessions : Open(id, x)
<1>1. ReceiveLoop => Goal
  BY RemoveCloses, CloseAllCloses
     DEF ReceiveLoop, CloseById, CloseControl, Calm, sessionVars
<1>2. Control => Goal
  BY CtlTyped, RemoveCloses
     DEF Control, CtlData, CtlWrites, CtlWaits, CtlFails, CtlClose, CtlHandshake, CtlReady,
         CtlStartPing, CtlEnds, Calm, sessionVars
<1>3. PingTimeout => Goal
  BY CloseAllCloses DEF PingTimeout
<1>4. ASSUME NEW x \in Sessions, Reader(x) PROVE Goal
  <2>1. of[x] \in Ids
    BY DEF TypeOK
  <2>2. QED
    BY <1>4, <2>1, RemoveCloses
       DEF Reader, ReaderGets, ReaderForwards, ReaderFails, ReaderLeaves, CancelWait,
           Calm, sessionVars, TypeOK
<1>5. ASSUME NEW k \in Calls, Call(k) PROVE Goal
  BY <1>5, CallTyped, RemoveCloses
     DEF Call, CallLooks, CallCounts, CallWaits, CallRemoves, Calm,
         sessionVars
<1>6. ASSUME NEW x \in Sessions, NEW k \in Calls, TimerFires(x, k) PROVE Goal
  BY <1>6 DEF TimerFires, Calm, TypeOK
<1>7. GoQuiet \/ UNCHANGED vars => Goal
  BY DEF GoQuiet, vars, sessionVars, Calm
<1>8. QED
  BY <1>1, <1>2, <1>3, <1>4, <1>5, <1>6, <1>7 DEF Next

LEMMA MapNext ==
  ASSUME TypeOK, MapInv, [Next]_vars
  PROVE  MapInv'
<1> USE DEF TypeOK, MapInv, SocketsAreReachable
<1>1. CASE Calm \/ \E id \in Ids : StartWait(id)
  BY <1>1 DEF Calm, StartWait
<1>2. ASSUME NEW gone, Closing(gone) PROVE MapInv'
  BY <1>2, SessionsAssumption DEF Closing, CloseSessions
<1>3. ASSUME NEW id \in Ids, NEW x \in Sessions, Open(id, x) PROVE MapInv'
  <2>1. ~open[x]
    BY <1>3 DEF Open, Unused
  <2>2. \A i \in Ids : sessions[i] # x
    BY <2>1, SessionsAssumption
  <2>3. \A i \in Ids : sessions'[i] # None => of'[sessions'[i]] = i
    BY <1>3, <2>2, SessionsAssumption DEF Open
  <2>4. ASSUME NEW y \in Sessions PROVE open'[y] <=> sessions'[of'[y]] = y
    <3>1. CASE y = x
      BY <1>3, <3>1 DEF Open
    <3>2. CASE y # x
      <4>1. of'[y] = of[y] /\ of[y] \in Ids
        BY <1>3, <3>2 DEF Open
      <4>2. open'[y] = (y = x \/ (open[y] /\ y # sessions[id]))
        BY <1>3 DEF Open
      <4>3. sessions'[of[y]] = IF of[y] = id THEN x ELSE sessions[of[y]]
        BY <1>3, <4>1 DEF Open
      <4>4. open[y] <=> sessions[of[y]] = y
        OBVIOUS
      <4>5. sessions[id] = y => of[y] = id
        BY SessionsAssumption
      <4>6. CASE of[y] = id
        <5>1. sessions'[of'[y]] # y
          BY <3>2, <4>1, <4>3, <4>6
        <5>2. ~open'[y]
          BY <3>2, <4>2, <4>4, <4>6
        <5>3. QED
          BY <5>1, <5>2
      <4>7. CASE of[y] # id
        <5>1. open'[y] <=> open[y]
          BY <3>2, <4>2, <4>5, <4>7
        <5>2. sessions'[of'[y]] = sessions[of[y]]
          BY <4>1, <4>3, <4>7
        <5>3. QED
          BY <4>4, <5>1, <5>2
      <4>8. QED
        BY <4>6, <4>7
    <3>3. QED
      BY <3>1, <3>2
  <2>5. QED
    BY <2>3, <2>4 DEF TypeOK
<1>4. QED
  BY <1>1, <1>2, <1>3, MapStep

-----------------------------------------------------------------------------
(* Timers. *)

LEMMA ArmedNext ==
  ASSUME TypeOK, MapInv, TimersAreOfOpenSessions, [Next]_vars
  PROVE  \A x \in Sessions : timer'[x] = "armed" => open'[x]
<1> SUFFICES ASSUME NEW x \in Sessions, timer'[x] = "armed" PROVE open'[x]
  OBVIOUS
<1>1. timer[x] = "armed" => open[x]
  BY DEF TimersAreOfOpenSessions
<1>2. CASE Calm
  BY <1>1, <1>2 DEF Calm
<1>3. ASSUME NEW gone, Closing(gone) PROVE open'[x]
  <2>1. timer[x] = "armed" /\ x \notin gone
    BY <1>3 DEF Closing, CloseSessions
  <2>2. open'[x] = (open[x] /\ x \notin gone)
    BY <1>3 DEF Closing, CloseSessions
  <2>3. QED
    BY <1>1, <2>1, <2>2
<1>4. ASSUME NEW id \in Ids, StartWait(id) PROVE open'[x]
  <2>1. timer[x] = "armed" \/ (x = sessions[id])
    BY <1>4 DEF StartWait, TypeOK
  <2>2. x = sessions[id] => of[x] = id
    BY SessionsAssumption DEF MapInv
  <2>3. x = sessions[id] => open[x]
    BY <2>2 DEF MapInv, SocketsAreReachable
  <2>4. open' = open
    BY <1>4 DEF StartWait
  <2>5. QED
    BY <1>1, <2>1, <2>3, <2>4
<1>5. ASSUME NEW id \in Ids, NEW y \in Sessions, Open(id, y) PROVE open'[x]
  <2>1. open'[x] = (x = y \/ (open[x] /\ x # sessions[id]))
    BY <1>5 DEF Open
  <2>2. x # y => timer[x] = "armed" /\ x # sessions[id]
    BY <1>5 DEF Open
  <2>3. QED
    BY <1>1, <2>1, <2>2
<1>6. QED
  BY <1>2, <1>3, <1>4, <1>5, MapStep

\* Where the client is closed.
LEMMA StageStep ==
  ASSUME [Next]_vars
  PROVE  stage' = stage \/ CloseControl
BY DEF Next, ReceiveLoop, Open, CloseById, Control, CtlData, CtlWrites, CtlWaits, CtlFails,
       CtlClose, CtlHandshake, CtlReady, CtlStartPing, CtlEnds, PingTimeout, Reader,
       ReaderGets, ReaderForwards, ReaderFails, ReaderLeaves, ReaderGoto, TimerFires, Call,
       CallLooks, CallCounts, CallWaits, CallRemoves, CtlUnchanged, CallUnchanged, GoQuiet,
       vars, channelVars

LEMMA ClosedNext ==
  ASSUME TypeOK, MapInv, TimersAreOfOpenSessions, [Next]_vars
  PROVE  stage' > 0 => \A x \in Sessions : ~open'[x]
<1> SUFFICES ASSUME stage' > 0, NEW x \in Sessions PROVE ~open'[x]
  OBVIOUS
<1>1. stage > 0 => ~open[x]
  BY DEF TimersAreOfOpenSessions
<1>2. CASE CloseControl /\ stage = 0
  <2>1. CloseAll
    BY <1>2 DEF CloseControl
  <2>2. open[x] => \E id \in Ids : sessions[id] = x
    BY DEF MapInv, SocketsAreReachable, TypeOK
  <2>3. open'[x] = (open[x] /\ x \notin {y \in Sessions : \E id \in Ids : sessions[id] = y})
    BY <2>1 DEF CloseAll, CloseSessions
  <2>4. QED
    BY <2>2, <2>3
<1>3. CASE stage > 0
  <2>1. ~ \E id \in Ids, y \in Sessions : Open(id, y)
    BY <1>3 DEF Open
  <2>2. ASSUME NEW gone, Closing(gone) PROVE ~open'[x]
    <3>1. open'[x] = (open[x] /\ x \notin gone)
      BY <2>2 DEF Closing, CloseSessions
    <3>2. QED
      BY <1>1, <1>3, <3>1
  <2>3. Calm \/ (\E id \in Ids : StartWait(id)) => ~open'[x]
    BY <1>1, <1>3 DEF Calm, StartWait
  <2>4. QED
    BY <2>1, <2>2, <2>3, MapStep
<1>4. QED
  BY <1>2, <1>3, StageStep DEF TypeOK

-----------------------------------------------------------------------------
(* The ping. *)

LEMMA PingNext ==
  ASSUME TypeOK, PingEndsWithChannel, [Next]_vars
  PROVE  PingEndsWithChannel'
<1> USE DEF PingEndsWithChannel
<1>1. CASE ReceiveLoop
  BY <1>1 DEF ReceiveLoop, Open, CloseById, CloseControl, channelVars
<1>2. CASE CtlStartPing
  BY <1>2 DEF CtlStartPing, Reading
<1>3. CASE CtlEnds
  BY <1>3 DEF CtlEnds
<1>4. CASE Control /\ ~CtlStartPing /\ ~CtlEnds
  <2>1. ticker' = ticker
    BY <1>4 DEF Control, CtlData, CtlWrites, CtlWaits, CtlFails, CtlClose, CtlHandshake,
                CtlReady, CtlUnchanged, channelVars
  <2>2. ctl'.at = "gone" => ctl.at = "gone"
    BY <1>4 DEF Control, CtlData, CtlReads, CtlWrites, CtlWaits, CtlFails, CtlClose,
                CtlHandshake, CtlReady, Reading, TypeOK
  <2>3. QED
    BY <2>1, <2>2
<1>5. CASE UNCHANGED <<ctl, ticker>>
  BY <1>5
<1>6. QED
  BY <1>1, <1>2, <1>3, <1>4, <1>5
     DEF Next, PingTimeout, Reader, ReaderGets, ReaderForwards, ReaderFails, ReaderLeaves,
         ReaderGoto, TimerFires, Call, CallLooks, CallCounts, CallWaits, CallRemoves,
         CallUnchanged, GoQuiet, vars, channelVars

-----------------------------------------------------------------------------
(* Types. *)

\* The flags.
LEMMA FlagsNext ==
  ASSUME TypeOK, [Next]_vars
  PROVE  /\ open' \in [Sessions -> BOOLEAN]
         /\ ready' \in BOOLEAN
         /\ ticker' \in BOOLEAN
         /\ quiet' \in BOOLEAN
<1>1. /\ open \in [Sessions -> BOOLEAN] /\ ready \in BOOLEAN /\ ticker \in BOOLEAN
      /\ quiet \in BOOLEAN
  BY DEF TypeOK
<1>2. open' \in [Sessions -> BOOLEAN]
  <2>1. ASSUME NEW gone, Closing(gone) PROVE open' \in [Sessions -> BOOLEAN]
    BY <2>1 DEF Closing, CloseSessions
  <2>2. ASSUME NEW id \in Ids, NEW x \in Sessions, Open(id, x)
        PROVE  open' \in [Sessions -> BOOLEAN]
    BY <2>2 DEF Open
  <2>3. Calm \/ (\E id \in Ids : StartWait(id)) => open' \in [Sessions -> BOOLEAN]
    BY <1>1 DEF Calm, StartWait
  <2>4. QED
    BY <2>1, <2>2, <2>3, MapStep
<1>3. ready' \in {ready, TRUE, FALSE} /\ ticker' \in {ticker, TRUE, FALSE}
      /\ quiet' \in {quiet, TRUE}
  BY DEF Next, ReceiveLoop, Open, CloseById, CloseControl, Control, CtlData, CtlWrites,
         CtlWaits, CtlFails, CtlClose, CtlHandshake, CtlReady, CtlStartPing, CtlEnds,
         PingTimeout, Reader, ReaderGets, ReaderForwards, ReaderFails, ReaderLeaves,
         ReaderGoto, TimerFires, Call, CallLooks, CallCounts, CallWaits, CallRemoves,
         CtlUnchanged, CallUnchanged, GoQuiet, vars, channelVars
<1>4. QED
  BY <1>1, <1>2, <1>3

\* The sessions.
LEMMA SessionsNext ==
  ASSUME TypeOK, [Next]_vars
  PROVE  /\ sessions' \in [Ids -> Sessions \cup {None}]
         /\ of' \in [Sessions -> Ids]
<1>1. ASSUME NEW gone, Closing(gone)
      PROVE  sessions' \in [Ids -> Sessions \cup {None}] /\ of' \in [Sessions -> Ids]
  BY <1>1 DEF Closing, CloseSessions, TypeOK
<1>2. ASSUME NEW id \in Ids, NEW x \in Sessions, Open(id, x)
      PROVE  sessions' \in [Ids -> Sessions \cup {None}] /\ of' \in [Sessions -> Ids]
  BY <1>2 DEF Open, TypeOK
<1>3. Calm \/ (\E id \in Ids : StartWait(id))
        => sessions' \in [Ids -> Sessions \cup {None}] /\ of' \in [Sessions -> Ids]
  BY DEF Calm, StartWait, TypeOK
<1>4. QED
  BY <1>1, <1>2, <1>3, MapStep

\* The timers, the counts and the goroutines.
LEMMA WaitsNext ==
  ASSUME TypeOK, [Next]_vars
  PROVE  /\ timer' \in [Sessions -> {"nil", "armed", "fired"}]
         /\ idle' \in [Sessions -> Nat]
         /\ reader' \in [Sessions -> {"none", "read", "forward", "leave", "gone"}]
         /\ stage' \in 0..3
<1> DEFINE Goal == /\ timer' \in [Sessions -> {"nil", "armed", "fired"}]
                   /\ idle' \in [Sessions -> Nat]
                   /\ reader' \in [Sessions -> {"none", "read", "forward", "leave", "gone"}]
                   /\ stage' \in 0..3
<1>0. /\ timer \in [Sessions -> {"nil", "armed", "fired"}]
      /\ idle \in [Sessions -> Nat]
      /\ reader \in [Sessions -> {"none", "read", "forward", "leave", "gone"}]
      /\ stage \in 0..3
  BY DEF TypeOK
<1>1. ASSUME NEW id \in Ids, NEW x \in Sessions, Open(id, x) PROVE Goal
  BY <1>0, <1>1 DEF Open, channelVars
<1>2. ASSUME NEW id \in Ids, CloseById(id) PROVE Goal
  BY <1>0, <1>2 DEF CloseById, RemoveSession, CloseSessions, channelVars
<1>3. CASE CloseControl
  BY <1>0, <1>3 DEF CloseControl, CloseAll, CloseSessions, sessionVars
<1>4. CASE Control
  BY <1>0, <1>4
     DEF Control, CtlData, CtlWrites, CtlWaits, CtlFails, CtlClose, CtlHandshake, CtlReady,
         CtlStartPing, CtlEnds, CtlUnchanged, RemoveSession, CloseSessions, StartWait,
         sessionVars, channelVars
<1>5. CASE PingTimeout
  BY <1>0, <1>5 DEF PingTimeout, CloseAll, CloseSessions, channelVars
<1>6. ASSUME NEW x \in Sessions, Reader(x) PROVE Goal
  BY <1>0, <1>6
     DEF Reader, ReaderGets, ReaderForwards, ReaderFails, ReaderLeaves, ReaderGoto,
         CancelWait, RemoveSession, CloseSessions, sessionVars, channelVars
<1>7. ASSUME NEW x \in Sessions, NEW k \in Calls, TimerFires(x, k) PROVE Goal
  BY <1>0, <1>7 DEF TimerFires, channelVars
<1>8. ASSUME NEW k \in Calls, Call(k) PROVE Goal
  BY <1>0, <1>8, CallTyped
     DEF Call, CallLooks, CallCounts, CallWaits, CallRemoves, CallUnchanged, StartWait,
         RemoveSession, CloseSessions, sessionVars, channelVars
<1>9. CASE GoQuiet \/ UNCHANGED vars
  BY <1>0, <1>9 DEF GoQuiet, vars, sessionVars, channelVars
<1>10. QED
  BY <1>1, <1>2, <1>3, <1>4, <1>5, <1>6, <1>7, <1>8, <1>9 DEF Next, ReceiveLoop

CallRecords == [at : CallPlaces, id : Ids, sess : Sessions \cup {None}, count : Nat]
CtlRecords == [at : CtlPlaces, id : Ids, sess : Sessions \cup {None}]

\* What the goroutines and the callbacks hold.
LEMMA HoldersNext ==
  ASSUME TypeOK, [Next]_vars
  PROVE  calls' \in [Calls -> CallRecords] /\ ctl' \in CtlRecords
<1> DEFINE Goal == calls' \in [Calls -> CallRecords] /\ ctl' \in CtlRecords
<1>0. calls \in [Calls -> CallRecords] /\ ctl \in CtlRecords
  BY DEF TypeOK, CallRecords, CtlRecords
<1>a. NoCall \in CallRecords /\ Reading \in CtlRecords
  <2>1. AnyId \in Ids
    BY IdsAssumption DEF AnyId
  <2>2. QED
    BY <2>1 DEF NoCall, Reading, CallRecords, CtlRecords, CallPlaces, CtlPlaces
<1>1. CASE UNCHANGED <<calls, ctl>>
  BY <1>0, <1>1
<1>2. CASE Control
  <2>1. calls' = calls
    BY <1>2 DEF Control, CtlData, CtlWrites, CtlWaits, CtlFails, CtlClose, CtlHandshake,
                CtlReady, CtlStartPing, CtlEnds, CtlUnchanged
  <2>2. ASSUME NEW id \in Ids, CtlData(id) PROVE ctl' \in CtlRecords
    BY <2>2 DEF CtlData, TypeOK, CtlRecords, CtlPlaces
  <2>3. CASE CtlWrites \/ CtlHandshake \/ CtlReady \/ CtlEnds
    BY <1>0, <2>1, <2>3 DEF CtlWrites, CtlHandshake, CtlReady, CtlEnds, CtlRecords, CtlPlaces
  <2>4. CASE CtlWaits \/ CtlFails \/ CtlStartPing \/ \E id \in Ids : CtlClose(id)
    BY <1>0, <1>a, <2>1, <2>4 DEF CtlWaits, CtlFails, CtlStartPing, CtlClose
  <2>5. QED
    BY <1>0, <1>2, <2>1, <2>2, <2>3, <2>4 DEF Control
<1>3. ASSUME NEW x \in Sessions, NEW k \in Calls, TimerFires(x, k) PROVE Goal
  <2>1. [NoCall EXCEPT !.at = "fired", !.id = of[x]] \in CallRecords
    BY <1>a DEF TypeOK, CallRecords, CallPlaces
  <2>2. QED
    BY <1>0, <1>3, <2>1 DEF TimerFires
<1>4. ASSUME NEW k \in Calls, Call(k) PROVE Goal
  <2>1. ctl' = ctl
    BY <1>4 DEF Call, CallLooks, CallCounts, CallWaits, CallRemoves, CallUnchanged
  <2>2. CASE CallLooks(k)
    <3> DEFINE x == sessions[calls[k].id]
               new == IF x = None THEN [calls[k] EXCEPT !.at = "expired"]
                      ELSE [calls[k] EXCEPT !.at = "counted", !.sess = x,
                                            !.count = idle[x] + 1]
    <3>1. calls[k] \in CallRecords /\ x \in Sessions \cup {None}
      BY <1>0, CallTyped DEF TypeOK
    <3>2. x # None => idle[x] + 1 \in Nat
      BY <3>1 DEF TypeOK
    <3>3. new \in CallRecords
      BY <3>1, <3>2 DEF CallRecords, CallPlaces
    <3>4. calls' = [calls EXCEPT ![k] = new]
      BY <2>2 DEF CallLooks
    <3>5. QED
      BY <1>0, <2>1, <3>3, <3>4
  <2>3. CASE CallCounts(k)
    <3> DEFINE new == [calls[k] EXCEPT
                         !.at = IF calls[k].count < Retries THEN "again" ELSE "expired",
                         !.sess = None, !.count = 0]
    <3>1. new \in CallRecords
      BY <1>0 DEF CallRecords, CallPlaces
    <3>2. calls' = [calls EXCEPT ![k] = new]
      BY <1>0, <2>3 DEF CallCounts, CallRecords
    <3>3. QED
      BY <1>0, <2>1, <3>1, <3>2
  <2>4. CASE CallWaits(k) \/ CallRemoves(k)
    BY <1>0, <1>a, <2>1, <2>4 DEF CallWaits, CallRemoves
  <2>5. QED
    BY <1>4, <2>2, <2>3, <2>4 DEF Call
<1>5. QED
  BY <1>1, <1>2, <1>3, <1>4
     DEF Next, ReceiveLoop, Open, CloseById, CloseControl, PingTimeout, Reader, ReaderGets,
         ReaderForwards, ReaderFails, ReaderLeaves, ReaderGoto, GoQuiet, vars

LEMMA TypeNext ==
  ASSUME TypeOK, [Next]_vars
  PROVE  TypeOK'
BY FlagsNext, SessionsNext, WaitsNext, HoldersNext DEF TypeOK, CallRecords, CtlRecords

-----------------------------------------------------------------------------

LEMMA UdpInvNext ==
  ASSUME UdpInv, [Next]_vars
  PROVE  UdpInv'
<1>1. TypeOK'
  BY TypeNext DEF UdpInv
<1>2. MapInv'
  BY MapNext DEF UdpInv
<1>3. TimersAreOfOpenSessions'
  BY ArmedNext, ClosedNext DEF UdpInv, TimersAreOfOpenSessions
<1>4. PingEndsWithChannel'
  BY PingNext DEF UdpInv
<1>5. QED
  BY <1>1, <1>2, <1>3, <1>4 DEF UdpInv

LEMMA UdpInvCorrect == Spec => []UdpInv
BY UdpInvInit, UdpInvNext, PTL DEF Spec

(* The state of the UDP side has the types that udp.go gives it. *)
THEOREM UdpTypeCorrect == Spec => []TypeOK
<1>1. UdpInv => TypeOK
  BY DEF UdpInv
<1>2. QED
  BY <1>1, UdpInvCorrect, PTL

(* However often the server uses an id again, the map leads to every open   *)
(* socket and to no other (udp.go:28-36, 169-196).                          *)
THEOREM SocketsStayReachable == Spec => []SocketsAreReachable
<1>1. UdpInv => SocketsAreReachable
  BY DEF UdpInv, MapInv
<1>2. QED
  BY <1>1, UdpInvCorrect, PTL

(* No callback, however late, leaves a timer armed for a closed session, and *)
(* nothing is open after closeControl (udp.go:198-233).                      *)
THEOREM TimersStayOfOpenSessions == Spec => []TimersAreOfOpenSessions
<1>1. UdpInv => TimersAreOfOpenSessions
  BY DEF UdpInv
<1>2. QED
  BY <1>1, UdpInvCorrect, PTL

(* The ping never outlives the goroutine that reads the channel             *)
(* (udp.go:69, 299-325).                                                    *)
THEOREM PingEnds == Spec => []PingEndsWithChannel
<1>1. UdpInv => PingEndsWithChannel
  BY DEF UdpInv
<1>2. QED
  BY <1>1, UdpInvCorrect, PTL
=============================================================================
