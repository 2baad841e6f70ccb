------------------------- MODULE TunnelRunnerProofs --------------------------
(* Proofs about TunnelRunner for any clients, any finite set of handlers and *)
(* any least and greatest delay.                                             *)
EXTENDS TunnelRunner, FiniteSetTheorems, TLAPS

-----------------------------------------------------------------------------
(* The inductive invariant. *)

\* Run has a client from the first attempt on, and stop() has a reason.
PlaceInv ==
  /\ pc \in {"dial", "register", "receive", "decode"} => current \in Clients
  /\ pc = "stop" => cancelled

\* The handlers for which activeSessions was increased and not decreased yet.
Counted(c) == {h \in Handlers : of[h] = c /\ work[h] \in {"server", "copy", "request"}}

\* GaugeCoversCopies, from the increase on: a handler that dials the server is
\* counted, too.
GaugeInv == \A c \in Clients : active[c] >= Cardinality(Counted(c))

RunnerInv ==
  /\ TypeOK
  /\ PlaceInv
  /\ GaugeInv
  /\ OneRegistration
  /\ StatusFits
  /\ BackoffIsBounded

LEMMA RunnerInvInit == Init => RunnerInv
<1> SUFFICES ASSUME Init PROVE RunnerInv
  OBVIOUS
<1>1. TypeOK
  BY BackoffAssumption DEF Init, TypeOK, RunPlaces
<1>2. PlaceInv /\ StatusFits
  BY DEF Init, PlaceInv, StatusFits, Receiving
<1>3. BackoffIsBounded
  BY BackoffAssumption DEF Init, BackoffIsBounded, Receiving
<1>4. OneRegistration
  BY DEF Init, OneRegistration, Receiving
<1>5. GaugeInv
  <2> SUFFICES ASSUME NEW c \in Clients PROVE active[c] >= Cardinality(Counted(c))
    BY DEF GaugeInv
  <2>1. Counted(c) = {}
    BY DEF Init, Counted
  <2>2. QED
    BY <2>1, FS_EmptySet DEF Init
<1>6. QED
  BY <1>1, <1>2, <1>3, <1>4, <1>5 DEF RunnerInv

-----------------------------------------------------------------------------
(* What the steps change. *)

\* The handlers and heartbeats leave Run and the connections alone.
LEMMA GoroutinesLeaveRun ==
  ASSUME \/ \E c \in Clients : Beat(c)
         \/ \E h \in Handlers : Handler(h)
  PROVE  UNCHANGED <<pc, current, backoff, status, cancelled, share, control, enc, done>>
BY DEF Beat, Handler, LocalFails, LocalConnects, ServerFails, ServerConnects,
       RequestBegins, RequestEnds, CopyEnds, FetchAnswers, FetchFails,
       TestEncoder, Report, Work, runVars, clientVars

\* Only five steps move a handler into or out of Counted, or change a gauge.
LEMMA GaugeStep ==
  ASSUME TypeOK, [Next]_vars
  PROVE  \/ active' = active /\ \A c \in Clients : Counted(c)' \subseteq Counted(c)
         \/ \E c \in Clients : Attempt(c)
         \/ \E h \in Handlers : LocalConnects(h) \/ CopyEnds(h)
<1>1. CASE Begin \/ GiveUp \/ Dial \/ ConnectFails \/ Register \/ Receive \/ PlainMessage
           \/ ErrorMessage \/ ConnectionEnds \/ Awake \/ Stop \/ Stopped \/ Cancel
           \/ \E c \in Clients : Collect(c)
  <2>1. active' = active /\ work' = work /\ of' = of
    BY <1>1 DEF Begin, GiveUp, Dial, ConnectFails, Register, Receive, PlainMessage,
                ErrorMessage, ConnectionEnds, Awake, Stop, Stopped, Cancel, Collect,
                handlerVars
  <2>2. QED
    BY <2>1 DEF Counted
<1>2. CASE \E h \in Handlers : Handle(h, "local") \/ Handle(h, "fetch")
  BY <1>2 DEF Handle, Counted, TypeOK
<1>3. CASE \E c \in Clients : Beat(c)
  BY <1>3 DEF Beat, Counted, handlerVars
<1>4. ASSUME NEW h \in Handlers, Handler(h), ~LocalConnects(h), ~CopyEnds(h)
      PROVE  active' = active /\ \A c \in Clients : Counted(c)' \subseteq Counted(c)
  <2>1. active' = active /\ of' = of
    BY <1>4 DEF Handler, LocalFails, ServerFails, ServerConnects, RequestBegins, RequestEnds,
                FetchAnswers, FetchFails, TestEncoder, Report, Work
  <2>2. PICK to : /\ work' = [work EXCEPT ![h] = to]
                  /\ to \in {"server", "copy", "request"} => work[h] \in {"server", "copy", "request"}
    BY <1>4 DEF Handler, LocalFails, ServerFails, ServerConnects, RequestBegins, RequestEnds,
                FetchAnswers, FetchFails, TestEncoder, Report, Work
  <2>3. QED
    BY <2>1, <2>2 DEF Counted, TypeOK
<1>5. CASE UNCHANGED vars
  BY <1>5 DEF vars, handlerVars, Counted
<1>6. QED
  BY <1>1, <1>2, <1>3, <1>4, <1>5 DEF Next, Run

LEMMA GaugeNext ==
  ASSUME TypeOK, GaugeInv, [Next]_vars
  PROVE  GaugeInv'
<1> SUFFICES ASSUME NEW c \in Clients PROVE active'[c] >= Cardinality(Counted(c)')
  BY DEF GaugeInv
<1>1. active[c] \in Nat /\ active[c] >= Cardinality(Counted(c))
  BY DEF GaugeInv, TypeOK
<1>2. IsFiniteSet(Counted(c)) /\ Cardinality(Counted(c)) \in Nat
  BY HandlersAssumption, FS_Subset, FS_CardinalityType DEF Counted
<1>3. CASE active' = active /\ Counted(c)' \subseteq Counted(c)
  <2>1. Cardinality(Counted(c)') <= Cardinality(Counted(c)) /\ IsFiniteSet(Counted(c)')
    BY <1>2, <1>3, FS_Subset
  <2>2. Cardinality(Counted(c)') \in Nat
    BY <2>1, FS_CardinalityType
  <2>3. QED
    BY <1>1, <1>2, <1>3, <2>1, <2>2
<1>4. ASSUME NEW d \in Clients, Attempt(d)
      PROVE  active'[c] >= Cardinality(Counted(c)')
  <2>1. CASE c = d
    <3>1. Counted(c)' = {}
      BY <1>4, <2>1 DEF Attempt, Unused, Counted, handlerVars
    <3>2. active'[c] = 0
      BY <1>4, <2>1 DEF Attempt, TypeOK
    <3>3. QED
      BY <3>1, <3>2, FS_EmptySet
  <2>2. CASE c # d
    <3>1. Counted(c)' = Counted(c) /\ active'[c] = active[c]
      BY <1>4, <2>2 DEF Attempt, Counted, handlerVars, TypeOK
    <3>2. QED
      BY <1>1, <3>1
  <2>3. QED
    BY <2>1, <2>2
<1>5. ASSUME NEW h \in Handlers, LocalConnects(h)
      PROVE  active'[c] >= Cardinality(Counted(c)')
  <2>1. CASE c = of[h]
    <3>1. Counted(c)' = Counted(c) \cup {h}
      BY <1>5, <2>1 DEF LocalConnects, Work, Counted, TypeOK
    <3>2. active'[c] = active[c] + 1
      BY <1>5, <2>1 DEF LocalConnects, TypeOK
    <3>3. Cardinality(Counted(c)') <= Cardinality(Counted(c)) + 1
      BY <1>2, <3>1, FS_AddElement
    <3>4. Cardinality(Counted(c)') \in Nat
      BY <1>2, <3>1, FS_AddElement, FS_CardinalityType
    <3>5. QED
      BY <1>1, <1>2, <3>2, <3>3, <3>4
  <2>2. CASE c # of[h]
    <3>1. Counted(c)' = Counted(c) /\ active'[c] = active[c]
      BY <1>5, <2>2 DEF LocalConnects, Work, Counted, TypeOK
    <3>2. QED
      BY <1>1, <3>1
  <2>3. QED
    BY <2>1, <2>2
<1>6. ASSUME NEW h \in Handlers, CopyEnds(h)
      PROVE  active'[c] >= Cardinality(Counted(c)')
  <2>1. CASE c = of[h]
    <3>1. Counted(c)' = Counted(c) \ {h} /\ h \in Counted(c)
      BY <1>6, <2>1 DEF CopyEnds, Work, Counted, TypeOK
    <3>2. active'[c] = active[c] - 1
      BY <1>6, <2>1 DEF CopyEnds, TypeOK
    <3>3. Cardinality(Counted(c)') = Cardinality(Counted(c)) - 1
      BY <1>2, <3>1, FS_RemoveElement
    <3>4. QED
      BY <1>1, <1>2, <3>2, <3>3
  <2>2. CASE c # of[h]
    <3>1. Counted(c)' = Counted(c) /\ active'[c] = active[c]
      BY <1>6, <2>2 DEF CopyEnds, Work, Counted, TypeOK
    <3>2. QED
      BY <1>1, <3>1
  <2>3. QED
    BY <2>1, <2>2
<1>7. QED
  BY <1>3, <1>4, <1>5, <1>6, GaugeStep

-----------------------------------------------------------------------------
(* Types. *)

\* The steps of Run and its environment, all defined by what they change.
LEMMA TypesOfRun ==
  ASSUME TypeOK, Run
  PROVE  /\ pc' \in RunPlaces
         /\ current' \in Clients \cup {Nobody}
         /\ status' \in {"pending", "connecting", "active", "degraded", "error", "stopped"}
         /\ share' \in {"none", "down", "up"}
         /\ backoff' \in Nat
<1> USE DEF TypeOK, RunPlaces, Publish, Goto
<1>1. CASE Begin \/ GiveUp \/ Dial \/ ConnectFails \/ Receive \/ PlainMessage \/ ErrorMessage
           \/ \E h \in Handlers : Handle(h, "local") \/ Handle(h, "fetch")
  BY <1>1 DEF Begin, GiveUp, Dial, ConnectFails, Receive, PlainMessage, ErrorMessage, Handle
<1>2. CASE Register
  BY <1>2, BackoffAssumption DEF Register
<1>3. CASE \E c \in Clients : Attempt(c)
  BY <1>3 DEF Attempt
<1>4. CASE ConnectionEnds \/ Stop \/ Stopped
  BY <1>4 DEF ConnectionEnds, Stop, Stopped
<1>5. CASE Awake
  BY <1>5, BackoffAssumption DEF Awake
<1>6. QED
  BY <1>1, <1>2, <1>3, <1>4, <1>5 DEF Run

LEMMA TypesOfClients ==
  ASSUME TypeOK, [Next]_vars
  PROVE  /\ control' \in [Clients -> {"none", "open", "registered", "closed"}]
         /\ beat' \in [Clients -> {"none", "wait", "tick", "exit"}]
<1> USE DEF TypeOK
<1>1. CASE Begin \/ GiveUp \/ ConnectFails \/ Receive \/ PlainMessage \/ ErrorMessage \/ Awake
           \/ Stopped \/ Cancel \/ \E h \in Handlers : Handle(h, "local") \/ Handle(h, "fetch")
  BY <1>1 DEF Begin, GiveUp, ConnectFails, Receive, PlainMessage, ErrorMessage, Awake,
              Stopped, Cancel, Handle, clientVars
<1>2. CASE Dial \/ Register \/ \E c \in Clients : Attempt(c) \/ Collect(c)
  BY <1>2 DEF Dial, Register, Attempt, Collect
<1>3. CASE ConnectionEnds \/ Stop
  BY <1>3 DEF ConnectionEnds, Stop, CloseControl, clientVars
<1>4. CASE \E c \in Clients : Beat(c)
  BY <1>4 DEF Beat, BeatTick, BeatPing, BeatDone, clientVars
<1>5. CASE \E h \in Handlers : Handler(h)
  BY <1>5 DEF Handler, LocalFails, LocalConnects, ServerFails, ServerConnects,
              RequestBegins, RequestEnds, CopyEnds,
              FetchAnswers, FetchFails, TestEncoder, Report, Work, clientVars
<1>6. CASE UNCHANGED vars
  BY <1>6 DEF vars, clientVars
<1>7. QED
  BY <1>1, <1>2, <1>3, <1>4, <1>5, <1>6 DEF Next, Run

LEMMA FlagsOfProcess ==
  ASSUME TypeOK, [Next]_vars
  PROVE  cancelled' \in BOOLEAN /\ crashed' \in BOOLEAN
<1>1. cancelled \in BOOLEAN /\ crashed \in BOOLEAN
  BY DEF TypeOK
<1>2. (cancelled' = cancelled) \/ (cancelled' = TRUE)
  <2>1. CASE Run
    BY <2>1 DEF Run, Begin, GiveUp, Attempt, Dial, ConnectFails, Register, Receive,
                PlainMessage, ErrorMessage, Handle, ConnectionEnds, Awake, Stop, Stopped
  <2>2. CASE ~Run
    BY <2>2, GoroutinesLeaveRun DEF Next, Cancel, Collect, vars
  <2>3. QED
    BY <2>1, <2>2
<1>3. ASSUME NEW c \in Clients, Beat(c) PROVE crashed' \in BOOLEAN
  <2>1. (crashed' = crashed) \/ (crashed' = ~enc[c])
    BY <1>3 DEF Beat, BeatTick, BeatPing, BeatDone, Encode
  <2>2. QED
    BY <1>1, <2>1
<1>4. ASSUME NEW h \in Handlers, Handler(h) PROVE crashed' \in BOOLEAN
  <2>1. (crashed' = crashed) \/ (crashed' = ~enc[of[h]])
    BY <1>4 DEF Handler, LocalFails, LocalConnects, ServerFails, ServerConnects,
              RequestBegins, RequestEnds, CopyEnds,
                FetchAnswers, FetchFails, TestEncoder, Report, Encode
  <2>2. QED
    BY <1>1, <2>1
<1>5. (crashed' = crashed) \/ (\E c \in Clients : Beat(c)) \/ (\E h \in Handlers : Handler(h))
  BY DEF Next, vars
<1>6. QED
  BY <1>1, <1>2, <1>3, <1>4, <1>5

LEMMA TypesOfFlags ==
  ASSUME TypeOK, [Next]_vars
  PROVE  /\ cancelled' \in BOOLEAN
         /\ crashed' \in BOOLEAN
         /\ enc' \in [Clients -> BOOLEAN]
         /\ done' \in [Clients -> BOOLEAN]
<1>1. /\ cancelled \in BOOLEAN
      /\ crashed \in BOOLEAN
      /\ enc \in [Clients -> BOOLEAN]
      /\ done \in [Clients -> BOOLEAN]
  BY DEF TypeOK
<1>2. CASE Begin \/ GiveUp \/ ConnectFails \/ Receive \/ PlainMessage \/ ErrorMessage \/ Awake
           \/ Stopped \/ Register \/ (\E h \in Handlers : Handle(h, "local") \/ Handle(h, "fetch"))
           \/ Cancel \/ (\E c \in Clients : Beat(c) \/ Collect(c)) \/ \E h \in Handlers : Handler(h)
  <2>1. enc' = enc /\ done' = done
    BY <1>2, GoroutinesLeaveRun
       DEF Begin, GiveUp, ConnectFails, Receive, PlainMessage, ErrorMessage, Awake, Stopped,
           Register, Handle, Cancel, Collect, clientVars
  <2>2. QED
    BY <1>1, <2>1, FlagsOfProcess
<1>3. CASE Dial \/ \E c \in Clients : Attempt(c)
  <2>1. enc' \in [Clients -> BOOLEAN] /\ done' \in [Clients -> BOOLEAN]
    BY <1>1, <1>3 DEF Dial, Attempt
  <2>2. QED
    BY <2>1, FlagsOfProcess
<1>4. CASE ConnectionEnds \/ Stop
  <2>1. enc' = enc \/ enc' = [enc EXCEPT ![current] = FALSE]
    BY <1>4 DEF ConnectionEnds, Stop, CloseControl, clientVars
  <2>2. done' = done \/ done' = [done EXCEPT ![current] = (control[current] # "none")]
    BY <1>4 DEF ConnectionEnds, Stop, CloseControl, clientVars
  <2>3. enc' \in [Clients -> BOOLEAN]
    BY <1>1, <2>1
  <2>4. done' \in [Clients -> BOOLEAN]
    <3>1. (control[current] # "none") \in BOOLEAN
      OBVIOUS
    <3>2. QED
      BY <1>1, <2>2, <3>1
  <2>5. QED
    BY <2>3, <2>4, FlagsOfProcess
<1>5. CASE UNCHANGED vars
  BY <1>1, <1>5 DEF vars, clientVars
<1>6. QED
  BY <1>2, <1>3, <1>4, <1>5 DEF Next, Run

LEMMA TypesOfHandlers ==
  ASSUME TypeOK, PlaceInv, GaugeInv, [Next]_vars
  PROVE  /\ active' \in [Clients -> Nat]
         /\ work' \in [Handlers -> {"free", "local", "server", "copy", "fetch", "failed",
                                     "request", "report"}]
         /\ of' \in [Handlers -> Clients]
<1> USE DEF TypeOK
<1>1. CASE Begin \/ GiveUp \/ Dial \/ ConnectFails \/ Register \/ Receive \/ PlainMessage
           \/ ErrorMessage \/ ConnectionEnds \/ Awake \/ Stop \/ Stopped \/ Cancel
           \/ \E c \in Clients : Collect(c)
  BY <1>1 DEF Begin, GiveUp, Dial, ConnectFails, Register, Receive, PlainMessage,
              ErrorMessage, ConnectionEnds, Awake, Stop, Stopped, Cancel, Collect, handlerVars
<1>2. CASE \E h \in Handlers : Handle(h, "local") \/ Handle(h, "fetch")
  BY <1>2 DEF Handle, PlaceInv
<1>3. CASE \E c \in Clients : Attempt(c)
  BY <1>3 DEF Attempt, handlerVars
<1>4. CASE \E c \in Clients : Beat(c)
  BY <1>4 DEF Beat, handlerVars
<1>5. ASSUME NEW h \in Handlers, Handler(h), ~CopyEnds(h)
      PROVE  /\ active' \in [Clients -> Nat]
             /\ work' \in [Handlers -> {"free", "local", "server", "copy", "fetch", "failed",
                                         "request", "report"}]
             /\ of' \in [Handlers -> Clients]
  BY <1>5 DEF Handler, LocalFails, LocalConnects, ServerFails, ServerConnects,
              RequestBegins, RequestEnds, FetchAnswers, FetchFails, TestEncoder, Report, Work
<1>6. ASSUME NEW h \in Handlers, CopyEnds(h) PROVE active' \in [Clients -> Nat]
  <2>1. h \in Counted(of[h]) /\ IsFiniteSet(Counted(of[h]))
    BY <1>6, HandlersAssumption, FS_Subset DEF CopyEnds, Work, Counted
  <2>2. Cardinality(Counted(of[h])) \in Nat /\ Cardinality(Counted(of[h])) # 0
    BY <2>1, FS_EmptySet, FS_CardinalityType
  <2>3. active[of[h]] \in Nat \ {0}
    BY <2>2 DEF GaugeInv
  <2>4. QED
    BY <1>6, <2>3 DEF CopyEnds
<1>7. ASSUME NEW h \in Handlers, CopyEnds(h)
      PROVE  /\ work' \in [Handlers -> {"free", "local", "server", "copy", "fetch", "failed",
                                         "request", "report"}]
             /\ of' \in [Handlers -> Clients]
  BY <1>7 DEF CopyEnds, Work
<1>8. CASE UNCHANGED vars
  BY <1>8 DEF vars, handlerVars
<1>9. QED
  BY <1>1, <1>2, <1>3, <1>4, <1>5, <1>6, <1>7, <1>8 DEF Next, Run

LEMMA TypeNext ==
  ASSUME TypeOK, PlaceInv, GaugeInv, [Next]_vars
  PROVE  TypeOK'
<1>1. CASE Run
  BY <1>1, TypesOfRun, TypesOfClients, TypesOfFlags, TypesOfHandlers DEF TypeOK
<1>2. CASE ~Run
  <2>1. /\ pc' = pc /\ current' = current /\ backoff' = backoff
        /\ status' = status /\ share' = share
    BY <1>2, GoroutinesLeaveRun DEF Next, Cancel, Collect, vars, runVars
  <2>2. QED
    BY <2>1, TypesOfClients, TypesOfFlags, TypesOfHandlers DEF TypeOK
<1>3. QED
  BY <1>1, <1>2

-----------------------------------------------------------------------------
(* Places, registrations, states and delays. *)

LEMMA PlaceNext ==
  ASSUME TypeOK, PlaceInv, [Next]_vars
  PROVE  PlaceInv'
<1> USE DEF PlaceInv
<1>1. CASE \E c \in Clients : Attempt(c)
  BY <1>1 DEF Attempt, Goto
<1>2. CASE Stop
  BY <1>2 DEF Stop, Goto
<1>3. CASE Cancel
  BY <1>3 DEF Cancel, runVars
<1>4. CASE Begin \/ GiveUp \/ Dial \/ ConnectFails \/ Register \/ Receive \/ PlainMessage
           \/ ErrorMessage \/ ConnectionEnds \/ Awake \/ Stopped
           \/ \E h \in Handlers : Handle(h, "local") \/ Handle(h, "fetch")
  BY <1>4 DEF Begin, GiveUp, Dial, ConnectFails, Register, Receive, PlainMessage,
              ErrorMessage, ConnectionEnds, Awake, Stopped, Handle, Goto
<1>5. CASE UNCHANGED <<pc, current, cancelled>>
  BY <1>5
<1>6. QED
  BY <1>1, <1>2, <1>3, <1>4, <1>5, GoroutinesLeaveRun DEF Next, Run, Collect, vars, runVars

LEMMA OneRegistrationNext ==
  ASSUME TypeOK, PlaceInv, OneRegistration, [Next]_vars
  PROVE  OneRegistration'
<1> USE DEF TypeOK, OneRegistration, Receiving, Goto
<1>1. CASE \E c \in Clients : Attempt(c)
  BY <1>1 DEF Attempt
<1>2. CASE Dial
  BY <1>2 DEF Dial
<1>3. CASE Register
  BY <1>3 DEF Register, PlaceInv
<1>4. CASE ConnectionEnds \/ Stop
  <2>1. ASSUME NEW c \in Clients PROVE control'[c] # "registered"
    <3>1. CASE current = Nobody
      <4>1. control' = control
        BY <1>4, <3>1 DEF ConnectionEnds, Stop, CloseControl, clientVars
      <4>2. QED
        BY <3>1, <4>1, ClientsAssumption
    <3>2. CASE current # Nobody
      <4>1. control' = [control EXCEPT ![current] =
                          IF control[current] = "none" THEN control[current] ELSE "closed"]
        BY <1>4, <3>2 DEF ConnectionEnds, Stop, CloseControl
      <4>2. QED
        BY <4>1
    <3>3. QED
      BY <3>1, <3>2
  <2>2. pc' \notin {"receive", "decode"}
    BY <1>4 DEF ConnectionEnds, Stop
  <2>3. QED
    BY <2>1, <2>2
<1>5. CASE \E c \in Clients : Collect(c)
  BY <1>5 DEF Collect, runVars
<1>6. CASE Begin \/ GiveUp \/ ConnectFails \/ Receive \/ PlainMessage \/ ErrorMessage \/ Awake
           \/ Stopped \/ \E h \in Handlers : Handle(h, "local") \/ Handle(h, "fetch")
  BY <1>6 DEF Begin, GiveUp, ConnectFails, Receive, PlainMessage, ErrorMessage, Awake,
              Stopped, Handle, clientVars
<1>7. CASE UNCHANGED <<pc, current, control>>
  BY <1>7
<1>8. QED
  BY <1>1, <1>2, <1>3, <1>4, <1>5, <1>6, <1>7, GoroutinesLeaveRun
     DEF Next, Run, Cancel, vars, runVars, clientVars

LEMMA StatusNext ==
  ASSUME TypeOK, StatusFits, [Next]_vars
  PROVE  StatusFits'
<1> USE DEF StatusFits, Receiving, Goto, Publish
<1>1. CASE Begin \/ GiveUp \/ (\E c \in Clients : Attempt(c)) \/ Dial \/ ConnectFails
           \/ Register \/ Receive \/ PlainMessage \/ ErrorMessage \/ Awake \/ Stopped
           \/ \E h \in Handlers : Handle(h, "local") \/ Handle(h, "fetch")
  BY <1>1 DEF Begin, GiveUp, Attempt, Dial, ConnectFails, Register, Receive, PlainMessage,
              ErrorMessage, Awake, Stopped, Handle
<1>2. CASE ConnectionEnds
  BY <1>2 DEF ConnectionEnds
<1>3. CASE Stop
  BY <1>3 DEF Stop
<1>4. CASE UNCHANGED <<pc, status>>
  BY <1>4
<1>5. QED
  BY <1>1, <1>2, <1>3, <1>4, GoroutinesLeaveRun
     DEF Next, Run, Cancel, Collect, vars, runVars

LEMMA BackoffNext ==
  ASSUME TypeOK, BackoffIsBounded, [Next]_vars
  PROVE  BackoffIsBounded'
<1> USE BackoffAssumption DEF BackoffIsBounded, Receiving, Goto
<1>1. CASE Begin \/ GiveUp \/ (\E c \in Clients : Attempt(c)) \/ Dial \/ ConnectFails
           \/ Receive \/ PlainMessage \/ ErrorMessage \/ ConnectionEnds \/ Stop \/ Stopped
           \/ \E h \in Handlers : Handle(h, "local") \/ Handle(h, "fetch")
  BY <1>1 DEF Begin, GiveUp, Attempt, Dial, ConnectFails, Receive, PlainMessage,
              ErrorMessage, ConnectionEnds, Stop, Stopped, Handle
<1>2. CASE Register
  BY <1>2 DEF Register
<1>3. CASE Awake
  BY <1>3 DEF Awake
<1>4. CASE UNCHANGED <<pc, backoff>>
  BY <1>4
<1>5. QED
  BY <1>1, <1>2, <1>3, <1>4, GoroutinesLeaveRun
     DEF Next, Run, Cancel, Collect, vars, runVars

LEMMA RunnerInvNext == RunnerInv /\ [Next]_vars => RunnerInv'
BY TypeNext, PlaceNext, GaugeNext, OneRegistrationNext, StatusNext, BackoffNext DEF RunnerInv

LEMMA RunnerInvCorrect == Spec => []RunnerInv
BY RunnerInvInit, RunnerInvNext, PTL DEF Spec

-----------------------------------------------------------------------------
(* The theorems. *)

\* The variables of a runner keep their types; a gauge never goes below zero.
THEOREM RunnerTypeCorrect == Spec => []TypeOK
BY RunnerInvCorrect, PTL DEF RunnerInv

\* The server has one registration of a tunnel at most, that of the client to which
\* Run listens.
THEOREM RegistrationIsOne == Spec => []OneRegistration
BY RunnerInvCorrect, PTL DEF RunnerInv

\* The published state fits what Run does with the connection.
THEOREM StatusIsTold == Spec => []StatusFits
BY RunnerInvCorrect, PTL DEF RunnerInv

\* Delays stay between the least and the greatest.
THEOREM DelaysAreBounded == Spec => []BackoffIsBounded
BY RunnerInvCorrect, PTL DEF RunnerInv

\* The gauge of active sessions hides no connection that is being copied.
THEOREM GaugesCoverCopies == Spec => []GaugeCoversCopies
<1>1. RunnerInv => GaugeCoversCopies
  <2> SUFFICES ASSUME RunnerInv, NEW c \in Clients
               PROVE  active[c] >= Cardinality({h \in Handlers : of[h] = c /\ work[h] \in {"copy", "request"}})
    BY DEF GaugeCoversCopies
  <2> DEFINE copies == {h \in Handlers : of[h] = c /\ work[h] \in {"copy", "request"}}
  <2>1. IsFiniteSet(Counted(c)) /\ copies \subseteq Counted(c)
    BY HandlersAssumption, FS_Subset DEF Counted
  <2>2. IsFiniteSet(copies) /\ Cardinality(copies) <= Cardinality(Counted(c))
    BY <2>1, FS_Subset
  <2>3. Cardinality(copies) \in Nat /\ Cardinality(Counted(c)) \in Nat
    BY <2>1, <2>2, FS_CardinalityType
  <2>4. active[c] \in Nat /\ active[c] >= Cardinality(Counted(c))
    BY DEF RunnerInv, TypeOK, GaugeInv
  <2>5. QED
    BY <2>2, <2>3, <2>4
<1>2. QED
  BY <1>1, RunnerInvCorrect, PTL

LEMMA StepLives == RunnerInv /\ [Next]_vars => [Life!Next]_(Life!vars)
<1> SUFFICES ASSUME RunnerInv, [Next]_vars PROVE [Life!Next]_(Life!vars)
  OBVIOUS
<1> USE DEF Life!vars, Goto, Publish
<1>1. CASE Cancel
  BY <1>1 DEF Cancel, runVars, Life!Next, Life!Cancel
<1>2. CASE Begin
  BY <1>2 DEF Begin, Life!Next, Life!Begin
<1>3. CASE GiveUp
  BY <1>3 DEF GiveUp, Life!Next, Life!GiveUp
<1>4. CASE (\E c \in Clients : Attempt(c)) \/ ConnectFails \/ Register \/ ErrorMessage
  BY <1>4 DEF Attempt, ConnectFails, Register, ErrorMessage, Life!Next, Life!Publish,
              Life!RunStates
<1>5. CASE ConnectionEnds
  BY <1>5 DEF ConnectionEnds, Life!Next, Life!Publish, Life!RunStates
<1>6. CASE Stopped
  BY <1>6 DEF Stopped, Life!Next, Life!Stop, RunnerInv, PlaceInv
<1>7. CASE Dial \/ Receive \/ PlainMessage \/ Awake \/ Stop
           \/ \E h \in Handlers : Handle(h, "local") \/ Handle(h, "fetch")
  BY <1>7 DEF Dial, Receive, PlainMessage, Awake, Stop, Handle
<1>8. CASE UNCHANGED <<pc, cancelled, status>>
  BY <1>8
<1>9. QED
  BY <1>1, <1>2, <1>3, <1>4, <1>5, <1>6, <1>7, <1>8, GoroutinesLeaveRun
     DEF Next, Run, Collect, vars, runVars

\* A runner keeps what the manager counts on, whatever the server does and however
\* many goroutines of earlier connections are left.
THEOREM RunnerRefinesLife == Spec => ImplementsRunnerLife
<1>1. Init => Life!Init
  BY DEF Init, Life!Init
<1>2. QED
  BY <1>1, StepLives, RunnerInvCorrect, PTL DEF Spec, ImplementsRunnerLife, Life!Spec
=============================================================================
