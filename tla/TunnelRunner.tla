---------------------------- MODULE TunnelRunner -----------------------------
(***************************************************************************)
(* clientcore.Runner.Run (pkg/xtprocore/clientcore/runner.go) for a tunnel *)
(* of the http or file protocol: the reconnect loop, the runtimeClient of  *)
(* each attempt, and the goroutines that use the client's encoder, which   *)
(* are the heartbeat and the handlers of "proxy" and "http_request"        *)
(* messages.  They outlive the attempt that started them, so clients       *)
(* coexist.                                                                *)
(*                                                                         *)
(* closeControl is one step: an encode that falls between its statements   *)
(* is like one that came before it.  The server may answer, break the      *)
(* connection or send any message at any time.                             *)
(***************************************************************************)
EXTENDS Naturals, FiniteSets

CONSTANTS
  Clients,    \* identities of runtimeClients; reused when nothing refers to one
  Handlers,   \* identities of handler goroutines
  MinBackoff, \* cfg.ReconnectBackoffMin
  MaxBackoff, \* cfg.ReconnectBackoffMax
  MaxActive,  \* bound: how far the activeSessions of a client may go
  Nobody      \* no client

ASSUME BackoffAssumption ==
  /\ MinBackoff \in Nat \ {0}
  /\ MaxBackoff \in Nat
  /\ MinBackoff <= MaxBackoff

ASSUME ClientsAssumption == Nobody \notin Clients

ASSUME HandlersAssumption == IsFiniteSet(Handlers)

ASSUME ActiveAssumption == MaxActive \in Nat

VARIABLES
  pc,        \* where Run is
  cancelled, \* its context was cancelled
  current,   \* r.client
  backoff,
  status,    \* r.status.State, as published
  share,     \* r.share: "none" when the tunnel shares no files
  control,   \* the control connection of each client
  enc,       \* whether its encoder is there, that is, not nil
  done,      \* whether its done channel is closed
  beat,      \* its heartbeatLoop
  active,    \* its activeSessions
  work,      \* what each handler does
  of,        \* the client that each handler belongs to
  crashed    \* the process has died of a nil pointer

runVars == <<pc, current, backoff, status>>
clientVars == <<control, enc, done>>
handlerVars == <<work, of>>
vars == <<runVars, cancelled, share, clientVars, beat, active, handlerVars, crashed>>

RunPlaces == {"begin", "top", "dial", "register", "receive", "decode", "retry",
              "pause", "stop", "stopped", "gaveUp"}

TypeOK ==
  /\ pc \in RunPlaces
  /\ cancelled \in BOOLEAN
  /\ current \in Clients \cup {Nobody}
  /\ backoff \in Nat
  /\ status \in {"pending", "connecting", "active", "degraded", "error", "stopped"}
  /\ share \in {"none", "down", "up"}
  /\ control \in [Clients -> {"none", "open", "registered", "closed"}]
  /\ enc \in [Clients -> BOOLEAN]
  /\ done \in [Clients -> BOOLEAN]
  /\ beat \in [Clients -> {"none", "wait", "tick", "exit"}]
  /\ active \in [Clients -> Nat]
  /\ work \in [Handlers -> {"free", "local", "server", "copy", "fetch", "failed",
                            "request", "report"}]
  /\ of \in [Handlers -> Clients]
  /\ crashed \in BOOLEAN

Init ==
  /\ pc = "begin"
  /\ cancelled = FALSE
  /\ current = Nobody
  /\ backoff = MinBackoff
  /\ status = "pending"
  /\ share \in {"none", "down"}
  /\ control = [c \in Clients |-> "none"]
  /\ enc = [c \in Clients |-> FALSE]
  /\ done = [c \in Clients |-> FALSE]
  /\ beat = [c \in Clients |-> "none"]
  /\ active = [c \in Clients |-> 0]
  /\ work = [h \in Handlers |-> "free"]
  /\ of \in [Handlers -> Clients]
  /\ crashed = FALSE

-----------------------------------------------------------------------------
(* Run. *)

Publish(state) == status' = state

Goto(place) == pc' = place

\* Manager cancels the runner.
Cancel ==
  /\ ~cancelled
  /\ cancelled' = TRUE
  /\ UNCHANGED <<runVars, share, clientVars, beat, active, handlerVars>>

\* A file share is served from here on.
Begin ==
  /\ pc = "begin"
  /\ Goto("top")
  /\ share' = IF share = "down" THEN "up" ELSE share
  /\ UNCHANGED <<current, backoff, status, cancelled, clientVars, beat, active,
                 handlerVars>>

\* startFileShareServer fails: Run returns.
GiveUp ==
  /\ pc = "begin"
  /\ share = "down"
  /\ Publish("error")
  /\ Goto("gaveUp")
  /\ UNCHANGED <<current, backoff, cancelled, share, clientVars, beat, active,
                 handlerVars>>

\* Nothing refers to the client any more.
Unused(c) ==
  /\ c # current
  /\ control[c] \in {"none", "closed"}
  /\ beat[c] \in {"none", "exit"}
  /\ \A h \in Handlers : of[h] = c => work[h] = "free"

\* Mutant: nothing is published when an attempt begins.
AttemptUnseen(c) ==
  /\ pc = "top"
  /\ ~cancelled
  /\ Unused(c)
  /\ current' = c
  /\ Goto("dial")
  /\ control' = [control EXCEPT ![c] = "none"]
  /\ enc' = [enc EXCEPT ![c] = FALSE]
  /\ done' = [done EXCEPT ![c] = FALSE]
  /\ beat' = [beat EXCEPT ![c] = "none"]
  /\ active' = [active EXCEPT ![c] = 0]
  /\ UNCHANGED <<backoff, status, cancelled, share, handlerVars>>

\* A new attempt with a new runtimeClient.
Attempt(c) ==
  /\ pc = "top"
  /\ ~cancelled
  /\ Unused(c)
  /\ current' = c
  /\ Publish("connecting")
  /\ Goto("dial")
  /\ control' = [control EXCEPT ![c] = "none"]
  /\ enc' = [enc EXCEPT ![c] = FALSE]
  /\ done' = [done EXCEPT ![c] = FALSE]
  /\ beat' = [beat EXCEPT ![c] = "none"]
  /\ active' = [active EXCEPT ![c] = 0]
  /\ UNCHANGED <<backoff, cancelled, share, handlerVars>>

\* tls.Dial succeeds and "register" is sent.
Dial ==
  /\ pc = "dial"
  /\ control' = [control EXCEPT ![current] = "open"]
  /\ enc' = [enc EXCEPT ![current] = TRUE]
  /\ Goto("register")
  /\ UNCHANGED <<current, backoff, status, cancelled, share, done, beat, active,
                 handlerVars>>

\* connectControl fails before or after the connection is open; nobody closes it.
ConnectFails ==
  /\ pc \in {"dial", "register"}
  /\ Publish("error")
  /\ Goto("retry")
  /\ UNCHANGED <<current, backoff, cancelled, share, clientVars, beat, active,
                 handlerVars>>

\* The server answers "registered": the tunnel is active and its heart beats.
Register ==
  /\ pc = "register"
  /\ control' = [control EXCEPT ![current] = "registered"]
  /\ beat' = [beat EXCEPT ![current] = "wait"]
  /\ backoff' = MinBackoff
  /\ Publish("active")
  /\ Goto("receive")
  /\ UNCHANGED <<current, cancelled, share, enc, done, active, handlerVars>>

\* receiveLoop looks at the context and waits for a message.
Receive ==
  /\ pc = "receive"
  /\ ~cancelled
  /\ Goto("decode")
  /\ UNCHANGED <<current, backoff, status, cancelled, share, clientVars, beat,
                 active, handlerVars>>

\* "ping", "pong", the udp messages and unknown ones.  The status is published
\* again with new counters.
PlainMessage ==
  /\ pc = "decode"
  /\ Goto("receive")
  /\ UNCHANGED <<current, backoff, status, cancelled, share, clientVars, beat,
                 active, handlerVars>>

\* The server reports an error of the tunnel and the connection goes on.
ErrorMessage ==
  /\ pc = "decode"
  /\ Publish("error")
  /\ Goto("receive")
  /\ UNCHANGED <<current, backoff, cancelled, share, clientVars, beat, active,
                 handlerVars>>

\* "proxy" and "http_request": a goroutine of its own handles the message.
Handle(h, first) ==
  /\ pc = "decode"
  /\ work[h] = "free"
  /\ work' = [work EXCEPT ![h] = first]
  /\ of' = [of EXCEPT ![h] = current]
  /\ Goto("receive")
  /\ UNCHANGED <<current, backoff, status, cancelled, share, clientVars, beat,
                 active>>

\* closeControl of the current client, if there is one.
CloseControl ==
  IF current = Nobody
  THEN UNCHANGED clientVars
  ELSE /\ control' = [control EXCEPT ![current] =
                        IF @ = "none" THEN @ ELSE "closed"]
       /\ enc' = [enc EXCEPT ![current] = FALSE]
       /\ done' = [done EXCEPT ![current] = (control[current] # "none")]

\* Mutant: the connection is not closed after receiveLoop.
ConnectionEndsUnclosed ==
  /\ pc = "decode"
  /\ ~cancelled
  /\ status' \in {status, "degraded"}
  /\ Goto("pause")
  /\ UNCHANGED <<current, backoff, cancelled, share, clientVars, beat, active,
                 handlerVars>>

\* Decode fails.  An orderly end of the connection leaves the status as it was.
ConnectionEnds ==
  /\ pc = "decode"
  /\ ~cancelled
  /\ CloseControl
  /\ status' \in {status, "degraded"}
  /\ Goto("pause")
  /\ UNCHANGED <<current, backoff, cancelled, share, beat, active, handlerVars>>

\* Mutant: there is no new attempt after a connection has ended.
AwakeAfterFailure ==
  /\ pc = "retry"
  /\ backoff' = IF 2 * backoff > MaxBackoff THEN MaxBackoff ELSE 2 * backoff
  /\ Goto("top")
  /\ UNCHANGED <<current, status, cancelled, share, clientVars, beat, active,
                 handlerVars>>

\* The delay is over; after a failed attempt the next one is twice as long.
Awake ==
  /\ \/ /\ pc = "retry"
        /\ backoff' = IF 2 * backoff > MaxBackoff THEN MaxBackoff ELSE 2 * backoff
     \/ /\ pc = "pause"
        /\ backoff' = backoff
  /\ Goto("top")
  /\ UNCHANGED <<current, status, cancelled, share, clientVars, beat, active,
                 handlerVars>>

\* Mutant: stop() is called when nobody asked for it.
StopUnasked ==
  /\ pc \in {"top", "receive", "decode", "retry", "pause"}
  /\ CloseControl
  /\ Goto("stop")
  /\ UNCHANGED <<current, backoff, status, cancelled, share, beat, active,
                 handlerVars>>

\* Mutant: the context is looked at between two attempts only.
StopBetweenAttempts ==
  /\ pc \in {"top", "retry", "pause"}
  /\ cancelled
  /\ CloseControl
  /\ Goto("stop")
  /\ UNCHANGED <<current, backoff, status, cancelled, share, beat, active,
                 handlerVars>>

\* stop() closes the connection, wherever Run notices the cancelled context; a
\* blocked Decode notices it only with the next message or a broken connection.
Stop ==
  /\ pc \in {"top", "receive", "decode", "retry", "pause"}
  /\ cancelled
  /\ CloseControl
  /\ Goto("stop")
  /\ UNCHANGED <<current, backoff, status, cancelled, share, beat, active,
                 handlerVars>>

\* Shutdown of the file share waits for the requests it is serving, without limit.
Stopped ==
  /\ pc = "stop"
  /\ share = "up" => \A h \in Handlers : work[h] \notin {"fetch", "request"}
  /\ share' = IF share = "up" THEN "down" ELSE share
  /\ Publish("stopped")
  /\ Goto("stopped")
  /\ UNCHANGED <<current, backoff, cancelled, clientVars, beat, active, handlerVars>>

Run ==
  \/ Begin
  \/ GiveUp
  \/ \E c \in Clients : Attempt(c)
  \/ Dial
  \/ ConnectFails
  \/ Register
  \/ Receive
  \/ PlainMessage
  \/ ErrorMessage
  \/ \E h \in Handlers : Handle(h, "local") \/ Handle(h, "fetch")
  \/ ConnectionEnds
  \/ Awake
  \/ Stop
  \/ Stopped

-----------------------------------------------------------------------------
(* The goroutines that use a client's encoder. *)

\* Encode of a client whose encoder is nil takes the process down: no goroutine
\* of a client recovers from a panic.
Encode(c) == crashed' = ~enc[c]

\* heartbeatLoop: the ticker and done may both be ready, and either is taken.
BeatTick(c) ==
  /\ beat[c] = "wait"
  /\ beat' = [beat EXCEPT ![c] = "tick"]
  /\ UNCHANGED crashed

BeatPing(c) ==
  /\ beat[c] = "tick"
  /\ Encode(c)
  /\ beat' = [beat EXCEPT ![c] = "wait"]

BeatDone(c) ==
  /\ beat[c] = "wait"
  /\ done[c]
  /\ beat' = [beat EXCEPT ![c] = "exit"]
  /\ UNCHANGED crashed

Beat(c) ==
  /\ BeatTick(c) \/ BeatPing(c) \/ BeatDone(c)
  /\ UNCHANGED <<runVars, cancelled, share, clientVars, active, handlerVars>>

\* A handler moves on; its client's gauge changes or stays.
Work(h, from, to) ==
  /\ work[h] = from
  /\ work' = [work EXCEPT ![h] = to]
  /\ UNCHANGED <<runVars, cancelled, share, clientVars, beat, of>>

\* handleProxy: the local service cannot be reached.
LocalFails(h) == Work(h, "local", "report") /\ UNCHANGED <<active, crashed>>

\* Mutant: a proxied connection is not counted when it begins.
LocalConnectsUncounted(h) ==
  /\ Work(h, "local", "server")
  /\ UNCHANGED <<active, crashed>>

LocalConnects(h) ==
  /\ active[of[h]] < MaxActive
  /\ Work(h, "local", "server")
  /\ active' = [active EXCEPT ![of[h]] = @ + 1]
  /\ UNCHANGED crashed

\* The second connection to the server cannot be opened, or "proxy" not be sent.
ServerFails(h) ==
  /\ Work(h, "server", "report") \/ Work(h, "server", "free")
  /\ UNCHANGED <<active, crashed>>

ServerConnects(h) == Work(h, "server", "copy") /\ UNCHANGED <<active, crashed>>

\* The file share gets a request over a proxied connection.
RequestBegins(h) ==
  /\ share = "up"
  /\ Work(h, "copy", "request")
  /\ UNCHANGED <<active, crashed>>

\* The answer is read at the other end.  A share that is shut down closes the
\* connection then.
RequestEnds(h) ==
  /\ pc # "stop"
  /\ Work(h, "request", "copy")
  /\ UNCHANGED <<active, crashed>>

\* proxyCopyCount from the local service to the server ends.
CopyEnds(h) ==
  /\ Work(h, "copy", "free") \/ Work(h, "request", "free")
  /\ active' = [active EXCEPT ![of[h]] = @ - 1]
  /\ UNCHANGED crashed

\* handleHTTPRequest: the local service answers.
FetchAnswers(h) == Work(h, "fetch", "report") /\ UNCHANGED <<active, crashed>>

\* It fails or takes longer than 30 seconds.
FetchFails(h) == Work(h, "fetch", "failed") /\ UNCHANGED <<active, crashed>>

\* sendHTTPError tests the encoder before it uses it.
TestEncoder(h) ==
  /\ IF enc[of[h]] THEN Work(h, "failed", "report") ELSE Work(h, "failed", "free")
  /\ UNCHANGED <<active, crashed>>

\* The answer or the error is sent over the control connection.
Report(h) ==
  /\ Work(h, "report", "free")
  /\ Encode(of[h])
  /\ UNCHANGED active

Handler(h) ==
  \/ LocalFails(h)
  \/ LocalConnects(h)
  \/ ServerFails(h)
  \/ ServerConnects(h)
  \/ RequestBegins(h)
  \/ RequestEnds(h)
  \/ CopyEnds(h)
  \/ FetchAnswers(h)
  \/ FetchFails(h)
  \/ TestEncoder(h)
  \/ Report(h)

\* The garbage collector finds a connection that connectControl abandoned.
Collect(c) ==
  /\ c # current
  /\ control[c] = "open"
  /\ control' = [control EXCEPT ![c] = "closed"]
  /\ UNCHANGED <<runVars, cancelled, share, enc, done, beat, active, handlerVars>>

Next ==
  /\ ~crashed
  /\ \/ (Cancel \/ Run \/ \E c \in Clients : Collect(c)) /\ UNCHANGED crashed
     \/ \E c \in Clients : Beat(c)
     \/ \E h \in Handlers : Handler(h)

Spec == Init /\ [][Next]_vars

-----------------------------------------------------------------------------
(* Fairness. *)

Alive(A) == ~crashed /\ A /\ UNCHANGED crashed

\* tls.Dial, the registration and Decode have no deadline: Run waits for the server.
AwaitsServer == pc \in {"dial", "register", "decode"}

\* Elsewhere Run goes on.
RunFairness ==
  /\ WF_vars(Alive(~AwaitsServer /\ Run))
  /\ WF_vars(\E c \in Clients : Alive(Collect(c)))

\* A request to the local service has a timeout.  What is sent to the server, or
\* waits for it, may take for ever, as may a proxied connection.
GoroutineFairness ==
  \A h \in Handlers : WF_vars(~crashed /\ work[h] = "fetch" /\ Handler(h))

FairSpec == Spec /\ RunFairness /\ GoroutineFairness

-----------------------------------------------------------------------------
(* Properties. *)

\* Run is at its receive loop.
Receiving == pc \in {"receive", "decode"}

\* The server has one registration of the tunnel at a time, that of the current
\* client, and only while Run listens to it: it is given up before a new attempt,
\* before every delay and before stop() reports (runner.go:121-134, 175-183).
OneRegistration ==
  \A c \in Clients : control[c] = "registered" <=> c = current /\ Receiving

\* What the published state says about the connection: a tunnel is shown as active
\* only while registered, or for the delay after an orderly end, as degraded only
\* during the delay after a broken connection, and as connecting only during an
\* attempt; a listening tunnel is shown as active or has reported an error of the
\* server (runner.go:99-133, 264-286).
StatusFits ==
  /\ status = "active" => Receiving \/ pc \in {"pause", "top", "stop"}
  /\ status = "degraded" => pc \in {"pause", "top", "stop"}
  /\ status = "connecting" => pc \in {"dial", "register"}
  /\ status = "stopped" <=> pc = "stopped"
  /\ Receiving => status \in {"active", "error"}

\* The delay is never shorter than the least and never longer than the greatest
\* one, and every registration brings it back to the least (runner.go:107-134).
BackoffIsBounded ==
  /\ backoff \in MinBackoff..MaxBackoff
  /\ Receiving \/ pc = "pause" => backoff = MinBackoff

\* activeSessions counts every proxied connection that is copying and is never
\* less, although it is increased before the second connection is dialled and
\* decreased by another goroutine (runner.go:313-331).
GaugeCoversCopies ==
  \A c \in Clients :
    active[c] >= Cardinality({h \in Handlers : of[h] = c /\ work[h] \in {"copy", "request"}})

\* sendHTTPError returns when the client's encoder is nil (http.go:67): closeControl
\* may have cleared it while the handler was at work.  So no goroutine of a client
\* dies of its encoder.
NilEncoderIsSurvived == ~crashed

\* Run keeps what the manager counts on (runner.go:63-135).
Life == INSTANCE RunnerLife
          WITH life <- IF pc = "begin" THEN "new"
                       ELSE IF pc \in {"stopped", "gaveUp"} THEN "done" ELSE "run",
               shown <- status

ImplementsRunnerLife == Life!Spec

\* The server answers, sends a message (a pong for each ping, say) or breaks the
\* connection whenever Run waits for it.
ServerFairness == WF_vars(Alive(AwaitsServer /\ Run))

\* With such a server a cancelled runner ends: wherever Run is, in a delay, in the
\* middle of an attempt or of a message, it comes to see the context; unless the file
\* share is serving a request over a proxied connection, for which Shutdown waits
\* as long as it takes (runner.go:79-134, 175-183, fileshare.go:49).
StopsWhenCancelled ==
  ServerFairness =>
    (cancelled /\ pc # "gaveUp" ~>
       \/ pc \in {"stopped", "gaveUp"}
       \/ crashed
       \/ pc = "stop" /\ share = "up" /\ \E h \in Handlers : work[h] = "request")

\* A tunnel that nobody cancelled is not given up: after every failed attempt and
\* every connection that ended there is another attempt, if there is a client left
\* to make it with (runner.go:79-134).
KeepsTrying ==
  pc \in {"retry", "pause"} ~>
    \/ pc = "dial"
    \/ cancelled
    \/ crashed
    \/ pc = "top" /\ \A c \in Clients : ~Unused(c)
=============================================================================
