------------------------------- MODULE IOStreams -------------------------------
(***************************************************************************)
(* handleTerminalTask, handleNATTask and handleFMTask (cmd/agent/main.go): *)
(* an IOStream to the dashboard with a shell (pkg/pty), a connection or    *)
(* the files of the agent (pkg/fm) behind it.  Up to four kinds of         *)
(* goroutine send on the stream: the handler, the keepalive, the pump that *)
(* copies what is read from the backend, and downloads.                    *)
(*                                                                         *)
(* Messages are known by their number.  A Send ends at once when the       *)
(* stream is over; before that it may wait for the dashboard to read.      *)
(***************************************************************************)
EXTENDS Naturals

CONSTANTS
  Downloads,   \* identities of download goroutines
  MaxMessages  \* how many messages are received

ASSUME MessagesAssumption == MaxMessages \in Nat

VARIABLES
  use,       \* terminal, nat or files
  io,        \* the place of the handler
  stream,    \* the dashboard's side of the stream
  half,      \* whether CloseSend was called
  ping,      \* ioStreamKeepAlive
  pump,      \* the goroutine that reads from the backend
  backend,   \* the shell or the connection
  stalled,   \* whether it takes no input
  homely,    \* whether the home directory can be read
  polite,    \* whether the dashboard waits for the answer to a request
  received,  \* the number of messages so far
  latest,    \* that of t.remoteData; 0 if there is none, or no byte in it
  owed,      \* how much of an upload the dashboard has still to send
  left,      \* how much upload() has still to receive
  spoilt,    \* whether an upload failed
  misread,   \* whether contents were taken for a request
  down,      \* each download: its place, its request, the message it read
  crashed    \* whether a goroutine that nobody recovers panicked

endVars == <<half, ping, pump, backend, stalled>>
chatVars == <<received, latest, owed, left, spoilt, misread>>
setVars == <<use, homely, polite>>
streamVars == <<setVars, io, stream, endVars, chatVars, down, crashed>>

Sizes == 1..2
NoDownload == [at |-> "none", asked |-> 0, opened |-> 0]

StreamTypeOK ==
  /\ use \in {"terminal", "nat", "files"}
  /\ io \in {"idle", "hello", "start", "recv", "write", "list", "home", "upload", "answer",
             "close", "closeSend", "cancel", "over"}
  /\ stream \in {"none", "open", "ended"}
  /\ ping \in {"none", "wait", "send", "over"}
  /\ pump \in {"none", "read", "send", "sendError", "closeSend", "over"}
  /\ backend \in {"none", "open", "gone", "closed", "abandoned"}
  /\ {half, stalled, homely, polite, spoilt, misread, crashed} \subseteq BOOLEAN
  /\ received \in 0..MaxMessages
  /\ latest \in 0..received
  /\ {owed, left} \subseteq Sizes \cup {0}
  /\ down \in [Downloads -> [at : {"none", "go", "reply", "over"},
                             asked : 0..received, opened : 0..received]]

StreamInit ==
  /\ use \in {"terminal", "nat", "files"}
  /\ homely \in BOOLEAN
  /\ polite \in BOOLEAN
  /\ io = "idle"
  /\ stream = "none"
  /\ ping = "none"
  /\ pump = "none"
  /\ backend = "none"
  /\ received = 0
  /\ latest = 0
  /\ owed = 0
  /\ left = 0
  /\ down = [d \in Downloads |-> NoDownload]
  /\ half = FALSE
  /\ stalled = FALSE
  /\ spoilt = FALSE
  /\ misread = FALSE
  /\ crashed = FALSE

HandlerGoes(from, to) == io = from /\ io' = to

-----------------------------------------------------------------------------
(* The beginning of the three handlers. *)

\* The task is not allowed or cannot be parsed, or there is no stream.
StreamRefused ==
  /\ HandlerGoes("idle", "over")
  /\ UNCHANGED <<setVars, stream, endVars, chatVars, down, crashed>>

OpenStream ==
  /\ HandlerGoes("idle", "hello")
  /\ stream' = "open"
  /\ UNCHANGED <<setVars, endVars, chatVars, down, crashed>>

\* The id of the stream goes out.
Hello ==
  /\ stream = "open"
  /\ IF use = "files"
     THEN HandlerGoes("hello", "recv") /\ ping' = "wait"
     ELSE HandlerGoes("hello", "start") /\ UNCHANGED ping
  /\ UNCHANGED <<setVars, stream, half, pump, backend, stalled, chatVars, down, crashed>>

HelloFails ==
  /\ stream = "ended"
  /\ HandlerGoes("hello", "over")
  /\ UNCHANGED <<setVars, stream, endVars, chatVars, down, crashed>>

\* No shell, or no connection: the stream is left to the dashboard.
BackendFails ==
  /\ HandlerGoes("start", "over")
  /\ UNCHANGED <<setVars, stream, endVars, chatVars, down, crashed>>

BackendStarts ==
  /\ HandlerGoes("start", "recv")
  /\ ping' = "wait"
  /\ pump' = "read"
  /\ backend' = "open"
  /\ UNCHANGED <<setVars, stream, half, stalled, chatVars, down, crashed>>

-----------------------------------------------------------------------------
(* The dashboard and the backend. *)

StreamEnds ==
  /\ stream = "open"
  /\ stream' = "ended"
  /\ UNCHANGED <<setVars, io, endVars, chatVars, down, crashed>>

\* The shell exits, or the peer of the connection closes it.
BackendEnds ==
  /\ backend = "open"
  /\ backend' = "gone"
  /\ UNCHANGED <<setVars, io, stream, half, ping, pump, stalled, chatVars, down, crashed>>

BackendStalls ==
  /\ backend = "open"
  /\ stalled' = ~stalled
  /\ UNCHANGED <<setVars, io, stream, half, ping, pump, backend, chatVars, down, crashed>>

-----------------------------------------------------------------------------
(* The loop of the handlers, and what they defer. *)

\* The loop of the terminal and of NAT: input is written, which may take for ever.
TakeInput ==
  /\ use # "files"
  /\ stream = "open"
  /\ HandlerGoes("recv", "write")
  /\ UNCHANGED <<setVars, stream, endVars, chatVars, down, crashed>>

InputWritten ==
  /\ ~(stalled /\ backend = "open")
  /\ HandlerGoes("write", "recv")
  /\ UNCHANGED <<setVars, stream, endVars, chatVars, down, crashed>>

RecvFails ==
  /\ stream = "ended"
  /\ HandlerGoes("recv", IF use = "files" THEN "closeSend" ELSE "close")
  /\ UNCHANGED <<setVars, stream, endVars, chatVars, down, crashed>>

\* Mutant: the backend is left open.
CloseNothing ==
  /\ HandlerGoes("close", "closeSend")
  /\ UNCHANGED <<setVars, stream, endVars, chatVars, down, crashed>>

\* The connection is closed; the terminal is, and the group of the shell killed and
\* waited for.
CloseBackend ==
  /\ HandlerGoes("close", "closeSend")
  /\ backend' = "closed"
  /\ UNCHANGED <<setVars, stream, half, ping, pump, stalled, chatVars, down, crashed>>

\* The terminal cannot be closed: its shell is not killed, nor waited for.
CloseFails ==
  /\ use = "terminal"
  /\ HandlerGoes("close", "closeSend")
  /\ backend' = "abandoned"
  /\ UNCHANGED <<setVars, stream, half, ping, pump, stalled, chatVars, down, crashed>>

HandlerClosesSend ==
  /\ HandlerGoes("closeSend", "cancel")
  /\ half' = TRUE
  /\ UNCHANGED <<setVars, stream, ping, pump, backend, stalled, chatVars, down, crashed>>

Cancel ==
  /\ HandlerGoes("cancel", "over")
  /\ UNCHANGED <<setVars, stream, endVars, chatVars, down, crashed>>

-----------------------------------------------------------------------------
(* ioStreamKeepAlive and the pump. *)

SendFails == half \/ stream = "ended"

PingMoves ==
  /\ \/ ping = "wait" /\ ping' = "send"
     \/ ping = "send" /\ ~SendFails /\ ping' = "wait"
  /\ UNCHANGED <<setVars, io, stream, half, pump, backend, stalled, chatVars, down, crashed>>

PingEnds ==
  /\ (ping = "wait" /\ io = "over") \/ (ping = "send" /\ SendFails)
  /\ ping' = "over"
  /\ UNCHANGED <<setVars, io, stream, half, pump, backend, stalled, chatVars, down, crashed>>

PumpReads ==
  /\ pump = "read"
  /\ pump' = IF backend = "open" THEN "send" ELSE "sendError"
  /\ UNCHANGED <<setVars, io, stream, half, ping, backend, stalled, chatVars, down, crashed>>

\* Whether or not it arrives.
PumpSends ==
  /\ \/ pump = "send" /\ pump' = "read"
     \/ pump = "sendError" /\ pump' = "closeSend"
  /\ UNCHANGED <<setVars, io, stream, half, ping, backend, stalled, chatVars, down, crashed>>

PumpClosesSend ==
  /\ pump = "closeSend"
  /\ pump' = "over"
  /\ half' = TRUE
  /\ UNCHANGED <<setVars, io, stream, ping, backend, stalled, chatVars, down, crashed>>

-----------------------------------------------------------------------------
(* DoTask of pkg/fm. *)

\* The next message: what is left of an upload, or else a request.  A polite
\* dashboard makes none before the last one is answered.
Answered == io = "recv" /\ \A d \in Downloads : down[d].at \notin {"go", "reply"}

Receive ==
  /\ use = "files"
  /\ stream = "open"
  /\ received < MaxMessages
  /\ owed > 0 \/ ~polite \/ Answered
  /\ received' = received + 1
  /\ latest' = received'

Request ==
  /\ io = "recv"
  /\ Receive
  /\ misread' = (misread \/ owed > 0)

\* What is left of an upload after this message, which may be a request for one.
Owed(size) == IF owed > 0 THEN owed - 1 ELSE size

IgnoreRequest ==
  /\ Request
  /\ owed' = Owed(0)
  /\ UNCHANGED <<setVars, io, stream, endVars, left, spoilt, down, crashed>>

ListRequest ==
  /\ Request
  /\ io' = "list"
  /\ owed' = Owed(0)
  /\ UNCHANGED <<setVars, stream, endVars, left, spoilt, down, crashed>>

DownloadRequest(d) ==
  /\ Request
  /\ down[d].at = "none"
  /\ down' = [down EXCEPT ![d].at = "go", ![d].asked = received']
  /\ owed' = Owed(0)
  /\ UNCHANGED <<setVars, io, stream, endVars, left, spoilt, crashed>>

UploadRequest ==
  /\ Request
  /\ io' = "upload"
  /\ \E size \in Sizes : left' = size /\ owed' = Owed(size)
  /\ UNCHANGED <<setVars, stream, endVars, spoilt, down, crashed>>

\* It is not valid, or the file cannot be created.
UploadRefused ==
  /\ Request
  /\ io' = "answer"
  /\ \E size \in Sizes : owed' = Owed(size)
  /\ spoilt' = TRUE
  /\ UNCHANGED <<setVars, stream, endVars, left, down, crashed>>

\* The directory can be read; or the home directory is tried instead; or there
\* is no user, and the error is the answer.
ListDirectory ==
  /\ HandlerGoes("list", "answer") \/ HandlerGoes("list", "home")
  /\ UNCHANGED <<setVars, stream, endVars, chatVars, down, crashed>>

ListHome ==
  /\ IF homely THEN HandlerGoes("home", "answer") ELSE HandlerGoes("home", "home")
  /\ UNCHANGED <<setVars, stream, endVars, chatVars, down, crashed>>

\* The answer of listDir and upload.
SendAnswer ==
  /\ HandlerGoes("answer", "recv")
  /\ UNCHANGED <<setVars, stream, endVars, chatVars, down, crashed>>

\* Mutant: the upload is complete before the last part.
UploadReceivesLess ==
  /\ io = "upload"
  /\ Receive
  /\ owed' = Owed(0)
  /\ left' = left - 1
  /\ io' = IF left' <= 1 THEN "answer" ELSE "upload"
  /\ UNCHANGED <<setVars, stream, endVars, spoilt, misread, down, crashed>>

UploadReceives ==
  /\ io = "upload"
  /\ Receive
  /\ owed' = Owed(0)
  /\ left' = left - 1
  /\ io' = IF left' = 0 THEN "answer" ELSE "upload"
  /\ UNCHANGED <<setVars, stream, endVars, spoilt, misread, down, crashed>>

UploadReceivesNothing ==
  /\ io = "upload"
  /\ stream = "open"
  /\ latest' = 0
  /\ UNCHANGED <<setVars, io, stream, endVars, received, owed, left, spoilt, misread, down, crashed>>

UploadWriteFails ==
  /\ HandlerGoes("upload", "answer")
  /\ Receive
  /\ owed' = Owed(0)
  /\ left' = 0
  /\ spoilt' = TRUE
  /\ UNCHANGED <<setVars, stream, endVars, misread, down, crashed>>

\* Recv returns no message, which is kept.
UploadRecvFails ==
  /\ stream = "ended"
  /\ HandlerGoes("upload", "answer")
  /\ latest' = 0
  /\ left' = 0
  /\ UNCHANGED <<setVars, stream, endVars, received, owed, spoilt, misread, down, crashed>>

\* The path is read from the message at hand by now.
DownloadOpens(d) ==
  /\ down[d].at = "go"
  /\ down' = [down EXCEPT ![d].at = "reply", ![d].opened = latest]
  /\ crashed' = (latest = 0)
  /\ UNCHANGED <<setVars, io, stream, endVars, chatVars>>

\* The file, or an error, was sent.
DownloadEnds(d) ==
  /\ down[d].at = "reply"
  /\ down' = [down EXCEPT ![d] = [NoDownload EXCEPT !.at = "over"]]
  /\ UNCHANGED <<setVars, io, stream, endVars, chatVars, crashed>>

-----------------------------------------------------------------------------

FileStep ==
  \/ IgnoreRequest \/ ListRequest \/ UploadRequest \/ UploadRefused
  \/ ListDirectory \/ ListHome \/ SendAnswer
  \/ UploadReceives \/ UploadReceivesNothing \/ UploadWriteFails \/ UploadRecvFails
  \/ \E d \in Downloads : DownloadRequest(d) \/ DownloadOpens(d) \/ DownloadEnds(d)

StreamNext ==
  /\ ~crashed
  /\ \/ StreamRefused \/ OpenStream \/ Hello \/ HelloFails \/ BackendFails \/ BackendStarts
     \/ StreamEnds \/ BackendEnds \/ BackendStalls
     \/ TakeInput \/ InputWritten \/ RecvFails
     \/ CloseBackend \/ CloseFails \/ HandlerClosesSend \/ Cancel
     \/ PingMoves \/ PingEnds \/ PumpReads \/ PumpSends \/ PumpClosesSend
     \/ FileStep

GoroutinesOver ==
  /\ io = "over"
  /\ ping \in {"none", "over"}
  /\ pump \in {"none", "over"}
  /\ \A d \in Downloads : down[d].at \in {"none", "over"}

Ended == GoroutinesOver /\ backend \in {"none", "closed"}

\* What is known to be left behind: the shell of a terminal that could not be closed.
ShellIsLeft == GoroutinesOver /\ use = "terminal" /\ backend = "abandoned"

\* What is left once the handler is over is the matter of StreamsEnd.
StreamOver ==
  /\ crashed \/ (stream # "open" /\ io = "over")
  /\ UNCHANGED streamVars

StreamSpec == StreamInit /\ [][StreamNext]_streamVars

\* What a handler does without waiting for the dashboard, once the stream is over.
HandlerGoesOn ==
  \/ HelloFails \/ BackendFails \/ BackendStarts \/ InputWritten \/ RecvFails
  \/ CloseBackend \/ CloseFails \/ HandlerClosesSend \/ Cancel
  \/ ListDirectory \/ ListHome \/ UploadRecvFails \/ (stream = "ended" /\ SendAnswer)

PumpGoesOn ==
  \/ backend # "open" /\ PumpReads
  \/ stream = "ended" /\ PumpSends
  \/ PumpClosesSend

DownloadsGoOn ==
  \E d \in Downloads : DownloadOpens(d) \/ (stream = "ended" /\ DownloadEnds(d))

\* Goroutines go on where they do not wait for somebody else.
StreamFairness ==
  /\ WF_streamVars(~crashed /\ HandlerGoesOn)
  /\ WF_streamVars(~crashed /\ PingEnds)
  /\ WF_streamVars(~crashed /\ PumpGoesOn)
  /\ WF_streamVars(~crashed /\ DownloadsGoOn)

-----------------------------------------------------------------------------
(* Properties. *)

\* Once the dashboard is gone no goroutine of a stream is left, and neither is the
\* connection or the shell, with three exceptions: the terminal cannot be closed, and
\* the shell lives on; the handler writes to a backend that takes no input; it lists a
\* home directory that cannot be read (main.go:1047-1087, 1216-1230, pty.go:78-83,
\* tasks.go:47-58).
StreamsEnd ==
  StreamFairness =>
    (stream = "ended" ~>
       \/ Ended \/ crashed
       \/ ShellIsLeft
       \/ io = "write" /\ stalled
       \/ io = "home" /\ ~homely)

\* A dashboard that waits for the answer to each request gets the file it asked
\* for, one answer at a time, and no contents are taken for requests, as long as
\* no upload fails (tasks.go:34-45, 68-70, 133-147).
PoliteDashboardIsServed ==
  polite /\ ~spoilt =>
    /\ ~crashed
    /\ ~misread
    /\ \A d \in Downloads : down[d].at = "reply" =>
         /\ down[d].opened = down[d].asked
         /\ io # "answer"
         /\ \A e \in Downloads \ {d} : down[e].at # "reply"
=============================================================================
