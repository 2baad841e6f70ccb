----------------------------- MODULE DoTaskProofs -----------------------------
(***************************************************************************)
(* Proofs about DoTask: about the components CommandTask, IOStreams,       *)
(* Configuration and RoundTripper alone, and that DoTask behaves as each   *)
(* of its components, so that what is proved of them, here and in          *)
(* SelfUpdateProofs, holds of it.                                          *)
(***************************************************************************)
EXTENDS DoTask, SelfUpdateProofs

-----------------------------------------------------------------------------
(* Commands. *)

\* The watcher has closed endCh and is the one who did.
Ours == watcher \in Disposing \/ termed \/ "watcher" \in hit

BeforeStart ==
  /\ command = "idle" => watcher = "none" /\ result = Silent
  /\ watcher = "none" => ~endCh /\ ~Ours
  /\ command \in {"wait", "close", "dispose"} \cup Waits => watcher # "none"

\* A result that was sent does not change, but for what it says.
Sent ==
  /\ sent # {} => command = "over"
  /\ \A r \in sent : r.ok => result.ok

\* endCh is closed once: by the handler, or by the watcher.
ClosedOnce ==
  /\ Ours => endCh
  /\ result.ok => endCh /\ ~Ours

\* The handler waits as long as the group can be found.
Waiting == leader # "reaped" /\ watcher # "none" => command = "wait"

\* What the watcher says stays, unless the handler is the one who closes endCh.
TimeoutTold ==
  /\ watcher = "told" /\ ~endCh => "timeout" \in result.says
  /\ watcher = "kill" \/ termed => "timeout" \in result.says
  /\ termed => \A r \in sent : "timeout" \in r.says

CommandInv ==
  /\ CommandTypeOK
  /\ BeforeStart
  /\ Sent
  /\ ClosedOnce
  /\ Waiting
  /\ TimeoutTold

LEMMA CommandInvInit == CommandInit => CommandInv
<1> SUFFICES ASSUME CommandInit PROVE CommandInv
  OBVIOUS
<1>1. /\ failed \in BOOLEAN /\ endCh \in BOOLEAN /\ termed \in BOOLEAN /\ taken \in BOOLEAN
      /\ ~endCh /\ ~termed /\ ~result.ok
  BY DEF CommandInit, Silent
<1>a. waited \in BOOLEAN /\ copied \in BOOLEAN
  BY DEF CommandInit
<1>2. CommandTypeOK
  BY <1>1, <1>a DEF CommandInit, CommandTypeOK, Results, Silent
<1>3. QED
  BY <1>1, <1>2 DEF CommandInit, CommandInv, BeforeStart, Sent, ClosedOnce, Waiting,
                    TimeoutTold, Ours, Disposing, Waits

LEMMA HandlerKeepsInv ==
  ASSUME CommandInv, CommandRefused \/ StartCommand \/ HandlerStep
  PROVE  CommandInv'
<1> USE DEF CommandInv, CommandTypeOK, BeforeStart, Sent, ClosedOnce, Waiting, TimeoutTold,
            Ours, Results, Silent, Words, Kept, Disposing, Waits, groupVars, waitVars
<1>1. CASE CommandRefused
  BY <1>1 DEF CommandRefused
<1>2. CASE StartCommand
  BY <1>2 DEF StartCommand
<1>3. CASE Reap
  BY <1>3 DEF Reap
<1>4. CASE ReapLost
  BY <1>4 DEF ReapLost
<1>5. CASE WaitFails
  BY <1>5 DEF WaitFails, CopyEnds
<1>6. CASE WaitSucceeds
  BY <1>6 DEF WaitSucceeds, CopyEnds
<1>7. CASE CloseEnd
  <2>1. ~Ours /\ ~endCh /\ endCh' /\ endCh' \in BOOLEAN /\ ~result.ok
    BY <1>7 DEF CloseEnd
  <2>2. result' = [says |-> {"output"}, ok |-> TRUE] /\ result' \in Results /\ result'.ok
    BY <1>7 DEF CloseEnd
  <2>3. ~Ours' /\ watcher' = watcher /\ leader' = leader /\ sent' = sent
    BY <1>7, <2>1 DEF CloseEnd
  <2>4. command' = "dispose" /\ command = "close" /\ watcher # "none"
    BY <1>7 DEF CloseEnd
  <2>5. CommandTypeOK'
    BY <1>7, <2>1, <2>2 DEF CloseEnd
  <2>6. sent' = {}
    BY <2>3, <2>4
  <2>7. watcher' # "none" /\ leader' = "reaped"
    BY <2>3, <2>4
  <2>8. BeforeStart' /\ Sent' /\ Waiting'
    BY <2>4, <2>6, <2>7
  <2>9. ClosedOnce' /\ TimeoutTold'
    BY <2>1, <2>2, <2>3, <2>6
  <2>10. QED
    BY <2>5, <2>8, <2>9
<1>8. CASE CloseEndTwice
  BY <1>8 DEF CloseEndTwice
<1>9. CASE DisposeCommand
  BY <1>9 DEF DisposeCommand
<1>10. CASE SendResult
  BY <1>10 DEF SendResult
<1>11. CASE KeepState
  BY <1>11 DEF KeepState
<1>12. CASE AwaitCopy
  BY <1>12 DEF AwaitCopy
<1>13. QED
  BY <1>1, <1>2, <1>3, <1>4, <1>5, <1>6, <1>7, <1>8, <1>9, <1>10, <1>11, <1>12 DEF HandlerStep

LEMMA WatcherKeepsInv ==
  ASSUME CommandInv, WatcherStep
  PROVE  CommandInv'
<1> USE DEF CommandInv, CommandTypeOK, BeforeStart, Sent, ClosedOnce, Waiting, TimeoutTold,
            Ours, Results, Silent, Words, Kept, Disposing, Waits, groupVars, waitVars
<1>1. CASE SeeEnd
  BY <1>1 DEF SeeEnd
<1>2. CASE TwoHours
  BY <1>2 DEF TwoHours
<1>3. CASE TellTimeout
  BY <1>3 DEF TellTimeout
<1>4. CASE CloseLate
  BY <1>4 DEF CloseLate
<1>5. CASE KillGroup
  BY <1>5 DEF KillGroup
<1>6. CASE AwaitGroup
  BY <1>6 DEF AwaitGroup
<1>7. CASE ReapGroup
  BY <1>7 DEF ReapGroup
<1>8. CASE KeepGroupState
  BY <1>8 DEF KeepGroupState
<1>9. CASE AwaitGroupCopy
  BY <1>9 DEF AwaitGroupCopy
<1>10. CASE GroupEnds
  <2>1. copied' \in BOOLEAN
    BY <1>10 DEF GroupEnds, CopyEnds
  <2>2. /\ watcher' = "over" /\ watcher \in Waits
        /\ UNCHANGED <<command, groupVars, failed, waited, endCh, result, sent, termed, hit>>
    BY <1>10 DEF GroupEnds, CopyEnds
  <2>3. QED
    BY <2>1, <2>2
<1>11. QED
  BY <1>1, <1>2, <1>3, <1>4, <1>5, <1>6, <1>7, <1>8, <1>9, <1>10 DEF WatcherStep

LEMMA ProcessesKeepInv ==
  ASSUME CommandInv, ShellEnds \/ MemberEnds \/ ProcessIdTaken
  PROVE  CommandInv'
<1>1. /\ UNCHANGED <<command, watcher, endCh, result, sent, termed, hit>>
      /\ waited' = waited /\ copied' = copied
  <2>1. UNCHANGED <<command, watcher, endCh, result, sent, termed, hit>>
    BY DEF ShellEnds, MemberEnds, ProcessIdTaken
  <2>2. waited' = waited /\ copied' = copied
    BY Zenon DEF ShellEnds, MemberEnds, ProcessIdTaken, waitVars
  <2>3. QED
    BY <2>1, <2>2
<1>2. /\ failed' \in BOOLEAN /\ taken' \in BOOLEAN /\ members' \subseteq Kept
      /\ leader' \in {"none", "running", "zombie", "reaped"}
      /\ leader' = "reaped" <=> leader = "reaped"
  <2>1. CASE ShellEnds
    BY <2>1 DEF ShellEnds, CommandInv, CommandTypeOK
  <2>2. CASE MemberEnds
    BY <2>2 DEF MemberEnds, waitVars, CommandInv, CommandTypeOK
  <2>3. CASE ProcessIdTaken
    BY <2>3 DEF ProcessIdTaken, waitVars, CommandInv, CommandTypeOK
  <2>4. QED
    BY <2>1, <2>2, <2>3
<1>3. waited' \in BOOLEAN /\ copied' \in BOOLEAN
  BY <1>1 DEF CommandInv, CommandTypeOK
<1>4. CommandTypeOK'
  BY <1>1, <1>2, <1>3 DEF CommandInv, CommandTypeOK
<1>5. QED
  BY <1>1, <1>2, <1>4 DEF CommandInv, BeforeStart, Sent, ClosedOnce, Waiting, TimeoutTold, Ours

LEMMA CommandInvStep == CommandInv /\ [CommandNext]_commandVars => CommandInv'
<1> SUFFICES ASSUME CommandInv, [CommandNext]_commandVars
             PROVE  CommandInv'
  OBVIOUS
<1>1. CASE UNCHANGED commandVars
  BY <1>1 DEF CommandInv, CommandTypeOK, BeforeStart, Sent, ClosedOnce, Waiting, TimeoutTold,
              Ours, commandVars, groupVars, waitVars
<1>2. CASE CommandNext
  BY <1>2, HandlerKeepsInv, WatcherKeepsInv, ProcessesKeepInv DEF CommandNext
<1>3. QED
  BY <1>1, <1>2

THEOREM CommandInvariant == CommandSpec => []CommandInv
BY CommandInvInit, CommandInvStep, PTL DEF CommandSpec

\* Whatever the order in which the handler, the watcher and the processes come to
\* an end, a result that was sent says whether the group was stopped, and nobody is
\* signalled after a success (main.go:889-906).
THEOREM ResultsAreTrue == CommandSpec => []ResultIsTrue
<1>1. CommandInv => ResultIsTrue
  BY DEF CommandInv, Sent, ClosedOnce, TimeoutTold, ResultIsTrue, Ours
<1>2. QED
  BY <1>1, CommandInvariant, PTL

-----------------------------------------------------------------------------
(* Streams. *)

Busy(d) == down[d].at \in {"go", "reply"}

\* upload() waits for what the dashboard has still to send, and only then is anything
\* but a request to come.
UploadFits ==
  /\ io = "idle" => stream = "none"
  /\ io = "upload" => left # 0
  /\ polite /\ ~spoilt /\ stream # "ended" => owed = IF io = "upload" THEN left ELSE 0

\* A download has the files of the agent for itself, and its request is still the
\* message at hand when the path is read.
DownloadsFit ==
  polite /\ ~spoilt =>
    /\ ~crashed
    /\ ~misread
    /\ \A d \in Downloads :
         /\ Busy(d) => /\ io \notin {"list", "home", "upload", "answer"}
                       /\ \A e \in Downloads \ {d} : ~Busy(e)
         /\ down[d].at = "go" => latest = down[d].asked /\ latest # 0
         /\ down[d].at = "reply" => down[d].opened = down[d].asked

StreamInv == StreamTypeOK /\ UploadFits /\ DownloadsFit

LEMMA StreamInvInit == StreamInit => StreamInv
<1> SUFFICES ASSUME StreamInit PROVE StreamInv
  OBVIOUS
<1>1. \A d \in Downloads : down[d] = NoDownload /\ ~Busy(d)
  BY DEF StreamInit, NoDownload, Busy
<1>2. {half, stalled, homely, polite, spoilt, misread, crashed} \subseteq BOOLEAN
  BY Zenon DEF StreamInit
<1>3. /\ received \in 0..MaxMessages
      /\ latest \in 0..received
      /\ {owed, left} \subseteq Sizes \cup {0}
      /\ down \in [Downloads -> [at : {"none", "go", "reply", "over"},
                                 asked : 0..received, opened : 0..received]]
  BY MessagesAssumption DEF StreamInit, NoDownload, Sizes
<1>4. StreamTypeOK
  BY <1>2, <1>3 DEF StreamInit, StreamTypeOK
<1>5. QED
  BY <1>1, <1>4 DEF StreamInit, StreamInv, UploadFits, DownloadsFit, NoDownload

\* What the other goroutines, the backend and the beginning and the end of the
\* handler do concerns neither the messages nor the downloads.
LEMMA ElsewhereKeepsStream ==
  ASSUME StreamInv,
         StreamRefused \/ OpenStream \/ Hello \/ HelloFails \/ BackendFails \/ BackendStarts
           \/ StreamEnds \/ BackendEnds \/ BackendStalls
           \/ TakeInput \/ InputWritten \/ RecvFails \/ CloseBackend \/ CloseFails
           \/ HandlerClosesSend \/ Cancel \/ PingMoves \/ PingEnds
           \/ PumpReads \/ PumpSends \/ PumpClosesSend
  PROVE  StreamInv'
<1> USE DEF HandlerGoes, endVars, chatVars, setVars
<1>1. /\ UNCHANGED <<use, homely, polite, received, latest, owed, left, spoilt, misread, down,
                     crashed>>
      /\ UNCHANGED io \/ io' \in {"hello", "start", "recv", "write", "close", "closeSend",
                                  "cancel", "over"}
      /\ io = "upload" => UNCHANGED io
      /\ \/ UNCHANGED stream
         \/ io = "idle" /\ io' = "hello" /\ stream' = "open"
         \/ stream = "open" /\ stream' = "ended"
      /\ ping' \in {ping, "wait", "send", "over"}
      /\ pump' \in {pump, "read", "send", "sendError", "closeSend", "over"}
      /\ backend' \in {backend, "open", "gone", "closed", "abandoned"}
  BY DEF StreamRefused, OpenStream, Hello, HelloFails, BackendFails, BackendStarts,
         StreamEnds, BackendEnds, BackendStalls, TakeInput, InputWritten, RecvFails,
         CloseBackend, CloseFails, HandlerClosesSend, Cancel, PingMoves, PingEnds, PumpReads,
         PumpSends,
         PumpClosesSend
<1>2. half' \in BOOLEAN /\ stalled' \in BOOLEAN
  BY DEF StreamRefused, OpenStream, Hello, HelloFails, BackendFails, BackendStarts,
         StreamEnds, BackendEnds, BackendStalls, TakeInput, InputWritten, RecvFails,
         CloseBackend, CloseFails, HandlerClosesSend, Cancel, PingMoves, PingEnds, PumpReads,
         PumpSends,
         PumpClosesSend, StreamInv, StreamTypeOK
<1>3. StreamTypeOK'
  BY <1>1, <1>2 DEF StreamInv, StreamTypeOK
<1>4. UploadFits'
  BY <1>1 DEF StreamInv, UploadFits
<1>5. DownloadsFit'
  BY <1>1 DEF StreamInv, DownloadsFit, Busy
<1>6. QED
  BY <1>3, <1>4, <1>5 DEF StreamInv

\* Numbers of messages that fit before a message fit after it.
LEMMA MessageNumbers ==
  ASSUME StreamTypeOK, received' = received + 1, received < MaxMessages
  PROVE  /\ received' \in 0..MaxMessages /\ received' \in 0..received' /\ received' # 0
         /\ 0 \in 0..received'
         /\ down \in [Downloads -> [at : {"none", "go", "reply", "over"},
                                    asked : 0..received', opened : 0..received']]
<1>1. received \in Nat /\ MaxMessages \in Nat
  BY MessagesAssumption DEF StreamTypeOK
<1>2. 0..received \subseteq 0..received'
  BY <1>1
<1>3. QED
  BY <1>1, <1>2 DEF StreamTypeOK

LEMMA SizesTyped ==
  ASSUME StreamTypeOK, NEW size \in Sizes \cup {0}
  PROVE  Owed(size) \in Sizes \cup {0} /\ (left # 0 => left - 1 \in Sizes \cup {0})
BY DEF StreamTypeOK, Owed, Sizes

\* What a request finds.
LEMMA RequestFinds ==
  ASSUME StreamInv, Request
  PROVE  /\ use = "files" /\ stream = "open" /\ io = "recv"
         /\ misread' \in BOOLEAN
         /\ polite /\ ~spoilt => owed = 0 /\ ~misread' /\ \A d \in Downloads : ~Busy(d)
<1>1. use = "files" /\ stream = "open" /\ io = "recv" /\ (misread' = (misread \/ owed > 0))
  BY DEF Request, Receive
<1>2. polite /\ ~spoilt => owed = 0 /\ ~misread
  BY <1>1 DEF StreamInv, UploadFits, DownloadsFit
<1>3. polite /\ ~spoilt => Answered
  BY <1>2 DEF Request, Receive
<1>4. misread' \in BOOLEAN
  BY <1>1
<1>5. 0 > 0 <=> FALSE
  OBVIOUS
<1>6. QED
  BY <1>1, <1>2, <1>3, <1>4, <1>5 DEF Answered, Busy

LEMMA RequestKeepsStream ==
  ASSUME StreamInv,
         IgnoreRequest \/ ListRequest \/ UploadRequest \/ UploadRefused
           \/ \E d \in Downloads : DownloadRequest(d)
  PROVE  StreamInv'
<1>1. Request
  BY DEF IgnoreRequest, ListRequest, UploadRequest, UploadRefused, DownloadRequest
<1>2. received' = received + 1 /\ received < MaxMessages /\ latest' = received'
  BY <1>1 DEF Request, Receive
<1>3. /\ UNCHANGED <<use, homely, polite, stream, half, ping, pump, backend, stalled, crashed>>
      /\ io' \in {io, "list", "upload", "answer"}
      /\ spoilt' = spoilt \/ spoilt' = TRUE
  BY DEF IgnoreRequest, ListRequest, UploadRequest, UploadRefused, DownloadRequest,
         endVars, setVars
<1>4. {owed', left'} \subseteq Sizes \cup {0}
  <2>1. \E size \in Sizes \cup {0} : owed' = Owed(size)
    BY DEF IgnoreRequest, ListRequest, UploadRequest, UploadRefused, DownloadRequest
  <2>2. left' = left \/ left' \in Sizes
    BY DEF IgnoreRequest, ListRequest, UploadRequest, UploadRefused, DownloadRequest
  <2>3. QED
    BY <2>1, <2>2, SizesTyped DEF StreamInv, StreamTypeOK
<1>5. down' \in [Downloads -> [at : {"none", "go", "reply", "over"},
                               asked : 0..received', opened : 0..received']]
  <2>1. down' = down \/ \E d \in Downloads : DownloadRequest(d)
    BY DEF IgnoreRequest, ListRequest, UploadRequest, UploadRefused
  <2>2. /\ received' \in 0..received'
        /\ down \in [Downloads -> [at : {"none", "go", "reply", "over"},
                                   asked : 0..received', opened : 0..received']]
    BY <1>2, MessageNumbers DEF StreamInv
  <2>3. ASSUME NEW d \in Downloads, DownloadRequest(d)
        PROVE  down' \in [Downloads -> [at : {"none", "go", "reply", "over"},
                                        asked : 0..received', opened : 0..received']]
    <3> DEFINE rec == [down[d] EXCEPT !.at = "go", !.asked = received']
    <3>1. down' = [down EXCEPT ![d] = rec]
      BY <2>3 DEF DownloadRequest
    <3>2. rec \in [at : {"none", "go", "reply", "over"},
                   asked : 0..received', opened : 0..received']
      BY <2>2
    <3> HIDE DEF rec
    <3>3. QED
      BY <2>2, <3>1, <3>2
  <2>4. QED
    BY <2>1, <2>2, <2>3
<1>6. StreamTypeOK'
  <2>1. {half', stalled', homely', polite', spoilt', misread', crashed'} \subseteq BOOLEAN
    BY <1>1, <1>3, RequestFinds DEF StreamInv, StreamTypeOK
  <2>2. received' \in 0..MaxMessages /\ latest' \in 0..received'
    BY <1>2, MessageNumbers DEF StreamInv
  <2>3. QED
    BY <1>3, <1>4, <1>5, <2>1, <2>2 DEF StreamInv, StreamTypeOK
<1>7. UploadFits'
  <2>1. /\ io = "recv" /\ stream' = "open"
        /\ polite /\ ~spoilt => owed = 0
    BY <1>1, <1>3, RequestFinds
  <2>2. owed = 0 => Owed(0) = 0 /\ \A size \in Sizes : Owed(size) = size
    BY DEF Owed
  <2>3. CASE IgnoreRequest \/ ListRequest \/ \E d \in Downloads : DownloadRequest(d)
    <3>1. io' \in {"recv", "list"} /\ owed' = Owed(0) /\ spoilt' = spoilt
      BY <2>1, <2>3 DEF IgnoreRequest, ListRequest, DownloadRequest
    <3>2. QED
      BY <1>3, <2>1, <2>2, <3>1 DEF UploadFits
  <2>4. CASE UploadRequest
    BY <1>3, <2>1, <2>2, <2>4 DEF UploadRequest, UploadFits, Sizes
  <2>5. CASE UploadRefused
    BY <1>3, <2>1, <2>5 DEF UploadRefused, UploadFits
  <2>6. QED
    BY <2>3, <2>4, <2>5
<1>8. DownloadsFit'
  <2> SUFFICES ASSUME polite, ~spoilt, ~spoilt'
               PROVE  DownloadsFit'
    BY <1>3 DEF DownloadsFit
  <2>1. ~crashed' /\ ~misread' /\ io = "recv" /\ \A d \in Downloads : ~Busy(d)
    BY <1>1, <1>3, RequestFinds DEF StreamInv, DownloadsFit
  <2>2. CASE down' = down
    BY <2>1, <2>2 DEF DownloadsFit, Busy
  <2>3. CASE \E d \in Downloads : DownloadRequest(d)
    <3>1. PICK d \in Downloads : DownloadRequest(d)
      BY <2>3
    <3>2. /\ down'[d].at = "go" /\ down'[d].asked = received'
          /\ \A e \in Downloads \ {d} : down'[e] = down[e]
          /\ io' = "recv"
      BY <2>1, <3>1 DEF DownloadRequest, StreamInv, StreamTypeOK
    <3>3. latest' = received' /\ received' # 0
      BY <1>2, MessageNumbers DEF StreamInv
    <3>4. QED
      BY <2>1, <3>2, <3>3 DEF DownloadsFit, Busy
  <2>4. QED
    BY <2>2, <2>3 DEF IgnoreRequest, ListRequest, UploadRequest, UploadRefused
<1>9. QED
  BY <1>6, <1>7, <1>8 DEF StreamInv

LEMMA UploadKeepsStream ==
  ASSUME StreamInv,
         UploadReceives \/ UploadReceivesNothing \/ UploadWriteFails \/ UploadRecvFails
  PROVE  StreamInv'
<1>1. /\ io = "upload" /\ io' \in {"upload", "answer"} /\ left # 0
      /\ UNCHANGED <<use, homely, polite, stream, half, ping, pump, backend, stalled, misread,
                     down, crashed>>
      /\ spoilt' = spoilt \/ spoilt' = TRUE
  BY DEF UploadReceives, UploadReceivesNothing, UploadWriteFails, UploadRecvFails,
         HandlerGoes, endVars, setVars, StreamInv, UploadFits
<1>2. owed' \in Sizes \cup {0} /\ left' \in Sizes \cup {0}
  BY <1>1, SizesTyped DEF UploadReceives, UploadReceivesNothing, UploadWriteFails,
         UploadRecvFails, StreamInv, StreamTypeOK
<1>3. /\ received' \in 0..MaxMessages
      /\ latest' \in 0..received'
      /\ down' \in [Downloads -> [at : {"none", "go", "reply", "over"},
                                  asked : 0..received', opened : 0..received']]
  <2>1. CASE Receive
    BY <1>1, <2>1, MessageNumbers DEF Receive, StreamInv
  <2>2. CASE UploadReceivesNothing \/ UploadRecvFails
    <3>1. received' = received /\ latest' = 0 /\ received \in Nat
      BY <2>2 DEF UploadReceivesNothing, UploadRecvFails, StreamInv, StreamTypeOK
    <3>2. QED
      BY <1>1, <3>1 DEF StreamInv, StreamTypeOK
  <2>3. QED
    BY <2>1, <2>2 DEF UploadReceives, UploadWriteFails
<1>4. StreamTypeOK'
  <2>1. {half', stalled', homely', polite', spoilt', misread', crashed'} \subseteq BOOLEAN
    BY <1>1 DEF StreamInv, StreamTypeOK
  <2>2. QED
    BY <1>1, <1>2, <1>3, <2>1 DEF StreamInv, StreamTypeOK
<1>5. UploadFits'
  BY <1>1 DEF UploadReceives, UploadReceivesNothing, UploadWriteFails, UploadRecvFails,
         HandlerGoes, StreamInv, StreamTypeOK, UploadFits, Owed, Sizes
<1>6. DownloadsFit'
  BY <1>1 DEF StreamInv, DownloadsFit, Busy
<1>7. QED
  BY <1>4, <1>5, <1>6 DEF StreamInv

LEMMA AnswersKeepStream ==
  ASSUME StreamInv, ListDirectory \/ ListHome \/ SendAnswer
  PROVE  StreamInv'
<1>1. /\ UNCHANGED <<use, homely, polite, stream, half, ping, pump, backend, stalled, received,
                     latest, owed, left, spoilt, misread, down, crashed>>
      /\ io \in {"list", "home", "answer"} /\ io' \in {"home", "answer", "recv"}
  BY DEF ListDirectory, ListHome, SendAnswer, HandlerGoes, endVars, chatVars, setVars
<1>2. StreamTypeOK'
  BY <1>1 DEF StreamInv, StreamTypeOK
<1>3. UploadFits'
  BY <1>1 DEF StreamInv, UploadFits
<1>4. DownloadsFit'
  BY <1>1 DEF StreamInv, DownloadsFit, Busy
<1>5. QED
  BY <1>2, <1>3, <1>4 DEF StreamInv

LEMMA DownloadsKeepStream ==
  ASSUME StreamInv, NEW d \in Downloads, DownloadOpens(d) \/ DownloadEnds(d)
  PROVE  StreamInv'
<1>1. /\ UNCHANGED <<use, homely, polite, io, stream, half, ping, pump, backend, stalled,
                     received, latest, owed, left, spoilt, misread>>
      /\ crashed' \in BOOLEAN
  BY DEF DownloadOpens, DownloadEnds, endVars, chatVars, setVars, StreamInv, StreamTypeOK
<1>2. 0 \in 0..received /\ latest \in 0..received /\ Busy(d)
  BY MessagesAssumption DEF DownloadOpens, DownloadEnds, StreamInv, StreamTypeOK, Busy
<1>3. /\ down' \in [Downloads -> [at : {"none", "go", "reply", "over"},
                                  asked : 0..received, opened : 0..received]]
      /\ \A e \in Downloads \ {d} : down'[e] = down[e]
      /\ DownloadOpens(d) => /\ down[d].at = "go" /\ down'[d].at = "reply"
                             /\ down'[d].opened = latest /\ down'[d].asked = down[d].asked
      /\ DownloadEnds(d) => down'[d].at = "over"
  BY <1>2 DEF NoDownload, DownloadOpens, DownloadEnds, chatVars, StreamInv, StreamTypeOK, Busy
<1>4. StreamTypeOK'
  BY <1>1, <1>2, <1>3 DEF StreamInv, StreamTypeOK
<1>5. UploadFits'
  BY <1>1 DEF StreamInv, UploadFits
<1>6. polite /\ ~spoilt => ~crashed'
  BY DEF DownloadOpens, DownloadEnds, StreamInv, DownloadsFit
<1>7. DownloadsFit'
  BY <1>1, <1>2, <1>3, <1>6 DEF StreamInv, DownloadsFit, Busy
<1>8. QED
  BY <1>4, <1>5, <1>7 DEF StreamInv

LEMMA StreamInvStep == StreamInv /\ [StreamNext]_streamVars => StreamInv'
<1> SUFFICES ASSUME StreamInv, [StreamNext]_streamVars
             PROVE  StreamInv'
  OBVIOUS
<1>1. CASE UNCHANGED streamVars
  <2>1. StreamTypeOK' /\ UploadFits' /\ DownloadsFit'
    BY <1>1 DEF StreamInv, StreamTypeOK, UploadFits, DownloadsFit, Busy, streamVars, endVars,
                chatVars, setVars
  <2>2. QED
    BY <2>1 DEF StreamInv
<1>2. CASE StreamNext
  BY <1>2, ElsewhereKeepsStream, RequestKeepsStream, UploadKeepsStream, AnswersKeepStream,
     DownloadsKeepStream DEF StreamNext, FileStep
<1>3. QED
  BY <1>1, <1>2

LEMMA StreamInvariant == StreamSpec => []StreamInv
BY StreamInvInit, StreamInvStep, PTL DEF StreamSpec

\* A dashboard that waits for answers is served, however the handler, the keepalive and
\* the downloads interleave, as long as no upload fails (tasks.go:34-45, 68-70, 133-147).
THEOREM PoliteDashboardsAreServed == StreamSpec => []PoliteDashboardIsServed
<1>1. StreamInv => PoliteDashboardIsServed
  BY DEF StreamInv, DownloadsFit, PoliteDashboardIsServed, Busy
<1>2. QED
  BY <1>1, StreamInvariant, PTL

-----------------------------------------------------------------------------
(* Configuration. *)

Active(u) == mem[u].at # "none"
Reading(u) == mem[u].at \in {"save", "write"}

\* An agent that is about to start has the UUID of its name, if it has a name; and it
\* started with no other.
DerivedIsName ==
  idx /\ named =>
    /\ used \in {NoId, Name}
    /\ \A u \in Users : Reading(u) /\ mem[u].set => mem[u].uuid = Name

ReadersHaveOne == \A u \in Users : Reading(u) => mem[u].uuid # NoId

Known(uuid) == used = NoId \/ uuid = used \/ uuid \in excused

\* Each UUID in memory and in a file that is not cut is the one in use or one that is
\* excused; and such a file has one.
KnownIdentities ==
  /\ \A u \in Users : Active(u) => mem[u].uuid = NoId \/ Known(mem[u].uuid)
  /\ ~cut /\ used # NoId => file.uuid # NoId /\ Known(file.uuid)

ConfigInv == ConfigTypeOK /\ DerivedIsName /\ ReadersHaveOne /\ KnownIdentities

Memories == [at : {"none", "save", "write", "run", "ask", "amend", "rewrite"},
             set : BOOLEAN, uuid : Identities]

StableStep ==
  used' # used =>
    /\ mem["agent"].at \in {"none", "save", "write"}
    /\ used # NoId =>
         /\ ~(idx /\ named)
         /\ used' \in excused \/ (cut /\ used' = file.uuid)

LEMMA IdentityNumbers ==
  /\ NoId \in Identities /\ Name \in Identities /\ Name # NoId
  /\ \A m \in 0..MaxFresh : m \in Identities /\ m + 1 # NoId
  /\ \A m \in 0..MaxFresh : m < MaxFresh => m + 1 \in 0..MaxFresh
BY FreshAssumption DEF NoId, Name, Identities

LEMMA MemoryTyped ==
  ConfigTypeOK => /\ mem \in [Users -> Memories]
                  /\ "agent" \in Users /\ "edit" \in Users
                  /\ \A u \in Users : u \in {"agent", "edit"}
BY DEF ConfigTypeOK, Memories, Users

LEMMA ConfigInvInit == ConfigInit => ConfigInv
<1> SUFFICES ASSUME ConfigInit PROVE ConfigInv
  OBVIOUS
<1>1. {env, idx, named, cut} \subseteq BOOLEAN /\ excused \subseteq Identities
  BY DEF ConfigInit
<1>2. file \in [text : {"absent", "bare", "settings", "garbled"}, uuid : Identities]
  BY IdentityNumbers DEF ConfigInit
<1>3. mem \in [Users -> Memories] /\ \A u \in Users : mem[u].at = "none"
  BY IdentityNumbers DEF ConfigInit, Memories, NoMemory
<1>4. made \in 0..MaxFresh /\ used \in Identities /\ used = NoId
  BY IdentityNumbers, FreshAssumption DEF ConfigInit
<1>5. QED
  BY <1>1, <1>2, <1>3, <1>4
     DEF ConfigInv, ConfigTypeOK, DerivedIsName, ReadersHaveOne, KnownIdentities, Memories,
         Active, Reading

LEMMA HeldTyped ==
  ASSUME mem' \in [Users -> Memories], file'.uuid \in Identities, NEW uuids, Excuse(uuids)
  PROVE  excused' \subseteq Identities
<1>1. \A u \in Users : mem'[u].uuid \in Identities
  BY DEF Memories
<1>2. QED
  BY <1>1 DEF Excuse, Held

LEMMA ExcuseStays ==
  ASSUME NEW uuids, Excuse(uuids), used' = used
  PROVE  \A x \in Held' : x \in excused \cup uuids => x \in excused' \cup {NoId, used}
BY DEF Excuse

LEMMA ExcuseAnew ==
  ASSUME NEW uuids, Excuse(uuids), used' # used
  PROVE  excused' = {mem'["edit"].uuid} \ {NoId, used'}
BY DEF Excuse, Held, Users

\* As long as the agent has its UUID, what was known stays known.
LEMMA KnownStay ==
  ASSUME KnownIdentities, used' = used,
         \A x \in Held' : x \in excused => x \in excused' \cup {NoId, used},
         \A u \in Users : Active(u)' =>
           \/ used = NoId
           \/ mem'[u].uuid \in excused' \cup {NoId, used}
           \/ Active(u) /\ mem'[u].uuid = mem[u].uuid,
         cut' \/ (cut' = cut /\ file'.uuid = file.uuid)
              \/ (file'.uuid # NoId /\ file'.uuid \in excused' \cup {used})
              \/ used = NoId
  PROVE  KnownIdentities'
<1>1. file'.uuid \in Held' /\ \A u \in Users : mem'[u].uuid \in Held'
  BY DEF Held
<1>2. QED
  BY <1>1 DEF KnownIdentities, Known

\* When it gets another one, the other one known is that of the editor.
LEMMA KnownAnew ==
  ASSUME ConfigTypeOK, used' # NoId, excused' = {mem'["edit"].uuid} \ {NoId, used'},
         mem'["agent"].uuid = used', cut' \/ file'.uuid = used'
  PROVE  KnownIdentities'
BY MemoryTyped DEF KnownIdentities, Known

\* What Read leaves in the memory of who calls it.
Reads(u, rec) ==
  /\ mem[u].at = "none"
  /\ mem' = [mem EXCEPT ![u] = rec]
  /\ file' = file
  /\ cut' = cut
  /\ made' \in 0..MaxFresh
  /\ Excuse(IF cut THEN {rec.uuid} ELSE {})
  /\ rec \in Memories
  /\ rec.at \in {"none", "save", "run", "ask"}
  /\ rec.uuid # NoId
  /\ rec.at # "save" => rec.uuid = file.uuid
  /\ rec.uuid = file.uuid \/ file.uuid = NoId \/ (idx /\ named /\ rec.uuid = Name)
  /\ rec.set /\ idx /\ named => rec.uuid = Name
  /\ used' = used \/ (u = "agent" /\ rec.at = "run" /\ rec.set /\ used' = rec.uuid)

LEMMA ReadAsReads ==
  ASSUME ConfigTypeOK, NEW u \in Users, NEW uuid \in Identities \ {NoId}, NEW derived,
         ReadAs(u, uuid, derived)
  PROVE  \E rec \in Memories :
           /\ mem' = [mem EXCEPT ![u] = rec]
           /\ rec.at \in {"none", "save", "run", "ask"}
           /\ rec.uuid = uuid
           /\ rec.set <=> (env \/ file.text = "settings")
           /\ rec.at # "save" => uuid = file.uuid
           /\ used' = used \/ (u = "agent" /\ rec.at = "run" /\ rec.set /\ used' = uuid)
<1> DEFINE set == env \/ file.text = "settings"
           rec(place) == [at |-> place, set |-> set, uuid |-> uuid]
<1>1. PICK place \in IF MustSave(uuid, FALSE) THEN {"save"}
                     ELSE {Validated(u, set)} \cup IF derived THEN {"save"} ELSE {} :
        /\ mem' = [mem EXCEPT ![u] = rec(place)]
        /\ Starts(u, place, uuid)
  BY DEF ReadAs
<1>2. /\ place \in {"none", "save", "run", "ask"}
      /\ place # "save" => uuid = file.uuid
      /\ u = "agent" /\ place = "run" => set
  BY <1>1 DEF Validated, MustSave
<1>3. set \in BOOLEAN
  OBVIOUS
<1>4. rec(place) \in Memories
  BY <1>2, <1>3 DEF Memories
<1>5. used' = used \/ (u = "agent" /\ place = "run" /\ set /\ used' = uuid)
  BY <1>1, <1>2 DEF Starts
<1>6. WITNESS rec(place) \in Memories
<1>7. QED
  BY <1>1, <1>2, <1>5

LEMMA ReadReads ==
  ASSUME ConfigTypeOK, NEW u \in Users, ReadKeeps(u) \/ ReadDerives(u) \/ ReadGenerates(u)
  PROVE  (\E rec \in Memories : Reads(u, rec)) /\ UNCHANGED envVars
<1>1. UNCHANGED envVars /\ file' = file /\ mem[u].at = "none"
  BY DEF ReadKeeps, ReadDerives, ReadGenerates, Readable
<1>2. PICK uuid \in Identities \ {NoId}, derived \in BOOLEAN :
        /\ ReadAs(u, uuid, derived)
        /\ made' \in 0..MaxFresh
        /\ uuid = file.uuid \/ file.uuid = NoId \/ (idx /\ named /\ uuid = Name)
        /\ Derived /\ named => uuid = Name
  <2>1. CASE ReadKeeps(u)
    <3>1. file.uuid \in Identities \ {NoId} /\ Derived \in BOOLEAN
      BY <2>1 DEF ReadKeeps, ConfigTypeOK, Derived
    <3>2. /\ ReadAs(u, file.uuid, Derived)
          /\ made' \in 0..MaxFresh
          /\ ~(Derived /\ named)
      BY <2>1 DEF ReadKeeps, ConfigTypeOK
    <3>3. QED
      BY <3>1, <3>2
  <2>2. CASE ReadDerives(u)
    <3>1. /\ ReadAs(u, Name, TRUE)
          /\ made' \in 0..MaxFresh
          /\ idx /\ named
      BY <2>2 DEF ReadDerives, ConfigTypeOK, Derived
    <3>2. QED
      BY <3>1, IdentityNumbers
  <2>3. CASE ReadGenerates(u)
    <3>1. /\ ReadAs(u, made', Derived)
          /\ made' = made + 1 /\ made < MaxFresh
          /\ file.uuid = NoId
          /\ ~(Derived /\ named)
          /\ Derived \in BOOLEAN
      BY <2>3 DEF ReadGenerates, Derived
    <3>2. made' \in 0..MaxFresh /\ made' \in Identities \ {NoId}
      BY <3>1, IdentityNumbers DEF ConfigTypeOK
    <3>3. QED
      BY <3>1, <3>2
  <2>4. QED
    BY <2>1, <2>2, <2>3
<1>3. /\ cut' = cut
      /\ Excuse(IF cut THEN {uuid} ELSE {})
  BY <1>2 DEF ReadAs
<1>4. PICK rec \in Memories :
        /\ mem' = [mem EXCEPT ![u] = rec]
        /\ rec.at \in {"none", "save", "run", "ask"}
        /\ rec.uuid = uuid
        /\ rec.set <=> (env \/ file.text = "settings")
        /\ rec.at # "save" => uuid = file.uuid
        /\ used' = used \/ (u = "agent" /\ rec.at = "run" /\ rec.set /\ used' = uuid)
  BY <1>2, ReadAsReads
<1>5. rec.set /\ idx /\ named => rec.uuid = Name
  BY <1>2, <1>4 DEF Derived
<1>6. Reads(u, rec)
  BY <1>1, <1>2, <1>3, <1>4, <1>5 DEF Reads
<1>7. QED
  BY <1>1, <1>6

LEMMA ReadKeepsConfig ==
  ASSUME ConfigInv, NEW u \in Users, NEW rec \in Memories, Reads(u, rec), UNCHANGED envVars
  PROVE  ConfigInv' /\ StableStep
<1>1. /\ mem' \in [Users -> Memories] /\ mem'[u] = rec
      /\ \A w \in Users \ {u} : mem'[w] = mem[w]
      /\ env' = env /\ idx' = idx /\ named' = named
      /\ "edit" \in Users
  BY MemoryTyped DEF Reads, ConfigInv, envVars
<1>2. ConfigTypeOK'
  <2>1. used' \in Identities
    BY DEF Reads, Memories, ConfigInv, ConfigTypeOK
  <2>2. file'.uuid \in Identities
    BY DEF Reads, ConfigInv, ConfigTypeOK
  <2>3. excused' \subseteq Identities
    BY <1>1, <2>2, HeldTyped DEF Reads
  <2>4. QED
    BY <1>1, <2>1, <2>3 DEF Reads, ConfigInv, ConfigTypeOK, Memories
<1>3. DerivedIsName' /\ ReadersHaveOne'
  BY <1>1 DEF Reads, ConfigInv, DerivedIsName, ReadersHaveOne, Reading, Name
<1>4. CASE used' = used
  <2> DEFINE read == IF cut THEN {rec.uuid} ELSE {}
  <2>1. rec.uuid \in Held'
    BY <1>1 DEF Held
  <2>2. Excuse(read)
    BY DEF Reads
  <2> HIDE DEF read
  <2>3. \A x \in Held' : x \in excused \cup read => x \in excused' \cup {NoId, used}
    BY <1>4, <2>2, ExcuseStays
  <2>4. /\ \A x \in Held' : x \in excused => x \in excused' \cup {NoId, used}
        /\ rec.uuid \in excused \/ cut => rec.uuid \in excused' \cup {NoId, used}
    BY <2>1, <2>3 DEF read
  <2>5. used = NoId \/ rec.uuid \in excused' \cup {NoId, used}
    BY <2>4 DEF Reads, ConfigInv, DerivedIsName, KnownIdentities, Known
  <2>6. \A w \in Users : Active(w)' =>
          \/ used = NoId
          \/ mem'[w].uuid \in excused' \cup {NoId, used}
          \/ Active(w) /\ mem'[w].uuid = mem[w].uuid
    BY <1>1, <2>5 DEF Active
  <2>7. KnownIdentities'
    BY <1>4, <2>4, <2>6, KnownStay DEF Reads, ConfigInv
  <2>8. QED
    BY <1>2, <1>3, <1>4, <2>7 DEF ConfigInv, StableStep
<1>5. CASE used' # used
  <2>1. /\ u = "agent" /\ mem[u].at = "none" /\ rec.set
        /\ used' = rec.uuid /\ rec.uuid = file.uuid /\ rec.uuid # NoId
        /\ excused' = {mem'["edit"].uuid} \ {NoId, used'}
    BY <1>5, ExcuseAnew DEF Reads
  <2>2. KnownIdentities'
    BY <1>1, <2>1, KnownAnew DEF Reads, ConfigInv
  <2>3. idx /\ named => used = NoId
    BY <1>5, <2>1 DEF Reads, ConfigInv, DerivedIsName
  <2>4. used # NoId => used' \in excused \/ cut
    BY <1>5, <2>1 DEF ConfigInv, KnownIdentities, Known
  <2>5. QED
    BY <1>2, <1>3, <2>1, <2>2, <2>3, <2>4 DEF ConfigInv, StableStep
<1>6. QED
  BY <1>4, <1>5

LEMMA OpenKeepsConfig ==
  ASSUME ConfigInv, NEW u \in Users, SaveOpens(u)
  PROVE  ConfigInv' /\ StableStep
<1>1. PICK place \in {"write", "rewrite"} :
        /\ mem' = [mem EXCEPT ![u].at = place]
        /\ mem[u].at = IF place = "write" THEN "save" ELSE "amend"
  BY DEF SaveOpens
<1>2. /\ file' = [text |-> "bare", uuid |-> NoId]
      /\ cut' = TRUE
      /\ Excuse({})
      /\ UNCHANGED <<env, idx, named, made, used>>
  BY DEF SaveOpens, envVars
<1>3. /\ mem' \in [Users -> Memories]
      /\ mem'[u].at = place /\ mem'[u].set = mem[u].set
      /\ \A w \in Users : mem'[w].uuid = mem[w].uuid
      /\ \A w \in Users \ {u} : mem'[w] = mem[w]
      /\ mem[u].at \in {"save", "amend"}
  BY <1>1, MemoryTyped DEF ConfigInv, Memories
<1>4. ConfigTypeOK'
  BY <1>2, <1>3, IdentityNumbers, HeldTyped DEF ConfigInv, ConfigTypeOK, Memories
<1>5. DerivedIsName' /\ ReadersHaveOne'
  BY <1>1, <1>2, <1>3 DEF ConfigInv, DerivedIsName, ReadersHaveOne, Reading, Name
<1>6. KnownIdentities'
  BY <1>2, <1>3, KnownStay, ExcuseStays DEF ConfigInv, Active
<1>7. QED
  BY <1>2, <1>4, <1>5, <1>6 DEF ConfigInv, StableStep

\* Where Save returns to.
LEMMA Returns ==
  ASSUME ConfigInv, NEW u \in Users, Return(u),
         mem[u].at \in {"save", "write", "amend", "rewrite"}
  PROVE  /\ mem' \in [Users -> Memories]
         /\ \A w \in Users \ {u} : mem'[w] = mem[w]
         /\ mem'[u].at \in {"none", "run", "ask"}
         /\ mem'[u].at # "none" => mem'[u].uuid = mem[u].uuid
         /\ \/ used' = used
            \/ /\ u = "agent" /\ Reading(u) /\ mem[u].set /\ used' = mem[u].uuid
               /\ mem'[u].at = "run"
<1> DEFINE reading == mem[u].at \in {"save", "write"}
           place == IF reading THEN Validated(u, mem[u].set)
                    ELSE IF u = "agent" THEN "run" ELSE "none"
           after == IF place = "none" THEN NoMemory ELSE [mem[u] EXCEPT !.at = place]
<1>1. mem' = [mem EXCEPT ![u] = after]
  BY DEF Return
<1>2. place \in {"none", "run", "ask"}
  BY DEF Validated
<1>3. after \in Memories /\ after.at = place /\ (place # "none" => after.uuid = mem[u].uuid)
  BY <1>2, MemoryTyped, IdentityNumbers DEF ConfigInv, Memories, NoMemory
<1>4. \/ used' = used
      \/ /\ u = "agent" /\ Reading(u) /\ mem[u].set /\ used' = mem[u].uuid
         /\ place = "run"
  BY <1>2 DEF Return, Starts, Validated, Reading
<1> HIDE DEF after, place
<1>5. QED
  BY <1>1, <1>2, <1>3, <1>4, MemoryTyped DEF ConfigInv

\* The end of Save, which may have written nothing, or not all.
LEMMA SavedKeepsConfig ==
  ASSUME ConfigInv, NEW u \in Users, Return(u), Saving(u), Excuse({}),
         UNCHANGED <<env, idx, named, made>>, cut' \in BOOLEAN,
         file' \in [text : {"absent", "bare", "settings", "garbled"}, uuid : Identities],
         cut' \/ (file'.uuid = mem[u].uuid /\ file'.uuid # NoId)
  PROVE  ConfigInv' /\ StableStep
<1>1. /\ mem' \in [Users -> Memories]
      /\ \A w \in Users \ {u} : mem'[w] = mem[w]
      /\ mem'[u].at \in {"none", "run", "ask"}
      /\ mem'[u].at # "none" => mem'[u].uuid = mem[u].uuid
      /\ \/ used' = used
         \/ /\ u = "agent" /\ Reading(u) /\ mem[u].set /\ used' = mem[u].uuid
            /\ mem'[u].at = "run"
      /\ Active(u)
  BY Returns DEF Saving, Active
<1>2. mem[u].uuid \in Identities
  BY MemoryTyped DEF ConfigInv, Memories
<1>3. ConfigTypeOK'
  <2>1. used' \in Identities /\ excused' \subseteq Identities
    BY <1>1, <1>2, HeldTyped DEF ConfigInv, ConfigTypeOK
  <2>2. QED
    BY <1>1, <2>1 DEF ConfigInv, ConfigTypeOK, Memories
<1>4. DerivedIsName' /\ ReadersHaveOne'
  BY <1>1 DEF ConfigInv, DerivedIsName, ReadersHaveOne, Reading, Name
<1>5. mem[u].uuid = NoId \/ Known(mem[u].uuid)
  BY <1>1 DEF ConfigInv, KnownIdentities
<1>6. CASE used' = used
  <2>1. \A x \in Held' : x \in excused => x \in excused' \cup {NoId, used}
    BY <1>6, ExcuseStays
  <2>2. \A w \in Users : Active(w)' => Active(w) /\ mem'[w].uuid = mem[w].uuid
    BY <1>1 DEF Active
  <2>3. \/ cut' \/ used = NoId
        \/ file'.uuid # NoId /\ file'.uuid \in excused' \cup {used}
    BY <1>5, <2>1 DEF Known, Held
  <2>4. KnownIdentities'
    BY <1>6, <2>1, <2>2, <2>3, KnownStay DEF ConfigInv
  <2>5. QED
    BY <1>3, <1>4, <1>6, <2>4 DEF ConfigInv, StableStep
<1>7. CASE used' # used
  <2>1. /\ u = "agent" /\ Reading(u) /\ mem[u].set /\ used' = mem[u].uuid
        /\ mem'["agent"].uuid = used' /\ used' # NoId
        /\ excused' = {mem'["edit"].uuid} \ {NoId, used'}
    BY <1>1, <1>7, ExcuseAnew DEF ConfigInv, ReadersHaveOne
  <2>2. KnownIdentities'
    BY <2>1, KnownAnew DEF ConfigInv
  <2>3. idx /\ named => used = NoId
    BY <1>7, <2>1 DEF ConfigInv, DerivedIsName
  <2>4. used # NoId => used' \in excused
    BY <1>5, <1>7, <2>1 DEF Known
  <2>5. mem["agent"].at \in {"none", "save", "write"}
    BY <2>1 DEF Reading
  <2>6. QED
    BY <1>3, <1>4, <2>2, <2>3, <2>4, <2>5 DEF ConfigInv, StableStep
<1>8. QED
  BY <1>6, <1>7

LEMMA SaveKeepsConfig ==
  ASSUME ConfigInv, NEW u \in Users, SaveWrites(u) \/ SaveFails(u)
  PROVE  ConfigInv' /\ StableStep
<1>1. /\ Return(u) /\ Excuse({}) /\ Saving(u)
      /\ UNCHANGED <<env, idx, named, made>>
  BY DEF SaveWrites, SaveFails, Saving, envVars
<1>2. mem[u].uuid \in Identities /\ cut \in BOOLEAN
  BY MemoryTyped DEF ConfigInv, ConfigTypeOK, Memories
<1>3. CASE SaveWrites(u)
  <2>1. /\ file' \in [text : {"absent", "bare", "settings", "garbled"}, uuid : Identities]
        /\ file'.uuid = mem[u].uuid
    BY <1>2, <1>3 DEF SaveWrites
  <2>2. cut' \in BOOLEAN /\ (~cut' => mem[u].uuid # NoId)
    BY <1>3 DEF SaveWrites
  <2>3. QED
    BY <1>1, <2>1, <2>2, SavedKeepsConfig
<1>4. CASE SaveFails(u)
  <2>1. file' \in [text : {"absent", "bare", "settings", "garbled"}, uuid : Identities]
    BY <1>4, IdentityNumbers DEF SaveFails, Left, ConfigInv, ConfigTypeOK
  <2>2. cut' \in BOOLEAN /\ (~cut' => file'.uuid = mem[u].uuid /\ file'.uuid # NoId)
    BY <1>4 DEF SaveFails
  <2>3. QED
    BY <1>1, <2>1, <2>2, SavedKeepsConfig
<1>5. QED
  BY <1>3, <1>4

LEMMA KillKeepsConfig ==
  ASSUME ConfigInv, NEW u \in Users, Killed(u)
  PROVE  ConfigInv' /\ StableStep
<1>1. /\ mem' \in [Users -> Memories] /\ mem'[u].at = "none"
      /\ \A w \in Users \ {u} : mem'[w] = mem[w]
      /\ UNCHANGED <<env, idx, named, made, used>>
      /\ Excuse({}) /\ cut \in BOOLEAN
  BY MemoryTyped, IdentityNumbers
     DEF Killed, envVars, ConfigInv, ConfigTypeOK, Memories, NoMemory
<1>2. /\ file' \in [text : {"absent", "bare", "settings", "garbled"}, uuid : Identities]
      /\ cut' \in BOOLEAN
      /\ cut' \/ (file' = file /\ cut' = cut)
  BY <1>1, IdentityNumbers DEF Killed, Left, ConfigInv, ConfigTypeOK
<1>3. ConfigTypeOK'
  BY <1>1, <1>2, HeldTyped DEF ConfigInv, ConfigTypeOK, Memories
<1>4. DerivedIsName' /\ ReadersHaveOne'
  BY <1>1 DEF ConfigInv, DerivedIsName, ReadersHaveOne, Reading, Name
<1>5. KnownIdentities'
  BY <1>1, <1>2, KnownStay, ExcuseStays DEF ConfigInv, Active
<1>6. QED
  BY <1>1, <1>3, <1>4, <1>5 DEF ConfigInv, StableStep

\* Who changes a configuration keeps its UUID, or the other one is excused.
LEMMA CallersKeepConfig ==
  ASSUME ConfigInv, ApplyRemote \/ ApplyIdentity \/ EditKeeps \/ EditChooses \/ ReadFails
  PROVE  ConfigInv' /\ StableStep
<1>1. /\ UNCHANGED <<env, idx, named, file, used, cut>>
      /\ made' \in 0..MaxFresh
  BY IdentityNumbers DEF ApplyRemote, ApplyIdentity, EditKeeps, EditChooses, ReadFails, envVars,
         ConfigInv, ConfigTypeOK
<1>2. PICK u \in Users, rec \in Memories :
        /\ mem' = [mem EXCEPT ![u] = rec]
        /\ rec.at \in {"amend", "ask"}
        /\ \/ Excuse({}) /\ rec.uuid = NoId
           \/ Excuse({}) /\ rec.uuid = mem[u].uuid /\ Active(u)
           \/ Excuse({rec.uuid})
  <2>1. /\ mem["agent"] \in Memories /\ mem["edit"] \in Memories
        /\ "agent" \in Users /\ "edit" \in Users
    BY MemoryTyped DEF ConfigInv
  <2>2. CASE ApplyRemote
    <3>1. PICK set \in BOOLEAN :
            mem' = [mem EXCEPT !["agent"].at = "amend", !["agent"].set = set]
      BY <2>2 DEF ApplyRemote
    <3> DEFINE rec == [mem["agent"] EXCEPT !.at = "amend", !.set = set]
    <3>2. rec \in Memories /\ rec.at = "amend" /\ rec.uuid = mem["agent"].uuid
      BY <2>1 DEF Memories
    <3>3. mem' = [mem EXCEPT !["agent"] = rec] /\ Active("agent") /\ Excuse({})
      BY <2>2, <3>1 DEF ApplyRemote, Active
    <3> HIDE DEF rec
    <3>4. QED
      BY <2>1, <3>2, <3>3
  <2>3. CASE ApplyIdentity
    <3>1. PICK uuid \in Identities :
            mem' = [mem EXCEPT !["agent"].at = "amend", !["agent"].uuid = uuid]
      BY <1>1, <2>3, IdentityNumbers DEF ApplyIdentity
    <3> DEFINE rec == [mem["agent"] EXCEPT !.at = "amend", !.uuid = uuid]
    <3>2. rec \in Memories /\ rec.at = "amend" /\ rec.uuid = uuid
      BY <2>1 DEF Memories
    <3>3. mem' = [mem EXCEPT !["agent"] = rec] /\ mem'["agent"] = rec
      BY <2>1, <3>1, MemoryTyped DEF ConfigInv
    <3> HIDE DEF rec
    <3>4. Excuse({rec.uuid})
      BY <2>3, <3>3 DEF ApplyIdentity
    <3>5. QED
      BY <2>1, <3>2, <3>3, <3>4
  <2>4. CASE EditKeeps
    <3> DEFINE rec == [mem["edit"] EXCEPT !.at = "amend"]
    <3>1. rec \in Memories /\ rec.at = "amend" /\ rec.uuid = mem["edit"].uuid
      BY <2>1 DEF Memories
    <3>2. mem' = [mem EXCEPT !["edit"] = rec] /\ Active("edit") /\ Excuse({})
      BY <2>4 DEF EditKeeps, Active
    <3> HIDE DEF rec
    <3>3. QED
      BY <2>1, <3>1, <3>2
  <2>5. CASE EditChooses
    <3> DEFINE rec == [mem["edit"] EXCEPT !.at = "amend", !.uuid = made']
    <3>1. rec \in Memories /\ rec.at = "amend" /\ rec.uuid = made'
      BY <1>1, <2>1, IdentityNumbers DEF Memories
    <3>2. mem' = [mem EXCEPT !["edit"] = rec] /\ Excuse({made'})
      BY <2>5 DEF EditChooses
    <3> HIDE DEF rec
    <3>3. QED
      BY <2>1, <3>1, <3>2
  <2>6. CASE ReadFails
    <3> DEFINE rec == [NoMemory EXCEPT !.at = "ask"]
    <3>1. rec \in Memories /\ rec.at = "ask" /\ rec.uuid = NoId
      BY IdentityNumbers DEF Memories, NoMemory
    <3>2. mem' = [mem EXCEPT !["edit"] = rec] /\ Excuse({})
      BY <2>6 DEF ReadFails
    <3> HIDE DEF rec
    <3>3. QED
      BY <2>1, <3>1, <3>2
  <2>7. QED
    BY <2>2, <2>3, <2>4, <2>5, <2>6
<1>3. /\ mem' \in [Users -> Memories] /\ mem'[u] = rec
      /\ \A w \in Users \ {u} : mem'[w] = mem[w]
      /\ rec.uuid \in Held'
  BY <1>2, MemoryTyped DEF ConfigInv, Held
<1>4. ConfigTypeOK'
  <2>1. excused' \subseteq Identities
    BY <1>1, <1>2, <1>3, HeldTyped DEF ConfigInv, ConfigTypeOK
  <2>2. QED
    BY <1>1, <1>3, <2>1 DEF ConfigInv, ConfigTypeOK, Memories
<1>5. DerivedIsName' /\ ReadersHaveOne'
  BY <1>1, <1>2, <1>3 DEF ConfigInv, DerivedIsName, ReadersHaveOne, Reading, Name
<1>6. KnownIdentities'
  <2>1. \A x \in Held' : x \in excused => x \in excused' \cup {NoId, used}
    BY <1>1, <1>2, ExcuseStays
  <2>2. \/ rec.uuid = mem[u].uuid /\ Active(u)
        \/ rec.uuid \in excused' \cup {NoId, used}
    BY <1>1, <1>2, <1>3, ExcuseStays
  <2>3. \A w \in Users : Active(w)' =>
          \/ mem'[w].uuid \in excused' \cup {NoId, used}
          \/ Active(w) /\ mem'[w].uuid = mem[w].uuid
    BY <1>3, <2>2 DEF Active
  <2>4. QED
    BY <1>1, <2>1, <2>3, KnownStay DEF ConfigInv
<1>7. QED
  BY <1>1, <1>4, <1>5, <1>6 DEF ConfigInv, StableStep

LEMMA RepairKeepsConfig ==
  ASSUME ConfigInv, Repair
  PROVE  ConfigInv' /\ StableStep
<1>1. /\ UNCHANGED <<env, idx, named, mem, made, used, cut, excused>>
      /\ file' = [file EXCEPT !.text = "settings"]
  BY DEF Repair, envVars
<1>2. file'.uuid = file.uuid /\ ConfigTypeOK'
  BY <1>1 DEF ConfigInv, ConfigTypeOK
<1>3. DerivedIsName' /\ ReadersHaveOne' /\ KnownIdentities'
  BY <1>1, <1>2
     DEF ConfigInv, DerivedIsName, ReadersHaveOne, KnownIdentities, Known, Active, Reading
<1>4. QED
  BY <1>1, <1>2, <1>3 DEF ConfigInv, StableStep

LEMMA ConfigInvStep == ConfigInv /\ [ConfigNext]_configVars => ConfigInv' /\ StableStep
<1> SUFFICES ASSUME ConfigInv, [ConfigNext]_configVars
             PROVE  ConfigInv' /\ StableStep
  OBVIOUS
<1>1. CASE UNCHANGED configVars
  BY <1>1 DEF ConfigInv, ConfigTypeOK, DerivedIsName, ReadersHaveOne, KnownIdentities, Known,
              StableStep, Active, Reading, configVars, envVars
<1>2. ASSUME NEW u \in Users, ReadKeeps(u) \/ ReadDerives(u) \/ ReadGenerates(u)
      PROVE  ConfigInv' /\ StableStep
  BY <1>2, ReadReads, ReadKeepsConfig DEF ConfigInv
<1>3. CASE ConfigNext
  BY <1>2, <1>3, OpenKeepsConfig, SaveKeepsConfig, KillKeepsConfig,
     CallersKeepConfig, RepairKeepsConfig DEF ConfigNext
<1>4. QED
  BY <1>1, <1>3

LEMMA ConfigInvariant == ConfigSpec => []ConfigInv /\ [][StableStep]_configVars
<1>1. ConfigInv /\ [ConfigNext]_configVars => [StableStep]_configVars
  BY ConfigInvStep
<1>2. QED
  BY ConfigInvInit, ConfigInvStep, <1>1, PTL DEF ConfigSpec

\* An agent is started with the UUID it had, whatever processes read and write the
\* file in between, unless the other one has one of the causes IdentityIsStable names;
\* and it has it as long as it runs (config.go:63-146, 159, edit.go:19, 149,
\* main.go:287-293).
THEOREM IdentitiesAreStable == ConfigSpec => IdentityIsStable
BY ConfigInvariant, PTL DEF IdentityIsStable, StableStep

-----------------------------------------------------------------------------
(* Queries: tries. *)

RequestRecords ==
  [at : {"over", "pick", "ask", "dial", "shaken"}, p : Protocols, tries : 0..Retries, from : Nat]

QueryTyped ==
  /\ request \in [Requests -> RequestRecords]
  /\ server \in Protocols
  /\ memory \in Protocols
  /\ switches \in Nat
  /\ last \in [p : Protocols, switches : Nat]
  /\ last.switches <= switches
  /\ \A r \in Requests : request[r].from <= switches
  /\ \A r \in Requests : request[r].at \in {"ask", "dial", "shaken"} => request[r].tries < Retries

\* Who dials is alone, and what is remembered does not change meanwhile.
Locked ==
  \A r \in Requests : request[r].at \in {"dial", "shaken"} =>
    /\ request[r].p = memory
    /\ \A q \in Requests : request[q].at \in {"dial", "shaken"} => q = r

\* The server speaks what it negotiated last, unless it has changed its protocol since.
Since == last.p # server => last.switches < switches

\* What is still going to cost a try: the transport that was asked is the wrong one by
\* now, or what is remembered is not what was negotiated or what the server speaks.
One(b) == IF b THEN 1 ELSE 0
Stale(r) == One(request[r].at = "ask" /\ request[r].p # memory)
Mistaken ==
  IF Recording THEN One(memory # last.p) + One(last.p # server) ELSE One(memory # server)

TriesPaid ==
  found => \A r \in Requests : request[r].at # "over" =>
    request[r].tries + Stale(r) + Mistaken <= switches - request[r].from + 1

OverIsFresh == \A r \in Requests : request[r].at = "over" => request[r] = NoRequest

TriesInv == QueryTyped /\ Locked /\ Since /\ TriesPaid /\ OverIsFresh

LEMMA TriesInvInit == QueryInit => TriesInv
<1> SUFFICES ASSUME QueryInit PROVE TriesInv
  OBVIOUS
<1>1. \A r \in Requests : request[r] = NoRequest
  BY DEF QueryInit
<1>2. last \in [p : Protocols, switches : Nat] /\ last.p = server /\ last.switches = 0
  BY DEF QueryInit
<1>3. NoRequest \in RequestRecords /\ NoRequest.at = "over" /\ NoRequest.from = 0
  BY DEF NoRequest, RequestRecords, Protocols, Retries
<1>4. QueryTyped
  BY <1>1, <1>2, <1>3 DEF QueryInit, QueryTyped, Protocols
<1>5. QED
  BY <1>1, <1>2, <1>3, <1>4 DEF TriesInv, Locked, Since, TriesPaid, OverIsFresh

\* A request whose record changes while server and memory stay, and that neither was
\* nor comes to be one whose handshake is recorded; or after it, when nothing differs.
LEMMA RequestMoves ==
  ASSUME TriesInv, NEW r \in Requests, NEW rec \in RequestRecords,
         request' = [request EXCEPT ![r] = rec],
         UNCHANGED <<server, switches, memory, found, last>>,
         request[r].at # "shaken" \/ memory = last.p,
         rec.at # "shaken",
         rec.from <= switches,
         rec.at \in {"ask", "dial"} => rec.tries < Retries,
         rec.at = "over" => rec = NoRequest,
         rec.at = "dial" => Unlocked /\ rec.p = memory,
         found /\ rec.at # "over" =>
           rec.tries + One(rec.at = "ask" /\ rec.p # memory) + Mistaken
             <= switches - rec.from + 1
  PROVE  TriesInv'
<1>1. /\ request' \in [Requests -> RequestRecords] /\ request'[r] = rec
      /\ \A q \in Requests \ {r} : request'[q] = request[q]
  BY DEF TriesInv, QueryTyped
<1>2. QueryTyped'
  BY <1>1 DEF TriesInv, QueryTyped
<1>3. Locked' /\ Since'
  BY <1>1 DEF TriesInv, Locked, Unlocked, Since
<1>4. OverIsFresh'
  BY <1>1 DEF TriesInv, OverIsFresh
<1>5. Mistaken' = Mistaken
  <2>1. CASE request[r].at # "shaken"
    <3>1. Recording' <=> Recording
      BY <1>1, <2>1 DEF Recording
    <3>2. QED
      BY <3>1 DEF Mistaken, One
  <2>2. CASE request[r].at = "shaken"
    <3>1. Recording /\ ~Recording'
      BY <1>1, <2>2 DEF Recording, TriesInv, Locked
    <3>2. memory = last.p
      BY <2>2
    <3>3. QED
      BY <3>1, <3>2 DEF Mistaken, One
  <2>3. QED
    BY <2>1, <2>2
<1>6. TriesPaid'
  <2> SUFFICES ASSUME found', NEW q \in Requests, request'[q].at # "over"
               PROVE  request'[q].tries + Stale(q)' + Mistaken' <= switches' - request'[q].from + 1
    BY DEF TriesPaid
  <2>1. CASE q = r
    BY <1>1, <1>5, <2>1 DEF Stale
  <2>2. CASE q # r
    BY <1>1, <1>5, <2>2 DEF Stale, TriesInv, TriesPaid
  <2>3. QED
    BY <2>1, <2>2
<1>7. QED
  BY <1>2, <1>3, <1>4, <1>6 DEF TriesInv

LEMMA RequestEnds ==
  ASSUME TriesInv, NEW r \in Requests, request' = [request EXCEPT ![r] = NoRequest],
         request[r].at # "shaken" \/ memory = last.p,
         UNCHANGED <<server, switches, memory, found, last>>
  PROVE  TriesInv'
<1>1. NoRequest \in RequestRecords /\ NoRequest.at = "over" /\ NoRequest.from = 0
  BY DEF NoRequest, RequestRecords, Protocols, Retries
<1>2. NoRequest.from <= switches
  BY <1>1 DEF TriesInv, QueryTyped
<1>3. NoRequest.at \notin {"ask", "dial", "shaken"}
  BY <1>1
<1>4. QED
  BY <1>1, <1>2, <1>3, RequestMoves, Zenon

\* A handshake tells what the server speaks now.
LEMMA HandshakeKeepsTries ==
  ASSUME TriesInv, NEW r \in Requests, Handshake(r)
  PROVE  TriesInv'
<1> USE DEF TriesInv
<1> DEFINE rec == [request[r] EXCEPT !.at = "shaken"]
<1>1. /\ request' = [request EXCEPT ![r] = rec]
      /\ request[r].at = "dial"
      /\ last' = [p |-> server, switches |-> switches]
      /\ UNCHANGED <<server, switches, memory, found>>
  BY DEF Handshake, QueryTyped
<1>2. /\ request[r] \in RequestRecords /\ request \in [Requests -> RequestRecords]
      /\ request[r].from <= switches /\ switches \in Nat /\ server \in Protocols
      /\ request[r].tries < Retries
  BY <1>1 DEF QueryTyped
<1>3. /\ rec \in RequestRecords /\ rec.at = "shaken" /\ rec.p = request[r].p
      /\ rec.tries = request[r].tries /\ rec.from = request[r].from
  BY <1>2 DEF RequestRecords
<1>4. /\ request' \in [Requests -> RequestRecords] /\ request'[r] = rec
      /\ \A q \in Requests \ {r} : request'[q] = request[q]
  BY <1>1, <1>2, <1>3
<1>5. /\ last' \in [p : Protocols, switches : Nat]
      /\ last'.p = server /\ last'.switches = switches
  BY <1>1, <1>2
<1>6. QueryTyped'
  BY <1>1, <1>2, <1>3, <1>4, <1>5 DEF QueryTyped
<1>7. Locked' /\ Since' /\ OverIsFresh'
  BY <1>1, <1>3, <1>4, <1>5 DEF Locked, Since, OverIsFresh
<1>8. Mistaken' = Mistaken
  <2>1. ~Recording /\ Recording'
    BY <1>1, <1>3, <1>4 DEF Recording, Locked
  <2>2. QED
    BY <1>1, <1>5, <2>1 DEF Mistaken, One
<1>9. TriesPaid'
  <2> SUFFICES ASSUME found', NEW q \in Requests, request'[q].at # "over"
               PROVE  request'[q].tries + Stale(q)' + Mistaken' <= switches' - request'[q].from + 1
    BY DEF TriesPaid
  <2>1. CASE q = r
    <3>1. Stale(q) = 0 /\ Stale(q)' = 0
      BY <1>1, <1>3, <1>4, <2>1 DEF Stale, One
    <3>2. QED
      BY <1>1, <1>3, <1>4, <1>8, <2>1, <3>1 DEF TriesPaid
  <2>2. CASE q # r
    BY <1>1, <1>4, <1>8, <2>2 DEF Stale, TriesPaid
  <2>3. QED
    BY <2>1, <2>2
<1>10. QED
  BY <1>6, <1>7, <1>9

\* What is recorded costs a try, and is not to be paid again.
LEMMA DifferenceKeepsTries ==
  ASSUME TriesInv, NEW r \in Requests, DialDiffers(r)
  PROVE  TriesInv'
<1> USE DEF TriesInv
<1> DEFINE rec == [request[r] EXCEPT !.at = "pick", !.tries = request[r].tries + 1]
<1>1. /\ request' = [request EXCEPT ![r] = rec]
      /\ request[r].at = "shaken" /\ request[r].p # last.p
      /\ memory' = last.p
      /\ UNCHANGED <<server, switches, found, last>>
  BY DEF DialDiffers, TryAgain, QueryTyped
<1>2. /\ request[r] \in RequestRecords /\ request \in [Requests -> RequestRecords]
      /\ request[r].tries \in 0..Retries /\ request[r].tries < Retries /\ Retries = 5
      /\ request[r].from <= switches /\ switches \in Nat
      /\ request[r].p = memory /\ memory # last.p
  BY <1>1 DEF QueryTyped, RequestRecords, Retries, Locked
<1>3. /\ rec \in RequestRecords /\ rec.at = "pick" /\ rec.tries = request[r].tries + 1
      /\ rec.from = request[r].from
  <2>1. request[r].tries + 1 \in 0..Retries
    BY <1>2
  <2>2. QED
    BY <1>2, <2>1 DEF RequestRecords
<1>4. /\ request' \in [Requests -> RequestRecords] /\ request'[r] = rec
      /\ \A q \in Requests \ {r} : request'[q] = request[q]
  BY <1>1, <1>2, <1>3
<1>5. QueryTyped'
  BY <1>1, <1>2, <1>3, <1>4 DEF QueryTyped
<1>6. Locked' /\ Since' /\ OverIsFresh'
  BY <1>1, <1>3, <1>4 DEF Locked, Since, OverIsFresh
<1>7. Recording /\ ~Recording'
  BY <1>1, <1>3, <1>4 DEF Recording, Locked
<1>8. Mistaken = 1 + Mistaken' /\ Mistaken' \in {0, 1}
  BY <1>1, <1>2, <1>7 DEF Mistaken, One
<1>9. TriesPaid'
  <2> SUFFICES ASSUME found', NEW q \in Requests, request'[q].at # "over"
               PROVE  request'[q].tries + Stale(q)' + Mistaken' <= switches' - request'[q].from + 1
    BY DEF TriesPaid
  <2>1. /\ request[q] \in RequestRecords /\ request[q].tries \in Nat /\ request[q].from \in Nat
        /\ Stale(q) \in {0, 1} /\ Stale(q)' \in {0, 1} /\ found
    BY <1>1, <1>2 DEF RequestRecords, Stale, One
  <2>2. CASE q = r
    <3>1. Stale(q) = 0 /\ Stale(q)' = 0
      BY <1>1, <1>3, <1>4, <2>2 DEF Stale, One
    <3>2. request[r].tries + Mistaken <= switches - request[r].from + 1
      BY <1>1, <2>1, <2>2, <3>1 DEF TriesPaid
    <3>3. QED
      BY <1>1, <1>2, <1>3, <1>4, <1>8, <2>1, <2>2, <3>1, <3>2
  <2>3. CASE q # r
    <3>1. request'[q] = request[q]
      BY <1>4, <2>3
    <3>2. request[q].tries + Stale(q) + Mistaken <= switches - request[q].from + 1
      BY <2>1, <3>1 DEF TriesPaid
    <3>3. request'[q].tries + Stale(q)' + Mistaken' <= request[q].tries + Stale(q) + Mistaken
      BY <1>8, <2>1, <3>1
    <3>4. QED
      BY <1>1, <1>2, <1>8, <2>1, <3>1, <3>2, <3>3
  <2>4. QED
    BY <2>2, <2>3
<1>10. QED
  BY <1>5, <1>6, <1>9

LEMMA StepKeepsTries ==
  ASSUME TriesInv, NEW r \in Requests, RequestStep(r)
  PROVE  TriesInv'
<1> USE DEF TriesInv
<1>0. /\ request[r] \in RequestRecords /\ request[r].from <= switches /\ switches \in Nat
      /\ memory \in Protocols /\ server \in Protocols
      /\ last \in [p : Protocols, switches : Nat] /\ last.switches <= switches
      /\ request \in [Requests -> RequestRecords]
  BY DEF QueryTyped
<1>1. CASE BeginRequest(r)
  <2> DEFINE rec == [at |-> "pick", p |-> "h2", tries |-> 0,
                     from |-> IF Recording THEN last.switches ELSE switches]
  <2>1. /\ rec \in RequestRecords /\ rec.at = "pick" /\ rec.tries = 0 /\ rec.from <= switches
        /\ rec.from = IF Recording THEN last.switches ELSE switches
    BY <1>0 DEF RequestRecords, Protocols, Retries
  <2>2. 0 + Mistaken <= switches - rec.from + 1
    <3>1. CASE Recording
      BY <1>0, <2>1, <3>1 DEF Mistaken, One, Since
    <3>2. CASE ~Recording
      BY <1>0, <2>1, <3>2 DEF Mistaken, One
    <3>3. QED
      BY <3>1, <3>2
  <2>3. /\ request' = [request EXCEPT ![r] = rec] /\ request[r].at = "over"
        /\ UNCHANGED <<server, switches, memory, found, last>>
    BY <1>1 DEF BeginRequest
  <2>4. rec.at \notin {"ask", "dial", "shaken"} /\ rec.at # "over"
    BY <2>1
  <2> HIDE DEF rec
  <2>5. rec.tries + One(rec.at = "ask" /\ rec.p # memory) + Mistaken <= switches - rec.from + 1
    BY <2>1, <2>2, <2>4 DEF One
  <2>6. QED
    BY <1>0, <2>1, <2>3, <2>4, <2>5, RequestMoves
<1>2. CASE PickTransport(r)
  <2> DEFINE rec == [request[r] EXCEPT !.at = "ask", !.p = IF found THEN memory ELSE "h2"]
  <2>1. /\ rec \in RequestRecords /\ rec.at = "ask" /\ rec.p = IF found THEN memory ELSE "h2"
        /\ rec.tries = request[r].tries /\ rec.from = request[r].from
        /\ request' = [request EXCEPT ![r] = rec]
        /\ request[r].at = "pick" /\ request[r].tries < Retries
    BY <1>0, <1>2 DEF PickTransport, RequestRecords, Protocols, Retries
  <2>2. found => rec.tries + One(rec.at = "ask" /\ rec.p # memory) + Mistaken
                      <= switches - rec.from + 1
    BY <1>0, <2>1 DEF TriesPaid, Stale, One
  <2>3. UNCHANGED <<server, switches, memory, found, last>>
    BY <1>2 DEF PickTransport
  <2>4. QED
    BY <1>0, <2>1, <2>2, <2>3, RequestMoves
<1>3. CASE TooMany(r) \/ Reuse(r) \/ Claim(r) \/ DialFails(r) \/ HandshakeFails(r)
            \/ DialMatches(r)
  BY <1>3, RequestEnds
     DEF TooMany, Reuse, Claim, DialFails, HandshakeFails, DialMatches, Locked
<1>4. CASE WrongTransport(r)
  <2> DEFINE rec == [request[r] EXCEPT !.at = "pick", !.tries = request[r].tries + 1]
  <2>1. /\ request' = [request EXCEPT ![r] = rec]
        /\ request[r].at = "ask" /\ request[r].p # memory
        /\ UNCHANGED <<server, switches, memory, found, last>>
    BY <1>0, <1>4 DEF WrongTransport, TryAgain
  <2>2. request[r].tries \in 0..Retries /\ request[r].tries < Retries /\ Retries = 5
    BY <1>0, <2>1 DEF QueryTyped, RequestRecords, Retries
  <2>3. /\ rec \in RequestRecords /\ rec.at = "pick" /\ rec.tries = request[r].tries + 1
        /\ rec.from = request[r].from
    <3>1. request[r].tries + 1 \in 0..Retries
      BY <2>2
    <3>2. QED
      BY <1>0, <3>1 DEF RequestRecords
  <2>4. found => rec.tries + Mistaken <= switches - rec.from + 1
    <3>1. Stale(r) = 1
      BY <2>1 DEF Stale, One
    <3>2. Mistaken \in 0..2
      BY DEF Mistaken, One
    <3>3. request[r].from \in Nat
      BY <1>0 DEF RequestRecords
    <3>4. found => request[r].tries + 1 + Mistaken <= switches - request[r].from + 1
      BY <2>1, <3>1 DEF TriesPaid
    <3> HIDE DEF rec
    <3>5. QED
      BY <1>0, <2>2, <2>3, <3>2, <3>3, <3>4
  <2>5. One(rec.at = "ask" /\ rec.p # memory) = 0 /\ Mistaken \in 0..2
    BY <2>3 DEF One, Mistaken
  <2> HIDE DEF rec
  <2>6. /\ rec.tries \in Nat /\ rec.from \in Nat /\ rec.at \notin {"ask", "dial", "shaken"}
        /\ rec.at # "over" /\ rec.from <= switches
    BY <1>0, <2>3 DEF RequestRecords
  <2>7. found => rec.tries + One(rec.at = "ask" /\ rec.p # memory) + Mistaken
                   <= switches - rec.from + 1
    BY <1>0, <2>4, <2>5, <2>6
  <2>8. QED
    BY <1>0, <2>1, <2>3, <2>6, <2>7, RequestMoves
<1>5. CASE Dial(r)
  <2> DEFINE rec == [request[r] EXCEPT !.at = "dial"]
  <2>1. /\ request' = [request EXCEPT ![r] = rec]
        /\ request[r].at = "ask" /\ request[r].p = memory /\ Unlocked
        /\ UNCHANGED <<server, switches, memory, found, last>>
    BY <1>0, <1>5 DEF Dial
  <2>2. /\ rec \in RequestRecords /\ rec.at = "dial" /\ rec.tries = request[r].tries
        /\ rec.from = request[r].from /\ rec.p = memory /\ rec.tries < Retries
    BY <1>0, <2>1 DEF RequestRecords, QueryTyped
  <2>3. Stale(r) = 0 /\ One(rec.at = "ask" /\ rec.p # memory) = 0 /\ Mistaken \in 0..2
    BY <2>1, <2>2 DEF One, Mistaken, Stale
  <2>4. found => request[r].tries + Stale(r) + Mistaken <= switches - request[r].from + 1
    BY <2>1 DEF TriesPaid
  <2> HIDE DEF rec
  <2>5. found => rec.tries + One(rec.at = "ask" /\ rec.p # memory) + Mistaken
                   <= switches - rec.from + 1
    BY <2>2, <2>3, <2>4
  <2>6. QED
    BY <1>0, <2>1, <2>2, <2>5, RequestMoves
<1>6. CASE Handshake(r)
  BY <1>6, HandshakeKeepsTries
<1>7. CASE DialDiffers(r)
  BY <1>7, DifferenceKeepsTries
<1>8. QED
  BY <1>1, <1>2, <1>3, <1>4, <1>5, <1>6, <1>7 DEF RequestStep

LEMMA SwitchKeepsTries ==
  ASSUME TriesInv, Switch
  PROVE  TriesInv'
<1> USE DEF TriesInv
<1>1. /\ switches' = switches + 1 /\ switches \in Nat /\ server' \in Protocols
      /\ UNCHANGED <<memory, found, last, request>>
      /\ request \in [Requests -> RequestRecords]
      /\ last.switches \in Nat /\ last.switches <= switches
  BY DEF Switch, Other, Protocols, QueryTyped
<1>2. QueryTyped'
  BY <1>1 DEF QueryTyped, RequestRecords
<1>3. Locked' /\ OverIsFresh' /\ Since'
  BY <1>1 DEF Locked, OverIsFresh, Since
<1>4. Mistaken \in 0..2 /\ Mistaken' \in 0..2 /\ Mistaken' <= Mistaken + 1
  <2>1. Recording' <=> Recording
    BY <1>1 DEF Recording
  <2>2. QED
    BY <1>1, <2>1 DEF Mistaken, One
<1>5. TriesPaid'
  <2> SUFFICES ASSUME found', NEW q \in Requests, request'[q].at # "over"
               PROVE  request'[q].tries + Stale(q)' + Mistaken' <= switches' - request'[q].from + 1
    BY DEF TriesPaid
  <2>1. Stale(q)' = Stale(q) /\ Stale(q) \in {0, 1}
    BY <1>1 DEF Stale, One
  <2>2. request[q].tries \in Nat /\ request[q].from \in Nat
    BY <1>1 DEF RequestRecords
  <2>3. request[q].tries + Stale(q) + Mistaken <= switches - request[q].from + 1
    BY <1>1 DEF TriesPaid
  <2>4. QED
    BY <1>1, <1>4, <2>1, <2>2, <2>3
<1>6. QED
  BY <1>2, <1>3, <1>5

LEMMA TriesInvStep == TriesInv /\ [QueryNext]_queryVars => TriesInv'
<1> SUFFICES ASSUME TriesInv, [QueryNext]_queryVars PROVE TriesInv'
  OBVIOUS
<1>1. CASE UNCHANGED <<server, switches, memory, found, last, request>>
  BY <1>1 DEF TriesInv, QueryTyped, Locked, Since, TriesPaid, OverIsFresh, Stale, Mistaken,
              Recording
<1>2. CASE \E r \in Requests : RequestStep(r)
  BY <1>2, StepKeepsTries
<1>3. CASE \E c \in Conns : Tick(c) \/ Drop(c) \/ Collect(c)
  BY <1>1, <1>3 DEF Tick, Drop, Collect
<1>4. CASE Switch
  BY <1>4, SwitchKeepsTries
<1>5. QED
  BY <1>1, <1>2, <1>3, <1>4 DEF QueryNext, queryVars

THEOREM TriesInvariant == QuerySpec => []TriesInv
BY TriesInvInit, TriesInvStep, PTL DEF QuerySpec

\* However many requests share what is remembered of a server, each is tried again
\* only as often as the server changed its protocol since it began, or since the
\* handshake that was being recorded then, and once more, provided that the memory is
\* looked up where it is kept (roundtripper.go:83-101, 149-179).
THEOREM RetriesStayExplained == QuerySpec => []RetriesAreExplained
<1>1. TriesInv => RetriesAreExplained
  <2> SUFFICES ASSUME TriesInv, found, NEW r \in Requests
               PROVE  request[r].tries <= switches - request[r].from + 1
    BY DEF RetriesAreExplained
  <2>1. /\ request[r] \in RequestRecords /\ switches \in Nat
        /\ request[r].tries \in Nat /\ request[r].from \in Nat
    BY DEF TriesInv, QueryTyped, RequestRecords
  <2>2. CASE request[r].at = "over"
    BY <2>1, <2>2 DEF TriesInv, OverIsFresh, NoRequest
  <2>3. CASE request[r].at # "over"
    <3>1. Stale(r) \in {0, 1} /\ Mistaken \in 0..2
      BY DEF Stale, Mistaken, One
    <3>2. QED
      BY <2>1, <2>3, <3>1 DEF TriesInv, TriesPaid
  <2>4. QED
    BY <2>2, <2>3
<1>2. QED
  BY <1>1, TriesInvariant, PTL

-----------------------------------------------------------------------------
(* Queries: connections. *)

Fields == [open : BOOLEAN, p : Protocols, claimed : BOOLEAN, timer : BOOLEAN,
           by : Protocols \cup {"dialer", "nobody", "lost"}]

ConnTyped == conn \in [Conns -> Fields] /\ pending \in [Protocols -> Conns \cup {NoConn}]

\* What is true of each connection alone.
Sound(k) ==
  /\ k.by # "nobody" => k.open /\ k.claimed
  /\ k.by \in Protocols => k.by = k.p
  /\ k.open /\ k.by = "nobody" => k.timer /\ ~k.claimed
  /\ ~k.claimed => k.open /\ k.by = "nobody"
  /\ k.by = "dialer" => ~k.timer

AllSound == \A c \in Conns : Sound(conn[c])

ParkedFits ==
  \A p \in Protocols :
    pending[p] # NoConn /\ ~conn[pending[p]].claimed => conn[pending[p]].p = p

\* What a dialing request holds is what the last handshake was about.
InHand ==
  \A c \in Conns : conn[c].by = "dialer" =>
    /\ Recording
    /\ conn[c].p = last.p
    /\ \A p \in Protocols : pending[p] # c
    /\ \A d \in Conns : conn[d].by = "dialer" => d = c

ConnInv == ConnTyped /\ AllSound /\ ParkedFits /\ InHand

LEMMA ConnInvInit == QueryInit => ConnInv
BY DEF QueryInit, ConnInv, ConnTyped, AllSound, ParkedFits, InHand, Sound, Fields, Closed,
       Protocols

\* A connection that changes and is claimed afterwards, or fits where it is parked.
LEMMA ConnMoves ==
  ASSUME ConnInv, NEW c \in Conns, NEW k \in Fields, Sound(k),
         conn' = [conn EXCEPT ![c] = k],
         pending' \in [Protocols -> Conns \cup {NoConn}],
         \A p \in Protocols : pending'[p] \in {pending[p], NoConn, c},
         k.claimed \/ \A p \in Protocols : pending'[p] = c => p = k.p
  PROVE  ConnTyped' /\ AllSound' /\ ParkedFits'
<1>1. /\ conn' \in [Conns -> Fields] /\ conn'[c] = k
      /\ \A d \in Conns \ {c} : conn'[d] = conn[d]
  BY DEF ConnInv, ConnTyped
<1>2. ConnTyped'
  BY <1>1 DEF ConnTyped
<1>3. AllSound'
  BY <1>1 DEF ConnInv, AllSound
<1>4. ParkedFits'
  <2> SUFFICES ASSUME NEW p \in Protocols, pending'[p] # NoConn, ~conn'[pending'[p]].claimed
               PROVE  conn'[pending'[p]].p = p
    BY DEF ParkedFits
  <2>1. CASE pending'[p] = c
    BY <1>1, <2>1
  <2>2. CASE pending'[p] # c
    <3>1. pending'[p] = pending[p] /\ pending[p] \in Conns \ {c}
      BY <2>2 DEF ConnInv, ConnTyped
    <3>2. QED
      BY <1>1, <3>1 DEF ConnInv, ParkedFits
  <2>3. QED
    BY <2>1, <2>2
<1>5. QED
  BY <1>2, <1>3, <1>4

\* What is in hand stays there: no connection comes into hand, no handshake is recorded.
LEMMA HandStays ==
  ASSUME ConnInv, UNCHANGED last,
         \A c \in Conns : conn'[c].by = "dialer" => conn'[c] = conn[c],
         pending \in [Protocols -> Conns \cup {NoConn}],
         \A p \in Protocols : pending'[p] \in {pending[p], NoConn},
         Recording => Recording'
  PROVE  InHand'
BY ConnsAssumption DEF ConnInv, InHand

\* The hand is emptied.
LEMMA HandEmpties ==
  ASSUME ConnInv, NEW c \in Conns, conn[c].by = "dialer", NEW k \in Fields,
         k.by # "dialer", conn' = [conn EXCEPT ![c] = k]
  PROVE  InHand'
BY DEF ConnInv, ConnTyped, InHand

\* Nothing but what is parked changes, and that only goes.
LEMMA ParkedGoes ==
  ASSUME ConnInv, UNCHANGED <<conn, last>>, pending' \in [Protocols -> Conns \cup {NoConn}],
         \A p \in Protocols : pending'[p] \in {pending[p], NoConn},
         Recording => Recording'
  PROVE  ConnInv'
<1>1. InHand'
  BY HandStays DEF ConnInv, ConnTyped
<1>2. QED
  BY <1>1 DEF ConnInv, ConnTyped, AllSound, ParkedFits

\* What NewConn opens.
LEMMA NewConnKeeps ==
  ASSUME ConnInv, server \in Protocols, NEW c \in Conns, NEW by \in {"dialer", "lost"},
         NewConn(c, by), UNCHANGED pending
  PROVE  /\ ConnTyped' /\ AllSound' /\ ParkedFits'
         /\ conn'[c].by = by /\ conn'[c].p = server
         /\ \A d \in Conns \ {c} : conn'[d] = conn[d]
<1> DEFINE k == [open |-> TRUE, p |-> server, claimed |-> TRUE, timer |-> FALSE, by |-> by]
<1>1. k \in Fields /\ k.p = server /\ k.open /\ k.claimed /\ k.by = by
  BY DEF Fields
<1>2. Sound(k)
  BY <1>1 DEF Sound, Protocols
<1>3. conn' = [conn EXCEPT ![c] = k]
  BY DEF NewConn
<1>4. pending' \in [Protocols -> Conns \cup {NoConn}] /\ conn \in [Conns -> Fields]
  BY DEF ConnInv, ConnTyped
<1> HIDE DEF k
<1>5. ConnTyped' /\ AllSound' /\ ParkedFits'
  BY <1>1, <1>2, <1>3, <1>4, ConnMoves
<1>6. QED
  BY <1>1, <1>3, <1>4, <1>5

\* A request that is not recording and does not come to be changes nothing for others.
LEMMA RecordingStays ==
  ASSUME TriesInv, NEW r \in Requests, NEW rec, request[r].at # "shaken",
         request' = [request EXCEPT ![r] = rec]
  PROVE  Recording => Recording'
BY DEF Recording, TriesInv, QueryTyped

LEMMA StepKeepsConns ==
  ASSUME TriesInv, ConnInv, NEW r \in Requests, RequestStep(r)
  PROVE  ConnInv'
<1>0. /\ request[r].p \in Protocols /\ server \in Protocols /\ last.p \in Protocols
      /\ conn \in [Conns -> Fields] /\ pending \in [Protocols -> Conns \cup {NoConn}]
      /\ request \in [Requests -> RequestRecords]
  BY DEF TriesInv, QueryTyped, RequestRecords, ConnInv, ConnTyped
<1>1. CASE BeginRequest(r) \/ PickTransport(r) \/ TooMany(r) \/ Reuse(r) \/ WrongTransport(r)
             \/ DialFails(r)
  <2>1. UNCHANGED <<last, pending, conn>> /\ request[r].at # "shaken"
    BY <1>1 DEF BeginRequest, PickTransport, TooMany, Reuse, WrongTransport, DialFails
  <2>2. \E rec : request' = [request EXCEPT ![r] = rec]
    BY <1>1 DEF BeginRequest, PickTransport, TooMany, Reuse, WrongTransport, DialFails, TryAgain
  <2>3. Recording => Recording'
    BY <2>1, <2>2, RecordingStays
  <2>4. QED
    BY <1>0, <2>1, <2>3, ParkedGoes
<1>2. CASE Claim(r)
  <2> DEFINE c == pending[request[r].p]
             k == [conn[c] EXCEPT !.claimed = TRUE, !.by = request[r].p]
  <2>1. /\ c \in Conns /\ ~conn[c].claimed /\ conn[c].p = request[r].p
        /\ conn[c].open /\ conn[c] \in Fields
    BY <1>0, <1>2 DEF Claim, ConnInv, ParkedFits, AllSound, Sound
  <2>2. /\ k \in Fields /\ k.claimed /\ k.by = request[r].p /\ k.p = request[r].p
        /\ k.open
    BY <1>0, <2>1 DEF Fields
  <2>3. Sound(k) /\ k.by # "dialer"
    BY <1>0, <2>2 DEF Sound, Protocols
  <2>4. conn' = [conn EXCEPT ![c] = k] /\ pending' = [pending EXCEPT ![request[r].p] = NoConn]
    BY <1>0, <1>2 DEF Claim
  <2>5. /\ pending' \in [Protocols -> Conns \cup {NoConn}]
        /\ \A p \in Protocols : pending'[p] \in {pending[p], NoConn}
    BY <1>0, <2>4
  <2> HIDE DEF c, k
  <2>6. ConnTyped' /\ AllSound' /\ ParkedFits'
    BY <2>1, <2>2, <2>3, <2>4, <2>5, ConnMoves
  <2>7. Recording => Recording'
    <3>1. request[r].at # "shaken" /\ request' = [request EXCEPT ![r] = NoRequest]
      BY <1>2 DEF Claim
    <3>2. QED
      BY <3>1, RecordingStays
  <2>8. InHand'
    <3>1. UNCHANGED last
      BY <1>2 DEF Claim
    <3>2. \A d \in Conns : conn'[d].by = "dialer" => conn'[d] = conn[d]
      BY <1>0, <2>1, <2>3, <2>4
    <3>3. QED
      BY <1>0, <2>5, <2>7, <3>1, <3>2, HandStays
  <2>9. QED
    BY <2>6, <2>8 DEF ConnInv
<1>3. CASE Dial(r)
  <2>1. /\ request[r].at # "shaken" /\ request' = [request EXCEPT ![r] = [@ EXCEPT !.at = "dial"]]
        /\ UNCHANGED <<last, conn>> /\ pending' = [pending EXCEPT ![request[r].p] = NoConn]
    BY <1>3 DEF Dial
  <2>2. Recording => Recording'
    BY <2>1, RecordingStays
  <2>3. /\ pending' \in [Protocols -> Conns \cup {NoConn}]
        /\ \A p \in Protocols : pending'[p] \in {pending[p], NoConn}
    BY <1>0, <2>1
  <2>4. QED
    BY <2>1, <2>2, <2>3, ParkedGoes
<1>4. CASE HandshakeFails(r)
  <2>1. PICK c \in Conns : NewConn(c, "lost")
    BY <1>4 DEF HandshakeFails
  <2>2. /\ UNCHANGED <<last, pending>> /\ request[r].at # "shaken"
        /\ request' = [request EXCEPT ![r] = NoRequest]
    BY <1>4 DEF HandshakeFails
  <2>3. /\ ConnTyped' /\ AllSound' /\ ParkedFits'
        /\ conn'[c].by = "lost" /\ \A d \in Conns \ {c} : conn'[d] = conn[d]
    BY <1>0, <2>1, <2>2, NewConnKeeps
  <2>4. InHand'
    <3>1. Recording => Recording'
      BY <2>2, RecordingStays
    <3>2. \A d \in Conns : conn'[d].by = "dialer" => conn'[d] = conn[d]
      BY <2>3
    <3>3. QED
      BY <1>0, <2>2, <3>1, <3>2, HandStays
  <2>5. QED
    BY <2>3, <2>4 DEF ConnInv
<1>5. CASE Handshake(r)
  <2>1. PICK c \in Conns : NewConn(c, "dialer")
    BY <1>5 DEF Handshake
  <2>2. UNCHANGED pending /\ last'.p = server
    BY <1>5 DEF Handshake
  <2>3. /\ ConnTyped' /\ AllSound' /\ ParkedFits'
        /\ conn'[c].by = "dialer" /\ conn'[c].p = server
        /\ \A d \in Conns \ {c} : conn'[d] = conn[d]
    BY <1>0, <2>1, <2>2, NewConnKeeps
  <2>4. ~Recording /\ Recording'
    BY <1>0, <1>5 DEF Handshake, Recording, TriesInv, Locked
  <2>5. \A d \in Conns : conn[d].by # "dialer"
    BY <2>4 DEF ConnInv, InHand
  <2>6. InHand'
    BY <1>0, <2>1, <2>2, <2>3, <2>4, <2>5 DEF InHand, NewConn
  <2>7. QED
    BY <2>3, <2>6 DEF ConnInv
<1>6. CASE DialMatches(r)
  <2>1. PICK c \in Conns : conn[c].by = "dialer" /\ conn' = [conn EXCEPT ![c].by = last.p]
    BY <1>6 DEF DialMatches
  <2> DEFINE k == [conn[c] EXCEPT !.by = last.p]
  <2>2. k \in Fields /\ k.by = last.p /\ k.p = conn[c].p /\ k.claimed = conn[c].claimed
        /\ k.open = conn[c].open
    BY <1>0 DEF Fields
  <2>3. conn[c].p = last.p /\ conn[c].claimed = TRUE /\ conn[c].open = TRUE
    BY <1>0, <2>1 DEF ConnInv, InHand, AllSound, Sound, Fields
  <2>4. Sound(k) /\ k.by # "dialer"
    BY <1>0, <2>2, <2>3 DEF Sound, Protocols
  <2>5. conn' = [conn EXCEPT ![c] = k] /\ UNCHANGED pending
    BY <1>6, <2>1 DEF DialMatches
  <2> HIDE DEF k
  <2>6. ConnTyped' /\ AllSound' /\ ParkedFits'
    BY <1>0, <2>2, <2>3, <2>4, <2>5, ConnMoves
  <2>7. InHand'
    BY <2>1, <2>2, <2>4, <2>5, HandEmpties
  <2>8. QED
    BY <2>6, <2>7 DEF ConnInv
<1>7. CASE DialDiffers(r)
  <2>1. PICK c \in Conns : Park(c)
    BY <1>7 DEF DialDiffers
  <2> DEFINE k == [conn[c] EXCEPT !.by = "nobody", !.claimed = FALSE, !.timer = TRUE]
  <2>2. /\ conn[c].by = "dialer" /\ conn' = [conn EXCEPT ![c] = k]
        /\ pending' = [pending EXCEPT ![last.p] = c]
    BY <2>1 DEF Park
  <2>3. /\ k \in Fields /\ k.by = "nobody" /\ k.p = conn[c].p /\ k.claimed = FALSE
        /\ k.timer = TRUE /\ k.open = conn[c].open
    BY <1>0 DEF Fields
  <2>4. conn[c].p = last.p /\ conn[c].open = TRUE /\ conn[c].claimed = TRUE
    BY <1>0, <2>2 DEF ConnInv, InHand, AllSound, Sound, Fields
  <2>5. Sound(k) /\ k.by # "dialer"
    BY <2>3, <2>4 DEF Sound, Protocols
  <2> HIDE DEF k
  <2>6. /\ pending' \in [Protocols -> Conns \cup {NoConn}] /\ pending'[last.p] = c
        /\ \A p \in Protocols : pending'[p] \in {pending[p], NoConn, c}
    BY <1>0, <2>2
  <2>7. CASE \A p \in Protocols : pending'[p] = c => p = k.p
    BY <2>2, <2>3, <2>5, <2>6, <2>7, ConnMoves, HandEmpties DEF ConnInv
  <2>8. \A p \in Protocols : pending'[p] = c => p = k.p
    BY <1>0, <2>2, <2>3, <2>4, <2>6 DEF ConnInv, InHand
  <2>9. QED
    BY <2>7, <2>8
<1>8. QED
  BY <1>1, <1>2, <1>3, <1>4, <1>5, <1>6, <1>7 DEF RequestStep

LEMMA TimersKeepConns ==
  ASSUME ConnInv, NEW c \in Conns, Tick(c) \/ Drop(c) \/ Collect(c)
  PROVE  ConnInv'
<1>1. /\ conn[c] \in Fields /\ Sound(conn[c]) /\ conn \in [Conns -> Fields]
      /\ UNCHANGED <<last, request, pending>>
      /\ pending \in [Protocols -> Conns \cup {NoConn}]
  BY DEF ConnInv, ConnTyped, AllSound, Tick, Drop, Collect
<1>2. ASSUME NEW k \in Fields, k.claimed, Sound(k), conn' = [conn EXCEPT ![c] = k],
             k.by = "dialer" => k = conn[c]
      PROVE  ConnInv'
  <2>1. ConnTyped' /\ AllSound' /\ ParkedFits'
    BY <1>1, <1>2, ConnMoves
  <2>2. InHand'
    BY <1>1, <1>2, HandStays DEF Recording
  <2>3. QED
    BY <2>1, <2>2 DEF ConnInv
<1>3. CASE Tick(c)
  <2> DEFINE k == [conn[c] EXCEPT !.timer = FALSE, !.claimed = TRUE,
                                  !.open = conn[c].open /\ conn[c].claimed]
  <2>1. k \in Fields /\ k.claimed /\ k.by = conn[c].by /\ k.p = conn[c].p
    BY <1>1 DEF Fields
  <2>2. k.open <=> conn[c].open /\ conn[c].claimed
    BY <1>1 DEF Fields
  <2>3. Sound(k)
    BY <1>1, <2>1, <2>2 DEF Sound
  <2>4. conn' = [conn EXCEPT ![c] = k]
    BY <1>1, <1>3 DEF Tick
  <2>5. conn[c].by # "dialer"
    BY <1>1, <1>3 DEF Tick, Sound
  <2> HIDE DEF k
  <2>6. QED
    BY <1>2, <2>1, <2>3, <2>4, <2>5
<1>4. CASE Drop(c) \/ Collect(c)
  <2>1. PICK k \in {[Closed EXCEPT !.timer = conn[c].timer], Closed} :
               conn' = [conn EXCEPT ![c] = k]
    BY <1>4 DEF Drop, Collect
  <2>2. k \in Fields /\ k.claimed /\ k.by = "nobody" /\ ~k.open
    <3>1. conn[c].timer \in BOOLEAN
      BY <1>1 DEF Fields
    <3>2. Closed \in Fields /\ [Closed EXCEPT !.timer = conn[c].timer] \in Fields
      BY <3>1 DEF Fields, Closed, Protocols
    <3>3. /\ Closed.claimed /\ Closed.by = "nobody" /\ ~Closed.open
          /\ \A b \in BOOLEAN : LET k0 == [Closed EXCEPT !.timer = b]
                              IN  k0.claimed /\ k0.by = "nobody" /\ ~k0.open
      BY DEF Closed
    <3>4. QED
      BY <2>1, <3>1, <3>2, <3>3
  <2>3. Sound(k)
    BY <2>2 DEF Sound, Protocols
  <2>4. QED
    BY <1>2, <2>1, <2>2, <2>3
<1>5. QED
  BY <1>3, <1>4

LEMMA ConnInvStep == TriesInv /\ ConnInv /\ [QueryNext]_queryVars => ConnInv'
<1> SUFFICES ASSUME TriesInv, ConnInv, [QueryNext]_queryVars PROVE ConnInv'
  OBVIOUS
<1>1. CASE UNCHANGED <<request, last, pending, conn>>
  BY <1>1, ParkedGoes DEF ConnInv, ConnTyped, Recording
<1>2. CASE \E r \in Requests : RequestStep(r)
  BY <1>2, StepKeepsConns
<1>3. CASE \E c \in Conns : Tick(c) \/ Drop(c) \/ Collect(c)
  BY <1>3, TimersKeepConns
<1>4. QED
  BY <1>1, <1>2, <1>3 DEF QueryNext, queryVars, Switch

LEMMA ConnInvariant == QuerySpec => []ConnInv
BY TriesInvariant, ConnInvInit, ConnInvStep, PTL DEF QuerySpec

\* Whoever dials, claims, or lets a parked connection expire: what is open is held by
\* the transport for its protocol, by the request that has still to record it, or by a
\* timer that will close it; nobody is left but the connections whose handshake failed
\* (roundtripper.go:129-143, 219-222, 244-276).
THEOREM ConnectionsStayAccounted == QuerySpec => []ConnectionsAreAccounted
<1>1. ConnInv => ConnectionsAreAccounted
  BY DEF ConnInv, AllSound, Sound, ParkedFits, InHand, ConnectionsAreAccounted
<1>2. QED
  BY <1>1, ConnInvariant, PTL

-----------------------------------------------------------------------------
(* The composition. *)

\* The switches are bounded, and the host stays what it is.
QueryBounds == switches \in 0..MaxSwitches /\ found \in BOOLEAN

LEMMA QueryBounded == QuerySpec => []QueryBounds
<1>1. QueryInit => QueryBounds
  BY SwitchesAssumption DEF QueryInit, QueryBounds
<1>2. QueryBounds /\ [QueryNext]_queryVars => QueryBounds'
  <2> SUFFICES ASSUME QueryBounds, [QueryNext]_queryVars PROVE QueryBounds'
    OBVIOUS
  <2>1. found' = found
    BY DEF QueryNext, RequestStep, BeginRequest, PickTransport, TooMany, Reuse, WrongTransport,
           Claim, Dial, DialFails, HandshakeFails, Handshake, DialMatches, DialDiffers, Tick, Drop,
           Collect, Switch, queryVars
  <2>2. switches' = switches \/ (switches < MaxSwitches /\ switches' = switches + 1)
    BY DEF QueryNext, RequestStep, BeginRequest, PickTransport, TooMany, Reuse, WrongTransport,
           Claim, Dial, DialFails, HandshakeFails, Handshake, DialMatches, DialDiffers, Tick, Drop,
           Collect, Switch, queryVars
  <2>3. QED
    BY <2>1, <2>2, SwitchesAssumption DEF QueryBounds
<1>3. QED
  BY <1>1, <1>2, PTL DEF QuerySpec

LEMMA QueryTypeCorrect == QuerySpec => []QueryTypeOK
<1>1. TriesInv /\ ConnInv /\ QueryBounds => QueryTypeOK
  <2> SUFFICES ASSUME TriesInv, ConnInv, QueryBounds PROVE QueryTypeOK
    OBVIOUS
  <2>1. \A r \in Requests : request[r] \in RequestRecords /\ request[r].from \in 0..switches
    BY DEF TriesInv, QueryTyped, RequestRecords
  <2>2. request \in [Requests -> [at : {"over", "pick", "ask", "dial", "shaken"}, p : Protocols,
                                  tries : 0..Retries, from : 0..switches]]
    BY <2>1 DEF TriesInv, QueryTyped, RequestRecords
  <2>3. last \in [p : Protocols, switches : 0..switches]
    BY DEF TriesInv, QueryTyped
  <2>4. QED
    BY <2>2, <2>3 DEF TriesInv, QueryTyped, ConnInv, ConnTyped, Fields, QueryBounds, QueryTypeOK
<1>2. QED
  BY <1>1, TriesInvariant, ConnInvariant, QueryBounded, PTL

\* Every behaviour of the composition is one of each component: what the components
\* share, the process, lets none of them do what it could not do alone
\* (main.go:492-530).
THEOREM TasksAreComponents ==
  TaskSpec => Spec /\ CommandSpec /\ StreamSpec /\ QuerySpec /\ ConfigSpec
<1>1. TaskInit => Init /\ CommandInit /\ StreamInit /\ QueryInit /\ ConfigInit
  BY DEF TaskInit
<1>2. ASSUME [TaskNext]_taskVars
      PROVE  /\ [Next]_vars
             /\ [CommandNext]_commandVars
             /\ [StreamNext]_streamVars
             /\ [QueryNext]_queryVars
             /\ [ConfigNext]_configVars
  <2>1. CASE UNCHANGED taskVars
    BY <2>1 DEF taskVars
  <2>2. CASE TaskNext
    BY <2>2 DEF TaskNext, taskVars
  <2>3. QED
    BY <1>2, <2>1, <2>2
<1>3. QED
  BY <1>1, <1>2, PTL DEF TaskSpec, Spec, CommandSpec, StreamSpec, QuerySpec, ConfigSpec

\* Every variable of every component keeps its type, and only one component is at work.
THEOREM TasksTypeCorrect == TaskSpec => []TasksTypeOK
<1>1. TaskSpec => [](task \in Components)
  <2>1. TaskInit => task \in Components
    BY DEF TaskInit
  <2>2. task \in Components /\ [TaskNext]_taskVars => (task \in Components)'
    BY DEF TaskNext, taskVars
  <2>3. QED
    BY <2>1, <2>2, PTL DEF TaskSpec
<1>2. /\ CommandInv => CommandTypeOK
      /\ StreamInv => StreamTypeOK
      /\ ConfigInv => ConfigTypeOK
  BY DEF CommandInv, StreamInv, ConfigInv
<1>3. task \in Components /\ TypeOK /\ CommandTypeOK /\ StreamTypeOK /\ QueryTypeOK /\ ConfigTypeOK
        => TasksTypeOK
  BY DEF TasksTypeOK
<1>4. QED
  BY <1>1, <1>2, <1>3, TasksAreComponents, UpdateTypeCorrect, CommandInvariant, StreamInvariant,
     QueryTypeCorrect, ConfigInvariant, PTL

\* What is proved of each component holds of the agent that has them all.
THEOREM TasksAreCorrect ==
  TaskSpec =>
    /\ []ExclusiveUpdate
    /\ []ResultIsTrue
    /\ []PoliteDashboardIsServed
    /\ []RetriesAreExplained
    /\ []ConnectionsAreAccounted
    /\ ForwardPerSource
    /\ IdentityIsStable
BY TasksAreComponents, UpdatesAreExclusive, ResultsAreTrue, PoliteDashboardsAreServed,
   RetriesStayExplained, ConnectionsStayAccounted, UpdatesGoForward, IdentitiesAreStable, PTL
=============================================================================
