------------------------------ MODULE CommandTask ------------------------------
(***************************************************************************)
(* handleCommandTask (cmd/agent/main.go) and pkg/processgroup on Unix: a   *)
(* shell command in a process group of its own, the goroutine beside it    *)
(* that waits for its end or for two hours, and Dispose, which both call.  *)
(*                                                                         *)
(* The group is led by the shell.  It is found by the process id of the    *)
(* shell, which is free for others once the shell was reaped.              *)
(*                                                                         *)
(* Wait of os/exec is external: it tests whether ProcessState is set,      *)
(* reaps the process, sets ProcessState, which is nil for who came too     *)
(* late, and receives the end of the copying of the output from a channel  *)
(* that holds one value; who received it sets the channel to nil.          *)
(***************************************************************************)

VARIABLES
  command,  \* the place of the handler
  watcher,  \* the place of the goroutine beside it
  leader,   \* the shell
  members,  \* the rest of its group: what holds its output, what does not
  failed,   \* whether the Wait of the handler has an error to return
  waited,   \* whether ProcessState is set
  copied,   \* whether the end of the copying was received
  endCh,    \* whether the channel is closed
  result,   \* what the task result says, and whether it is Successful
  sent,     \* the results that went to the dashboard
  termed,   \* whether the group was sent SIGTERM
  taken,    \* whether the process id belongs to somebody else by now
  hit       \* who sent SIGTERM to the group of somebody else

groupVars == <<leader, members, taken>>
waitVars == <<failed, waited, copied>>
commandVars == <<command, watcher, groupVars, waitVars, endCh, result, sent, termed, hit>>

Words == {"refused", "output", "error", "timeout"}
Results == [says : SUBSET Words, ok : BOOLEAN]
Silent == [says |-> {}, ok |-> FALSE]
Kept == {"piped", "silent"}

\* In Wait, who has reaped or come too late, who looks at the channel, who receives.
Waits == {"won", "lost", "drain", "receive"}
Disposing == {"kill", "await", "reap"} \cup Waits

CommandTypeOK ==
  /\ command \in {"idle", "wait", "close", "dispose", "send", "over", "panicked"} \cup Waits
  /\ watcher \in {"none", "select", "fired", "told", "over", "panicked"} \cup Disposing
  /\ leader \in {"none", "running", "zombie", "reaped"}
  /\ members \subseteq Kept
  /\ failed \in BOOLEAN
  /\ waited \in BOOLEAN
  /\ copied \in BOOLEAN
  /\ endCh \in BOOLEAN
  /\ result \in Results
  /\ sent \subseteq Results
  /\ termed \in BOOLEAN
  /\ taken \in BOOLEAN
  /\ hit \subseteq {"handler", "watcher"}

CommandInit ==
  /\ command = "idle"
  /\ watcher = "none"
  /\ leader = "none"
  /\ members = {}
  /\ failed = FALSE
  /\ waited = FALSE
  /\ copied = FALSE
  /\ endCh = FALSE
  /\ result = Silent
  /\ sent = {}
  /\ termed = FALSE
  /\ taken = FALSE
  /\ hit = {}

\* No goroutine outlives a panic that nobody recovers from.
AgentDied == watcher = "panicked"

-----------------------------------------------------------------------------
(* The handler. *)

\* Commands are disabled, or the group or the shell cannot be had.
CommandRefused ==
  /\ command = "idle"
  /\ command' = "send"
  /\ result' = [Silent EXCEPT !.says = {"refused"}]
  /\ UNCHANGED <<watcher, groupVars, waitVars, endCh, sent, termed, hit>>

StartCommand ==
  /\ command = "idle"
  /\ command' = "wait"
  /\ watcher' = "select"
  /\ leader' = "running"
  /\ members' \in SUBSET Kept
  /\ UNCHANGED <<taken, waitVars, endCh, result, sent, termed, hit>>

\* Wait, first part: the shell has ended and its process id is given back.
Reap ==
  /\ command = "wait"
  /\ leader = "zombie"
  /\ leader' = "reaped"
  /\ command' = "won"
  /\ UNCHANGED <<watcher, members, taken, waitVars, endCh, result, sent, termed, hit>>

\* The Wait of Dispose was faster.
ReapLost ==
  /\ command = "wait"
  /\ leader = "reaped"
  /\ failed' = TRUE
  /\ command' = "lost"
  /\ UNCHANGED <<watcher, groupVars, waited, copied, endCh, result, sent, termed, hit>>

KeepState ==
  /\ command \in {"won", "lost"}
  /\ waited' = (command = "won")
  /\ command' = "drain"
  /\ UNCHANGED <<watcher, groupVars, failed, copied, endCh, result, sent, termed, hit>>

\* Wait, second part: the end of the copying, which comes when nobody holds the output
\* any more, is received once.
AwaitCopy ==
  /\ command = "drain"
  /\ ~copied
  /\ command' = "receive"
  /\ UNCHANGED <<watcher, groupVars, waitVars, endCh, result, sent, termed, hit>>

CopyEnds(place) ==
  \/ place = "drain" /\ copied /\ UNCHANGED copied
  \/ /\ place = "receive"
     /\ ~copied
     /\ "piped" \notin members
     /\ copied' = TRUE

\* Mutant: the error takes the place of what the result says.
WaitFailsOverwriting ==
  /\ CopyEnds(command)
  /\ failed
  /\ result' = [result EXCEPT !.says = {"output", "error"}]
  /\ command' = "dispose"
  /\ UNCHANGED <<watcher, groupVars, failed, waited, endCh, sent, termed, hit>>

\* The error is added to what the result says.
WaitFails ==
  /\ CopyEnds(command)
  /\ failed
  /\ result' = [result EXCEPT !.says = @ \cup {"output", "error"}]
  /\ command' = "dispose"
  /\ UNCHANGED <<watcher, groupVars, failed, waited, endCh, sent, termed, hit>>

WaitSucceeds ==
  /\ CopyEnds(command)
  /\ ~failed
  /\ command' = "close"
  /\ UNCHANGED <<watcher, groupVars, failed, waited, endCh, result, sent, termed, hit>>

CloseEnd ==
  /\ command = "close"
  /\ ~endCh
  /\ endCh' = TRUE
  /\ result' = [says |-> {"output"}, ok |-> TRUE]
  /\ command' = "dispose"
  /\ UNCHANGED <<watcher, groupVars, waitVars, sent, termed, hit>>

\* The watcher has closed it: the panic ends the goroutine of the task, which
\* recovers and sends nothing.
CloseEndTwice ==
  /\ command = "close"
  /\ endCh
  /\ command' = "panicked"
  /\ UNCHANGED <<watcher, groupVars, waitVars, endCh, result, sent, termed, hit>>

\* Dispose finds no group for the process id of a shell that was reaped, or that
\* of somebody else; and its Wait nothing to wait for.
DisposeCommand ==
  /\ command = "dispose"
  /\ command' = "send"
  /\ hit' = IF taken THEN hit \cup {"handler"} ELSE hit
  /\ UNCHANGED <<watcher, groupVars, waitVars, endCh, result, sent, termed>>

SendResult ==
  /\ command = "send"
  /\ command' = "over"
  /\ sent' = sent \cup {result}
  /\ UNCHANGED <<watcher, groupVars, waitVars, endCh, result, termed, hit>>

-----------------------------------------------------------------------------
(* The goroutine beside it. *)

SeeEnd ==
  /\ watcher = "select"
  /\ endCh
  /\ watcher' = "over"
  /\ UNCHANGED <<command, groupVars, waitVars, endCh, result, sent, termed, hit>>

TwoHours ==
  /\ watcher = "select"
  /\ ~endCh
  /\ watcher' = "fired"
  /\ UNCHANGED <<command, groupVars, waitVars, endCh, result, sent, termed, hit>>

TellTimeout ==
  /\ watcher = "fired"
  /\ watcher' = "told"
  /\ result' = [result EXCEPT !.says = {"timeout"}]
  /\ UNCHANGED <<command, groupVars, waitVars, endCh, sent, termed, hit>>

CloseLate ==
  /\ watcher = "told"
  /\ endCh' = TRUE
  /\ watcher' = IF endCh THEN "panicked" ELSE "kill"
  /\ UNCHANGED <<command, groupVars, waitVars, result, sent, termed, hit>>

\* Mutant: the group is left alone.
KillNobody ==
  /\ watcher = "kill"
  /\ watcher' = "await"
  /\ UNCHANGED <<command, groupVars, waitVars, endCh, result, sent, termed, hit>>

\* Dispose finds the group as long as the shell was not reaped.
KillGroup ==
  /\ watcher = "kill"
  /\ watcher' = "await"
  /\ termed' = (leader # "reaped")
  /\ hit' = IF taken THEN hit \cup {"watcher"} ELSE hit
  /\ UNCHANGED <<command, groupVars, waitVars, endCh, result, sent>>

\* The Wait of Dispose.
AwaitGroup ==
  /\ watcher = "await"
  /\ watcher' = IF waited THEN "over" ELSE "reap"
  /\ UNCHANGED <<command, groupVars, waitVars, endCh, result, sent, termed, hit>>

ReapGroup ==
  /\ watcher = "reap"
  /\ leader \in {"zombie", "reaped"}
  /\ leader' = "reaped"
  /\ watcher' = IF leader = "zombie" THEN "won" ELSE "lost"
  /\ UNCHANGED <<command, members, taken, waitVars, endCh, result, sent, termed, hit>>

KeepGroupState ==
  /\ watcher \in {"won", "lost"}
  /\ waited' = (watcher = "won")
  /\ watcher' = "drain"
  /\ UNCHANGED <<command, groupVars, failed, copied, endCh, result, sent, termed, hit>>

AwaitGroupCopy ==
  /\ watcher = "drain"
  /\ ~copied
  /\ watcher' = "receive"
  /\ UNCHANGED <<command, groupVars, waitVars, endCh, result, sent, termed, hit>>

GroupEnds ==
  /\ CopyEnds(watcher)
  /\ watcher' = "over"
  /\ UNCHANGED <<command, groupVars, failed, waited, endCh, result, sent, termed, hit>>

-----------------------------------------------------------------------------
(* Processes. *)

\* By itself or on SIGTERM, with status 0 or not.
ShellEnds ==
  /\ leader = "running"
  /\ leader' = "zombie"
  /\ failed' \in BOOLEAN
  /\ UNCHANGED <<command, watcher, members, taken, waited, copied, endCh, result, sent,
                 termed, hit>>

MemberEnds ==
  /\ \E m \in members : members' = members \ {m}
  /\ UNCHANGED <<command, watcher, leader, taken, waitVars, endCh, result, sent, termed, hit>>

ProcessIdTaken ==
  /\ leader = "reaped"
  /\ ~taken
  /\ taken' = TRUE
  /\ UNCHANGED <<command, watcher, leader, members, waitVars, endCh, result, sent, termed, hit>>

HandlerStep ==
  \/ Reap \/ ReapLost \/ KeepState \/ AwaitCopy \/ WaitFails \/ WaitSucceeds
  \/ CloseEnd \/ CloseEndTwice \/ DisposeCommand \/ SendResult

WatcherStep ==
  \/ SeeEnd \/ TwoHours \/ TellTimeout \/ CloseLate
  \/ KillGroup \/ AwaitGroup \/ ReapGroup \/ KeepGroupState \/ AwaitGroupCopy \/ GroupEnds

CommandNext ==
  /\ ~AgentDied
  /\ \/ CommandRefused \/ StartCommand
     \/ HandlerStep \/ WatcherStep
     \/ ShellEnds \/ MemberEnds \/ ProcessIdTaken

\* What keeps the goroutines for ever: a shell that does not heed SIGTERM, a process
\* that holds the output, whether it does not heed it either or was not found any more,
\* and the one value in the channel, if the other has received it.
ShellStays == termed /\ leader = "running"
OutputStays == leader = "reaped" /\ "piped" \in members /\ ~copied
CopyIsGone == copied /\ "receive" \in {command, watcher}

BothOver == command \in {"over", "panicked"} /\ watcher \in {"none", "over"}

\* What is left of the group is nobody's.
CommandOver ==
  /\ AgentDied \/ BothOver \/ CopyIsGone
  /\ UNCHANGED commandVars

CommandSpec == CommandInit /\ [][CommandNext]_commandVars

\* Goroutines go on and two hours pass; of the processes nothing is known.
CommandFairness ==
  /\ WF_commandVars(~AgentDied /\ HandlerStep)
  /\ WF_commandVars(~AgentDied /\ WatcherStep)

-----------------------------------------------------------------------------
(* Properties. *)

\* The result of a command whose group was stopped says so, and after the result
\* of a command that succeeded the goroutine beside it signals nobody
\* (main.go:889-906).
ResultIsTrue ==
  \A r \in sent :
    /\ termed => "timeout" \in r.says /\ ~r.ok
    /\ r.ok => watcher \notin Disposing /\ "watcher" \notin hit

\* Two hours later at most the handler and the goroutine beside it are over, or one of
\* three things keeps them: the shell was sent SIGTERM and runs on; it has ended, and a
\* process holds its output; both have waited for the copying, and only one was told
\* (main.go:886-907, process_group.go:46-55).
CommandEnds ==
  CommandFairness =>
    (watcher = "select" ~>
       [](AgentDied \/ BothOver \/ ShellStays \/ OutputStays \/ CopyIsGone))
=============================================================================
