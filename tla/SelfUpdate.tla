------------------------------ MODULE SelfUpdate ------------------------------
(***************************************************************************)
(* doSelfUpdate (cmd/agent/main.go) in several goroutines of several       *)
(* processes that run the same executable: the periodic check of each      *)
(* process and Upgrade tasks.  They exclude each other by a stat file that *)
(* is created with O_EXCL.  Who finds it waits until it is removed         *)
(* (fsnotifyx.ExitOnDeleteFile) and then ends its process, or removes it   *)
(* after three minutes.                                                    *)
(*                                                                         *)
(* A process that ends takes its goroutines with it wherever they are, and *)
(* so leaves the file behind.  Processes are started again by a service    *)
(* manager.                                                                *)
(*                                                                         *)
(* Releases come from repositories that know nothing of each other; the    *)
(* configuration, the country and chance say which of them is asked.       *)
(***************************************************************************)
EXTENDS Naturals

CONSTANTS
  Processes,
  Updaters,   \* goroutines that call doSelfUpdate
  Forced,     \* those that do so for an Upgrade task
  Of,         \* the process of each
  Sources,    \* the repositories that are asked
  Nowhere,
  First,      \* the release each of them has at the beginning
  Newest,     \* how many versions are released
  MaxFaults,  \* how often something fails or a process ends for other reasons
  Nobody

ASSUME BoundsAssumption == Newest \in Nat \ {0} /\ MaxFaults \in Nat

ASSUME SourcesAssumption == First \in [Sources -> 1..Newest]

ASSUME UpdatersAssumption ==
  /\ Forced \subseteq Updaters
  /\ Of \in [Updaters -> Processes]
  /\ Nobody \notin Updaters

VARIABLES
  release,  \* of each source, the last version that is released
  exe,      \* the version of the executable file
  origin,   \* the source it came from
  running,  \* the version each process was started with
  stat,     \* the stat file: Nobody, or who created it
  up,       \* of each updater: its place, the version it has (v), the one it
            \* downloads (got) and from where (src), whether it is going to end the
            \* process (exit)
  stolen,   \* whether, since nobody was at work, the stat file of an updater at work
            \* was removed by another
  faults

fileVars == <<exe, origin, stat>>
diskVars == <<fileVars, stolen>>
vars == <<release, diskVars, running, up, faults>>

\* The version of no executable: 0.1.0, and that of a process that is down.
NoVersion == 0
Versions == 1..Newest

Places == {"idle", "checked", "found", "watch", "woken", "late", "absent", "update",
           "fetch", "leave", "exit"}

TypeOK ==
  /\ release \in [Sources -> Versions]
  /\ exe \in Versions
  /\ origin \in Sources \cup {Nowhere}
  /\ running \in [Processes -> Versions \cup {NoVersion}]
  /\ stat \in Updaters \cup {Nobody}
  /\ up \in [Updaters -> [at : Places, v : Versions \cup {NoVersion},
                          got : Versions \cup {NoVersion}, src : Sources \cup {Nowhere},
                          exit : BOOLEAN]]
  /\ stolen \in BOOLEAN
  /\ faults \in 0..MaxFaults

Goroutine(place) ==
  [at |-> place, v |-> NoVersion, got |-> NoVersion, src |-> Nowhere, exit |-> FALSE]
Idle == Goroutine("idle")

\* Between the creation of its stat file and the removal.
AtWork(u) == up[u].at \in {"update", "fetch", "leave"}

Init ==
  /\ release = First
  /\ exe = 1
  /\ origin = Nowhere
  /\ running = [p \in Processes |-> 1]
  /\ stat = Nobody
  /\ up = [u \in Updaters |-> Idle]
  /\ stolen = FALSE
  /\ faults = 0

Alone == UNCHANGED <<release, running, faults>>

\* A theft is remembered as long as anybody is at work.
Remember(theft) == stolen' = (theft /\ \E w \in Updaters : AtWork(w)')

Goto(u, from, to) ==
  /\ up[u].at = from
  /\ up' = [up EXCEPT ![u] = Goroutine(to)]

-----------------------------------------------------------------------------
(* doSelfUpdate up to the stat file. *)

\* The periodic check asks the executable for its version, which may differ from
\* the one of the process.
Check(u) ==
  /\ u \notin Forced
  /\ running[Of[u]] # NoVersion
  /\ up[u].at = "idle"
  /\ up' = [up EXCEPT ![u] = IF running[Of[u]] = exe
                             THEN [Goroutine("checked") EXCEPT !.v = exe]
                             ELSE Goroutine("exit")]
  /\ UNCHANGED diskVars
  /\ Alone

\* handleUpgradeTask: any release is an update.
Upgrade(u) ==
  /\ u \in Forced
  /\ running[Of[u]] # NoVersion
  /\ Goto(u, "idle", "checked")
  /\ UNCHANGED diskVars
  /\ Alone

LookForStat(u) ==
  /\ up[u].at = "checked"
  /\ up' = [up EXCEPT ![u] = IF stat = Nobody
                             THEN [@ EXCEPT !.at = "absent"]
                             ELSE Goroutine("found")]
  /\ UNCHANGED diskVars
  /\ Alone

\* Mutant: the file is opened even if it exists by now.
CreateAnyway(u) ==
  /\ up[u].at = "absent"
  /\ up' = [up EXCEPT ![u].at = "update"]
  /\ stat' = u
  /\ UNCHANGED <<exe, origin, stolen>>
  /\ Alone

Create(u) ==
  /\ up[u].at = "absent"
  /\ stat = Nobody
  /\ up' = [up EXCEPT ![u].at = "update"]
  /\ stat' = u
  /\ UNCHANGED <<exe, origin, stolen>>
  /\ Alone

\* The file exists by now.
CreateFails(u) ==
  /\ stat # Nobody
  /\ Goto(u, "absent", "idle")
  /\ UNCHANGED diskVars
  /\ Alone

-----------------------------------------------------------------------------
(* ExitOnDeleteFile. *)

\* The watcher hears of removals from now on.
Watch(u) ==
  /\ Goto(u, "found", "watch")
  /\ UNCHANGED diskVars
  /\ Alone

RemovalSeen(u) ==
  /\ Goto(u, "woken", "exit")
  /\ UNCHANGED diskVars
  /\ Alone

WatchTimesOut(u) ==
  /\ Goto(u, "watch", "late") \/ Goto(u, "woken", "late")
  /\ UNCHANGED diskVars
  /\ Alone

\* u removes the file, which is known by its name only, and goes on at place.
RemoveStat(u, place) ==
  /\ up' = [w \in Updaters |->
              CASE w = u -> Goroutine(place)
                [] w # u /\ stat # Nobody /\ up[w].at = "watch" -> Goroutine("woken")
                [] OTHER -> up[w]]
  /\ stat' = Nobody
  /\ Remember(stolen \/ (stat \notin {u, Nobody} /\ AtWork(stat)))
  /\ UNCHANGED <<exe, origin>>
  /\ Alone

\* Mutant: the file is left in place.
RemoveLateNot(u) ==
  /\ Goto(u, "late", "idle")
  /\ UNCHANGED diskVars
  /\ Alone

\* Whoever may have created it.
RemoveLate(u) ==
  /\ up[u].at = "late"
  /\ RemoveStat(u, "idle")

-----------------------------------------------------------------------------
(* UpdateSelf and the end of doSelfUpdate. *)

\* The last release of some source; there is nothing to do if it is the version at hand.
LastRelease(u) ==
  /\ up[u].at = "update"
  /\ \E s \in Sources :
       up' = [up EXCEPT ![u] = IF up[u].v = release[s]
                               THEN Goroutine("leave")
                               ELSE [@ EXCEPT !.at = "fetch", !.got = release[s], !.src = s]]

\* Mutant: the file is removed when a release was found.
DetectReleasing(u) ==
  /\ LastRelease(u)
  /\ stat' = Nobody
  /\ UNCHANGED <<exe, origin, stolen>>
  /\ Alone

Detect(u) ==
  /\ LastRelease(u)
  /\ UNCHANGED diskVars
  /\ Alone

\* It is downloaded and takes the place of the executable, be it older or newer.
Install(u) ==
  /\ up[u].at = "fetch"
  /\ exe' = up[u].got
  /\ origin' = up[u].src
  /\ up' = [up EXCEPT ![u] = [Goroutine("leave") EXCEPT !.exit = TRUE]]
  /\ UNCHANGED <<stat, stolen>>
  /\ Alone

\* The deferred removal.
Leave(u) ==
  /\ up[u].at = "leave"
  /\ RemoveStat(u, IF up[u].exit THEN "exit" ELSE "idle")

Fault ==
  /\ faults < MaxFaults
  /\ faults' = faults + 1

\* A directory, file or watcher cannot be had, or the file cannot be removed.
FileFails(u) ==
  /\ \/ \E place \in {"checked", "found", "absent", "late"} : Goto(u, place, "idle")
     \/ Goto(u, "leave", IF up[u].exit THEN "exit" ELSE "idle")
  /\ Remember(stolen)
  /\ Fault
  /\ UNCHANGED <<release, fileVars, running>>

UpdateFails(u) ==
  /\ Goto(u, "update", "leave") \/ Goto(u, "fetch", "leave")
  /\ Fault
  /\ UNCHANGED <<release, diskVars, running>>

-----------------------------------------------------------------------------
(* Processes and releases. *)

Down(p) ==
  /\ running' = [running EXCEPT ![p] = NoVersion]
  /\ up' = [u \in Updaters |-> IF Of[u] = p THEN Idle ELSE up[u]]
  /\ Remember(stolen)
  /\ UNCHANGED <<release, fileVars>>

\* os.Exit.
Exit(u) ==
  /\ up[u].at = "exit"
  /\ Down(Of[u])
  /\ UNCHANGED faults

Crash(p) ==
  /\ running[p] # NoVersion
  /\ Fault
  /\ Down(p)

Start(p) ==
  /\ running[p] = NoVersion
  /\ running' = [running EXCEPT ![p] = exe]
  /\ UNCHANGED <<release, diskVars, up, faults>>

Release(s) ==
  /\ release[s] < Newest
  /\ release' = [release EXCEPT ![s] = @ + 1]
  /\ UNCHANGED <<diskVars, running, up, faults>>

\* What goes on by itself once it was begun.
Progress(u) ==
  \/ LookForStat(u)
  \/ Create(u)
  \/ CreateFails(u)
  \/ Watch(u)
  \/ RemovalSeen(u)
  \/ WatchTimesOut(u)
  \/ RemoveLate(u)
  \/ Detect(u)
  \/ Install(u)
  \/ Leave(u)
  \/ Exit(u)

Failure(u) == FileFails(u) \/ UpdateFails(u)

Next ==
  \/ \E u \in Updaters : Check(u) \/ Upgrade(u) \/ Progress(u) \/ Failure(u)
  \/ \E p \in Processes : Crash(p) \/ Start(p)
  \/ \E s \in Sources : Release(s)

Spec == Init /\ [][Next]_vars

\* Every call ends, processes are started again, and the check is periodic.
UpdateFairness ==
  /\ \A u \in Updaters : WF_vars(Progress(u))
  /\ \A p \in Processes : WF_vars(Start(p))
  /\ \A u \in Updaters \ Forced : WF_vars(Check(u))

-----------------------------------------------------------------------------
(* Properties. *)

\* Updaters of whatever processes exclude each other, unless one was given up by
\* another while it was at work (main.go:668-697).
ExclusiveUpdate ==
  ~stolen => \A u, w \in Updaters : AtWork(u) /\ AtWork(w) => u = w

\* The executable is not replaced by an older release of the source it came from, unless
\* an updater was given up by another while it was at work; an older release of another
\* source may well replace it (main.go:668-759).
ForwardPerSource == [][exe' < exe /\ origin' = origin => stolen]_vars

\* Some request for the last release gets through if they are made again and again,
\* and so do downloads.
DownloadFairness ==
  /\ SF_vars(\E u \in Updaters : Detect(u))
  /\ SF_vars(\E u \in Updaters : Install(u))

\* Once all sources that are asked come to offer the same last release, all processes
\* come to run it and stay with it, in spite of files that were left behind, removals
\* that were not seen and processes that end each other.  While sources differ nothing
\* of the kind holds: whoever is asked next replaces the executable (main.go:668-697,
\* 699-759, fsnotifyx.go:50-57).
UpdatesArrive ==
  UpdateFairness /\ DownloadFairness /\ <>(\A s \in Sources : release[s] = Newest)
    => <>[](exe = Newest /\ \A p \in Processes : running[p] \in {Newest, NoVersion})
=============================================================================
