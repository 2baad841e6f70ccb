--------------------------- MODULE SelfUpdateProofs ---------------------------
(* Proofs about SelfUpdate for any processes, updaters, releases and faults.  *)
EXTENDS SelfUpdate, TLAPS

-----------------------------------------------------------------------------
(* The inductive invariant. *)

Records == [at : Places, v : Versions \cup {NoVersion}, got : Versions \cup {NoVersion},
            src : Sources \cup {Nowhere}, exit : BOOLEAN]

\* What came from a source or is on its way was released there.
Released ==
  /\ origin \in Sources => exe <= release[origin]
  /\ \A u \in Updaters : up[u].at = "fetch" =>
       /\ up[u].got \in Versions
       /\ up[u].src \in Sources
       /\ up[u].got <= release[up[u].src]

\* Unless a file was stolen, who is at work has it, and what it downloads is not older
\* than the executable, if that is from the same source.
Owned == ~stolen => \A u \in Updaters : AtWork(u) => stat = u
Fresh ==
  ~stolen => \A u \in Updaters :
               up[u].at = "fetch" /\ up[u].src = origin => exe <= up[u].got

UpdateInv ==
  /\ TypeOK
  /\ Released
  /\ Owned
  /\ Fresh

-----------------------------------------------------------------------------

LEMMA GoroutineTyped ==
  ASSUME NEW place \in Places
  PROVE  /\ Goroutine(place) \in Records
         /\ Goroutine(place).at = place
BY DEF Goroutine, Records

LEMMA VersionsTyped ==
  /\ Newest \in Nat /\ 1 \in Versions /\ NoVersion \notin Versions
  /\ \A v \in Versions : v \in Nat
BY BoundsAssumption DEF Versions, NoVersion

LEMMA ReleasesTyped ==
  ASSUME TypeOK
  PROVE  \A s \in Sources : release[s] \in Versions /\ release[s] \in Nat
BY VersionsTyped DEF TypeOK

LEMMA UpdateInvInit == Init => UpdateInv
<1> SUFFICES ASSUME Init PROVE UpdateInv
  OBVIOUS
<1>1. Idle \in Records /\ Idle.at = "idle"
  BY GoroutineTyped DEF Idle, Places
<1>2. TypeOK
  <2>1. stolen \in BOOLEAN
    BY DEF Init
  <2>2. release \in [Sources -> Versions]
    BY SourcesAssumption DEF Init, Versions
  <2>3. QED
    BY <1>1, <2>1, <2>2, VersionsTyped, BoundsAssumption DEF Init, TypeOK, Records
<1>3. Released /\ Owned /\ Fresh
  BY <1>1, SourcesAssumption DEF Init, Released, Owned, Fresh, AtWork, Versions
<1>4. QED
  BY <1>2, <1>3 DEF UpdateInv

\* An updater that moves to a place where it neither works nor stops to, and leaves the
\* disk alone, keeps the invariant.
LEMMA MoveKeepsInv ==
  ASSUME UpdateInv, NEW u \in Updaters, NEW r \in Records,
         up' = [up EXCEPT ![u] = r],
         r.at \in {"update", "fetch", "leave"} => AtWork(u),
         r.at = "fetch" => r.src \in Sources /\ r.got = release[r.src],
         UNCHANGED <<release, running, fileVars>>, stolen' = stolen \/ Remember(stolen),
         faults' \in 0..MaxFaults
  PROVE  UpdateInv'
<1>1. up \in [Updaters -> Records]
  BY DEF UpdateInv, TypeOK, Records
<1>2. up' \in [Updaters -> Records] /\ up'[u] = r /\ \A w \in Updaters \ {u} : up'[w] = up[w]
  BY <1>1
<1>3. TypeOK'
  <2>1. stolen' \in BOOLEAN
    BY DEF UpdateInv, TypeOK, Remember
  <2>2. QED
    BY <1>2, <2>1 DEF UpdateInv, TypeOK, Records, fileVars
<1>4. \A s \in Sources : release[s] \in Versions /\ release[s] \in Nat
  BY ReleasesTyped DEF UpdateInv
<1>5. exe \in Nat /\ (origin \in Sources => exe <= release[origin])
  BY VersionsTyped DEF UpdateInv, TypeOK, Released
<1>6. Released'
  BY <1>2, <1>4, <1>5 DEF UpdateInv, Released, fileVars
<1>7. ~stolen' => ~stolen \/ \A w \in Updaters : ~AtWork(w)'
  BY DEF Remember
<1>8. Owned'
  BY <1>2, <1>7 DEF UpdateInv, Owned, AtWork, fileVars
<1>9. Fresh'
  BY <1>2, <1>4, <1>5, <1>7 DEF UpdateInv, Fresh, AtWork, fileVars
<1>10. QED
  BY <1>3, <1>6, <1>8, <1>9 DEF UpdateInv

\* The removal of the stat file, by whomever.
LEMMA RemoveKeepsInv ==
  ASSUME UpdateInv, NEW u \in Updaters, NEW place \in {"idle", "exit"},
         AtWork(u) \/ up[u].at = "late", RemoveStat(u, place)
  PROVE  UpdateInv'
<1> DEFINE after(w) == CASE w = u -> Goroutine(place)
                         [] w # u /\ stat # Nobody /\ up[w].at = "watch" -> Goroutine("woken")
                         [] OTHER -> up[w]
<1>0. /\ up \in [Updaters -> Records] /\ stat \in Updaters \cup {Nobody}
      /\ Nobody \notin Updaters
  BY UpdatersAssumption DEF UpdateInv, TypeOK, Records
<1>1. /\ \A w \in Updaters : up'[w] = after(w)
      /\ up' = [w \in Updaters |-> after(w)]
  BY DEF RemoveStat
<1>2. /\ Goroutine(place) \in Records /\ Goroutine(place).at = place
      /\ Goroutine("woken") \in Records /\ Goroutine("woken").at = "woken"
  BY GoroutineTyped DEF Places
<1>3. /\ up' \in [Updaters -> Records]
      /\ \A w \in Updaters : up'[w].at \in {"update", "fetch", "leave"} => w # u /\ up'[w] = up[w]
  BY <1>0, <1>1, <1>2
<1>4. TypeOK'
  <2>1. stolen' \in BOOLEAN
    BY DEF RemoveStat, Remember, UpdateInv, TypeOK
  <2>2. QED
    BY <1>3, <2>1 DEF RemoveStat, Alone, UpdateInv, TypeOK, Records
<1>5. Released'
  BY <1>3 DEF RemoveStat, Alone, UpdateInv, Released
<1>6. ~stolen' => \A w \in Updaters : ~AtWork(w)'
  <2> SUFFICES ASSUME ~stolen', NEW w \in Updaters, AtWork(w)' PROVE FALSE
    OBVIOUS
  <2>1. ~stolen /\ ~(stat \notin {u, Nobody} /\ AtWork(stat))
    BY DEF RemoveStat, Remember
  <2>2. w # u /\ AtWork(w)
    BY <1>3 DEF AtWork
  <2>3. stat = w
    BY <2>1, <2>2 DEF UpdateInv, Owned
  <2>4. QED
    BY <1>0, <2>1, <2>2, <2>3
<1>7. Owned' /\ Fresh'
  BY <1>6 DEF Owned, Fresh, AtWork
<1>8. QED
  BY <1>4, <1>5, <1>7 DEF UpdateInv

LEMMA CreateKeepsInv ==
  ASSUME UpdateInv, NEW u \in Updaters, Create(u)
  PROVE  UpdateInv'
<1> DEFINE r == [up[u] EXCEPT !.at = "update"]
<1>0. up \in [Updaters -> Records] /\ Nobody \notin Updaters
  BY UpdatersAssumption DEF UpdateInv, TypeOK, Records
<1>1. r \in Records /\ r.at = "update" /\ up' = [up EXCEPT ![u] = r]
  BY <1>0 DEF Create, Records, Places
<1>2. up' \in [Updaters -> Records] /\ up'[u] = r /\ \A w \in Updaters \ {u} : up'[w] = up[w]
  BY <1>0, <1>1
<1>3. TypeOK'
  <2>1. stolen' \in BOOLEAN
    BY DEF Create, UpdateInv, TypeOK
  <2>2. QED
    BY <1>2, <2>1 DEF Create, Alone, UpdateInv, TypeOK, Records
<1>4. Released' /\ Fresh'
  BY <1>1, <1>2 DEF Create, Alone, UpdateInv, Released, Fresh
<1>5. ~stolen => \A w \in Updaters : ~AtWork(w)
  BY <1>0 DEF Create, UpdateInv, Owned
<1>6. Owned'
  BY <1>1, <1>2, <1>5 DEF Create, Owned, AtWork
<1>7. QED
  BY <1>3, <1>4, <1>6 DEF UpdateInv

LEMMA InstallKeepsInv ==
  ASSUME UpdateInv, NEW u \in Updaters, Install(u)
  PROVE  UpdateInv' /\ (exe' < exe /\ origin' = origin => stolen)
<1> DEFINE r == [Goroutine("leave") EXCEPT !.exit = TRUE]
<1>0. up \in [Updaters -> Records] /\ exe \in Nat
  BY VersionsTyped DEF UpdateInv, TypeOK, Records
<1>1. r \in Records /\ r.at = "leave" /\ up' = [up EXCEPT ![u] = r]
  BY DEF Install, Goroutine, Records, Places
<1>2. up' \in [Updaters -> Records] /\ up'[u] = r /\ \A w \in Updaters \ {u} : up'[w] = up[w]
  BY <1>0, <1>1
<1>3. /\ up[u].at = "fetch" /\ exe' = up[u].got /\ origin' = up[u].src /\ AtWork(u)
      /\ UNCHANGED <<release, stat, stolen, running, faults>>
  BY DEF Install, Alone, AtWork
<1>4. exe' \in Versions /\ exe' \in Nat /\ origin' \in Sources /\ exe' <= release[origin']
  BY <1>3, VersionsTyped DEF UpdateInv, Released
<1>5. TypeOK'
  <2>1. stolen' \in BOOLEAN
    BY <1>3 DEF UpdateInv, TypeOK
  <2>2. QED
    BY <1>2, <1>3, <1>4, <2>1 DEF UpdateInv, TypeOK, Records
<1>6. Released'
  BY <1>1, <1>2, <1>3, <1>4 DEF UpdateInv, Released
<1>7. ~stolen => \A w \in Updaters \ {u} : ~AtWork(w)
  BY <1>3 DEF UpdateInv, Owned
<1>8. Owned' /\ Fresh'
  BY <1>1, <1>2, <1>3, <1>7 DEF UpdateInv, Owned, Fresh, AtWork
<1>9. exe' < exe /\ origin' = origin => stolen
  <2>1. origin' = origin /\ ~stolen => exe <= up[u].got
    BY <1>3 DEF UpdateInv, Fresh
  <2>2. exe <= exe' => ~(exe' < exe)
    BY <1>0, <1>4
  <2>3. QED
    BY <1>3, <2>1, <2>2
<1>10. QED
  BY <1>5, <1>6, <1>8, <1>9 DEF UpdateInv

LEMMA DownKeepsInv ==
  ASSUME UpdateInv, NEW p \in Processes, Down(p), faults' \in 0..MaxFaults
  PROVE  UpdateInv'
<1>1. Idle \in Records /\ Idle.at = "idle"
  BY GoroutineTyped DEF Idle, Places
<1>2. /\ up' \in [Updaters -> Records]
      /\ \A w \in Updaters : up'[w] = Idle \/ up'[w] = up[w]
  BY <1>1 DEF Down, UpdateInv, TypeOK, Records
<1>3. TypeOK'
  <2>1. stolen' \in BOOLEAN
    BY DEF Down, Remember, UpdateInv, TypeOK
  <2>2. QED
    BY <1>2, <2>1 DEF Down, fileVars, UpdateInv, TypeOK, Records
<1>4. ~stolen' => ~stolen \/ \A w \in Updaters : ~AtWork(w)'
  BY DEF Down, Remember
<1>5. Released'
  BY <1>1, <1>2 DEF Down, fileVars, UpdateInv, Released
<1>6. Owned' /\ Fresh'
  BY <1>1, <1>2, <1>4 DEF Down, fileVars, UpdateInv, Owned, Fresh, AtWork
<1>7. QED
  BY <1>3, <1>5, <1>6 DEF UpdateInv

\* Every other step of an updater.
LEMMA StepKeepsInv ==
  ASSUME UpdateInv, NEW u \in Updaters,
         Check(u) \/ Upgrade(u) \/ LookForStat(u) \/ CreateFails(u) \/ Watch(u)
           \/ RemovalSeen(u) \/ WatchTimesOut(u) \/ Detect(u) \/ Failure(u)
  PROVE  UpdateInv'
<1>0. up[u] \in Records /\ exe \in Versions /\ faults \in 0..MaxFaults
  BY VersionsTyped DEF UpdateInv, TypeOK, Records
<1>a. \A place \in Places : Goroutine(place) \in Records /\ Goroutine(place).at = place
  BY GoroutineTyped
<1>b. /\ UNCHANGED <<release, running, fileVars>> /\ faults' \in 0..MaxFaults
      /\ stolen' = stolen \/ Remember(stolen)
  <2>1. CASE Failure(u)
    BY <1>0, <2>1, BoundsAssumption DEF Failure, FileFails, UpdateFails, Fault, diskVars
  <2>2. QED
    BY <1>0, <2>1 DEF Check, Upgrade, LookForStat, CreateFails, Watch, RemovalSeen,
         WatchTimesOut, Detect, diskVars, Alone
<1>1. ASSUME NEW from \in Places, NEW to \in Places, Goto(u, from, to),
             to \notin {"update", "fetch", "leave"} \/ AtWork(u), to # "fetch"
      PROVE  UpdateInv'
  BY <1>a, <1>b, <1>1, MoveKeepsInv DEF Goto
<1>2. CASE Check(u)
  <2> DEFINE r == IF running[Of[u]] = exe THEN [Goroutine("checked") EXCEPT !.v = exe]
                                          ELSE Goroutine("exit")
  <2>1. r \in Records /\ r.at \in {"checked", "exit"}
    BY <1>0 DEF Goroutine, Records, Places
  <2>2. up' = [up EXCEPT ![u] = r]
    BY <1>2 DEF Check
  <2>3. QED
    BY <1>b, <2>1, <2>2, MoveKeepsInv
<1>3. CASE LookForStat(u)
  <2> DEFINE r == IF stat = Nobody THEN [up[u] EXCEPT !.at = "absent"] ELSE Goroutine("found")
  <2>1. r \in Records /\ r.at \in {"absent", "found"}
    BY <1>0, <1>a DEF Records, Places
  <2>2. up' = [up EXCEPT ![u] = r]
    BY <1>3 DEF LookForStat
  <2>3. QED
    BY <1>b, <2>1, <2>2, MoveKeepsInv
<1>4. CASE Detect(u)
  <2>1. PICK s \in Sources :
          up' = [up EXCEPT ![u] = IF up[u].v = release[s]
                                  THEN Goroutine("leave")
                                  ELSE [@ EXCEPT !.at = "fetch", !.got = release[s], !.src = s]]
    BY <1>4 DEF Detect, LastRelease
  <2> DEFINE r == IF up[u].v = release[s]
                  THEN Goroutine("leave")
                  ELSE [up[u] EXCEPT !.at = "fetch", !.got = release[s], !.src = s]
  <2>2. release[s] \in Versions
    BY ReleasesTyped DEF UpdateInv
  <2>3. /\ r \in Records /\ r.at \in {"leave", "fetch"}
        /\ r.at = "fetch" => r.src \in Sources /\ r.got = release[r.src]
    BY <1>0, <1>a, <2>2 DEF Records, Places
  <2>4. up' = [up EXCEPT ![u] = r] /\ AtWork(u)
    BY <1>4, <2>1 DEF Detect, LastRelease, AtWork
  <2> HIDE DEF r
  <2>5. QED
    BY <1>b, <2>3, <2>4, MoveKeepsInv
<1>5. CASE Upgrade(u) \/ CreateFails(u) \/ Watch(u) \/ RemovalSeen(u) \/ WatchTimesOut(u)
  BY <1>1, <1>5 DEF Upgrade, CreateFails, Watch, RemovalSeen, WatchTimesOut, Places
<1>6. CASE FileFails(u)
  <2>1. CASE \E place \in {"checked", "found", "absent", "late"} : Goto(u, place, "idle")
    BY <1>1, <2>1 DEF Places
  <2>2. CASE Goto(u, "leave", IF up[u].exit THEN "exit" ELSE "idle")
    BY <1>1, <2>2 DEF Places
  <2>3. QED
    BY <1>6, <2>1, <2>2 DEF FileFails
<1>7. CASE UpdateFails(u)
  <2>1. AtWork(u)
    BY <1>7 DEF UpdateFails, Goto, AtWork
  <2>2. QED
    BY <1>1, <1>7, <2>1 DEF UpdateFails, Places
<1>8. QED
  BY <1>2, <1>3, <1>4, <1>5, <1>6, <1>7 DEF Failure

LEMMA UpdateInvNext ==
  ASSUME UpdateInv, [Next]_vars
  PROVE  UpdateInv'
<1>1. ASSUME NEW u \in Updaters, Check(u) \/ Upgrade(u) \/ Failure(u) PROVE UpdateInv'
  BY <1>1, StepKeepsInv
<1>2. ASSUME NEW u \in Updaters, Progress(u) PROVE UpdateInv'
  <2>1. CASE RemoveLate(u)
    BY <2>1, RemoveKeepsInv DEF RemoveLate
  <2>2. CASE Leave(u)
    <3>1. AtWork(u) /\ RemoveStat(u, IF up[u].exit THEN "exit" ELSE "idle")
      BY <2>2 DEF Leave, AtWork
    <3>2. QED
      BY <3>1, RemoveKeepsInv
  <2>3. CASE Exit(u)
    <3>1. Of[u] \in Processes /\ faults' \in 0..MaxFaults
      BY <2>3, UpdatersAssumption DEF Exit, UpdateInv, TypeOK
    <3>2. QED
      BY <2>3, <3>1, DownKeepsInv DEF Exit
  <2>4. QED
    BY <1>2, <2>1, <2>2, <2>3, CreateKeepsInv, InstallKeepsInv, StepKeepsInv DEF Progress
<1>3. ASSUME NEW p \in Processes, Crash(p) PROVE UpdateInv'
  <2>1. faults' \in 0..MaxFaults
    BY <1>3, BoundsAssumption DEF Crash, Fault, UpdateInv, TypeOK
  <2>2. QED
    BY <1>3, <2>1, DownKeepsInv DEF Crash
<1>4. ASSUME NEW p \in Processes, Start(p) PROVE UpdateInv'
  <2>1. TypeOK'
    <3>1. stolen' \in BOOLEAN
      BY <1>4 DEF Start, fileVars, diskVars, UpdateInv, TypeOK
    <3>2. QED
      BY <1>4, <3>1 DEF Start, fileVars, diskVars, UpdateInv, TypeOK
  <2>2. Released' /\ Owned' /\ Fresh'
    BY <1>4 DEF Start, fileVars, diskVars, UpdateInv, Released, Owned, Fresh, AtWork
  <2>3. QED
    BY <2>1, <2>2 DEF UpdateInv
<1>5. ASSUME NEW s \in Sources, Release(s) PROVE UpdateInv'
  <2>1. /\ release \in [Sources -> Versions] /\ release[s] + 1 \in Versions
        /\ release' = [release EXCEPT ![s] = release[s] + 1]
        /\ \A v \in Versions : v \in Nat
        /\ UNCHANGED <<exe, origin, stat, stolen, up, running, faults>>
    BY <1>5, VersionsTyped DEF Release, UpdateInv, TypeOK, Versions, diskVars, fileVars
  <2>2. /\ release' \in [Sources -> Versions]
        /\ \A t \in Sources : release[t] <= release'[t] /\ {release[t], release'[t]} \subseteq Nat
    BY <2>1
  <2>3. TypeOK'
    <3>1. stolen' \in BOOLEAN
      BY <2>1 DEF UpdateInv, TypeOK
    <3>2. QED
      BY <2>1, <2>2, <3>1 DEF UpdateInv, TypeOK
  <2>4. Released'
    <3>1. exe \in Nat /\ \A u \in Updaters : up[u].got \in Versions => up[u].got \in Nat
      BY <2>1 DEF UpdateInv, TypeOK
    <3>2. QED
      BY <2>1, <2>2, <3>1 DEF UpdateInv, Released
  <2>5. Owned' /\ Fresh'
    BY <2>1 DEF UpdateInv, Owned, Fresh, AtWork
  <2>6. QED
    BY <2>3, <2>4, <2>5 DEF UpdateInv
<1>6. CASE UNCHANGED vars
  <2>1. stolen' \in BOOLEAN
    BY <1>6 DEF vars, fileVars, diskVars, UpdateInv, TypeOK
  <2>2. TypeOK'
    BY <1>6, <2>1 DEF vars, fileVars, diskVars, UpdateInv, TypeOK
  <2>3. Released' /\ Owned' /\ Fresh'
    BY <1>6 DEF vars, fileVars, diskVars, UpdateInv, Released, Owned, Fresh, AtWork
  <2>4. QED
    BY <2>2, <2>3 DEF UpdateInv
<1>7. QED
  BY <1>1, <1>2, <1>3, <1>4, <1>5, <1>6 DEF Next

LEMMA UpdateInvCorrect == Spec => []UpdateInv
BY UpdateInvInit, UpdateInvNext, PTL DEF Spec

(* What is released, installed and run are versions, and a download is of one *)
(* that was released (main.go:699-759).                                      *)
THEOREM UpdateTypeCorrect == Spec => []TypeOK
<1>1. UpdateInv => TypeOK
  BY DEF UpdateInv
<1>2. QED
  BY <1>1, UpdateInvCorrect, PTL

(* Any number of updaters of any processes exclude each other, unless one that *)
(* was at work was given up by another (main.go:668-697).                    *)
THEOREM UpdatesAreExclusive == Spec => []ExclusiveUpdate
<1>1. UpdateInv => ExclusiveUpdate
  BY DEF UpdateInv, Owned, ExclusiveUpdate
<1>2. QED
  BY <1>1, UpdateInvCorrect, PTL

(* However often the source changes, the executable is not replaced by an older *)
(* release of the source it came from, unless updaters came to work at the same *)
(* time (main.go:668-759).                                                     *)
THEOREM UpdatesGoForward == Spec => ForwardPerSource
<1>1. ASSUME UpdateInv, [Next]_vars PROVE [exe' < exe /\ origin' = origin => stolen]_vars
  <2>1. exe \in Nat
    BY <1>1, VersionsTyped DEF UpdateInv, TypeOK
  <2>2. ASSUME NEW u \in Updaters, Check(u) \/ Upgrade(u) \/ Failure(u) PROVE exe' = exe
    BY <2>2 DEF Check, Upgrade, Failure, FileFails, UpdateFails, fileVars, diskVars
  <2>3. ASSUME NEW u \in Updaters, Progress(u), ~Install(u) PROVE exe' = exe
    BY <2>3 DEF Progress, LookForStat, Create, CreateFails, Watch, RemovalSeen, WatchTimesOut,
         RemoveLate, RemoveStat, Detect, Leave, Exit, Down, fileVars, diskVars
  <2>4. exe' = exe \/ \E u \in Updaters : Install(u)
    BY <1>1, <2>2, <2>3 DEF Next, Crash, Start, Release, Down, fileVars, diskVars, vars
  <2>5. QED
    BY <1>1, <2>1, <2>4, InstallKeepsInv
<1>2. QED
  BY <1>1, UpdateInvCorrect, PTL DEF Spec, ForwardPerSource
=============================================================================
