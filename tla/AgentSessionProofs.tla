------------------------- MODULE AgentSessionProofs -------------------------
(* Proofs of the safety properties of AgentSession, for any set of sessions *)
(* and any bounds.                                                          *)
EXTENDS AgentSession, TLAPS

-----------------------------------------------------------------------------
(* Types. *)

\* A configuration is replaced only while a next one exists.
ArmedBound == timer = "armed" => cfg < MaxConfig

TypeInv == TypeOK /\ ArmedBound

LEMMA InitTypeInv == Init => TypeInv
<1> USE BoundsAssumption DEF Init, Boots, MainStates, RepStates
<1>1. Init => BootsOK
  BY DEF BootsOK
<1>2. Init => FlagsOK
  BY DEF FlagsOK
<1>3. Init => SessionsOK
  BY DEF SessionsOK
<1>4. Init => ConfigOK
  BY DEF ConfigOK
<1>5. Init => ArmedBound
  BY DEF ArmedBound
<1>6. QED
  BY <1>1, <1>2, <1>3, <1>4, <1>5 DEF TypeInv, TypeOK

\* A counter that is counted up or, above zero, down stays a natural number.
LEMMA CountersStayNat ==
  ASSUME NEW S, NEW f \in [S -> Nat], NEW c \in S
  PROVE  /\ [f EXCEPT ![c] = @ + 1] \in [S -> Nat]
         /\ f[c] > 0 => [f EXCEPT ![c] = @ - 1] \in [S -> Nat]
  OBVIOUS

LEMMA AdmittedMore ==
  ASSUME TypeOK, NEW s \in Slots, NEW c \in 1..MaxConfig
  PROVE  [admitted EXCEPT ![s][c] = @ + 1] \in [Slots -> [1..MaxConfig -> Nat]]
<1>1. admitted \in [Slots -> [1..MaxConfig -> Nat]]
  BY DEF TypeOK, SessionsOK
<1>2. [admitted[s] EXCEPT ![c] = @ + 1] \in [1..MaxConfig -> Nat]
  BY <1>1, CountersStayNat
<1>3. [admitted EXCEPT ![s] = [admitted[s] EXCEPT ![c] = @ + 1]]
        \in [Slots -> [1..MaxConfig -> Nat]]
  BY <1>1, <1>2
<1>4. QED
  BY <1>3

LEMMA AdmittedLess ==
  ASSUME TypeOK, NEW s \in Slots,
         \E c \in 1..MaxConfig :
           admitted[s][c] > 0 /\ admitted' = [admitted EXCEPT ![s][c] = @ - 1]
  PROVE  admitted' \in [Slots -> [1..MaxConfig -> Nat]]
<1>1. admitted \in [Slots -> [1..MaxConfig -> Nat]]
  BY DEF TypeOK, SessionsOK
<1>2. PICK c \in 1..MaxConfig :
        admitted[s][c] > 0 /\ admitted' = [admitted EXCEPT ![s][c] = @ - 1]
  OBVIOUS
<1>3. [admitted[s] EXCEPT ![c] = @ - 1] \in [1..MaxConfig -> Nat]
  BY <1>1, <1>2, CountersStayNat
<1>4. admitted' = [admitted EXCEPT ![s] = [admitted[s] EXCEPT ![c] = @ - 1]]
  BY <1>2
<1>5. QED
  BY <1>1, <1>3, <1>4

LEMMA NextTypeInv == TypeInv /\ [Next]_vars => TypeInv'
<1> SUFFICES ASSUME TypeInv, [Next]_vars PROVE TypeInv'
  OBVIOUS
<1> USE BoundsAssumption
    DEF TypeInv, TypeOK, BootsOK, FlagsOK, SessionsOK, ConfigOK,
        ArmedBound, Boots, MainStates, RepStates, vars, dashVars,
        mainVars, geoVars, flagVars, daemonVars, taskVars, reloadVars, Retry, EndTask,
        RepGoto, RepExit, LeaveGeoIP
<1>1. CASE DashboardRestart
  BY <1>1 DEF DashboardRestart
<1>2. CASE MainWake
  BY <1>2 DEF MainWake
<1>3. ASSUME NEW s \in Slots, MainDial(s) PROVE TypeInv'
  BY <1>3 DEF MainDial
<1>4. CASE MainDialFails
  BY <1>4 DEF MainDialFails
<1>5. CASE MainInfo
  BY <1>5 DEF MainInfo
<1>6. CASE MainInfoFails
  BY <1>6 DEF MainInfoFails
<1>7. CASE MainStore
  <2>1. BootsOK'
    BY <1>7 DEF MainStore
  <2>2. FlagsOK'
    BY <1>7 DEF MainStore
  <2>3. SessionsOK'
    BY <1>7 DEF MainStore
  <2>4. ConfigOK'
    BY <1>7 DEF MainStore
  <2>5. ArmedBound'
    BY <1>7 DEF MainStore
  <2>6. QED
    BY <2>1, <2>2, <2>3, <2>4, <2>5
<1>8. CASE MainTasks
  BY <1>8 DEF MainTasks
<1>9. CASE MainState
  BY <1>9 DEF MainState
<1>10. CASE MainStreamFails
  BY <1>10 DEF MainStreamFails
<1>11. CASE MainReload
  <2>1. BootsOK'
    BY <1>11 DEF MainReload
  <2>2. FlagsOK'
    BY <1>11 DEF MainReload
  <2>3. SessionsOK'
    BY <1>11 DEF MainReload
  <2>4. ConfigOK'
    BY <1>11 DEF MainReload
  <2>5. ArmedBound'
    BY <1>11 DEF MainReload
  <2>6. QED
    BY <2>1, <2>2, <2>3, <2>4, <2>5
<1>12. CASE MainWorkerExit
  BY <1>12 DEF MainWorkerExit
<1>13. CASE TimerApply
  BY <1>13 DEF TimerApply
<1>14. CASE TimerFinish
  <2>1. BootsOK'
    BY <1>14 DEF TimerFinish
  <2>2. FlagsOK'
    BY <1>14 DEF TimerFinish
  <2>3. SessionsOK'
    BY <1>14 DEF TimerFinish
  <2>4. ConfigOK'
    BY <1>14 DEF TimerFinish
  <2>5. ArmedBound'
    BY <1>14 DEF TimerFinish
  <2>6. QED
    BY <2>1, <2>2, <2>3, <2>4, <2>5
<1>15. ASSUME NEW s \in Slots, RecvTask(s) PROVE TypeInv'
  <2>1. BootsOK'
    BY <1>15 DEF RecvTask
  <2>2. FlagsOK'
    BY <1>15 DEF RecvTask
  <2>3. SessionsOK'
    <3>1. tasks' \in [Slots -> Nat]
      BY <1>15 DEF RecvTask
    <3>2. admitted' \in [Slots -> [1..MaxConfig -> Nat]]
      BY <1>15 DEF RecvTask
    <3>3. ctx' \in [Slots -> {"none", "live", "cancelled"}]
      BY <1>15 DEF RecvTask
    <3>4. UNCHANGED <<pc, sess, recv, rep, force, reply, keepHost>>
      BY <1>15 DEF RecvTask
    <3>5. QED
      BY <3>1, <3>2, <3>3, <3>4
  <2>4. ConfigOK'
    BY <1>15 DEF RecvTask
  <2>5. ArmedBound'
    BY <1>15 DEF RecvTask
  <2>6. QED
    BY <2>1, <2>2, <2>3, <2>4, <2>5
<1>16. ASSUME NEW s \in Slots, RecvFails(s) PROVE TypeInv'
  BY <1>16 DEF RecvFails
<1>17. ASSUME NEW s \in Slots, RunTask(s) PROVE TypeInv'
  <2>1. BootsOK'
    BY <1>17 DEF RunTask
  <2>2. FlagsOK'
    BY <1>17 DEF RunTask
  <2>3. SessionsOK'
    <3>1. tasks' \in [Slots -> Nat]
      BY <1>17 DEF RunTask
    <3>2. admitted' \in [Slots -> [1..MaxConfig -> Nat]]
      BY <1>17 DEF RunTask
    <3>3. ctx' \in [Slots -> {"none", "live", "cancelled"}]
      BY <1>17 DEF RunTask
    <3>4. UNCHANGED <<pc, sess, recv, rep, force, reply, keepHost>>
      BY <1>17 DEF RunTask
    <3>5. QED
      BY <3>1, <3>2, <3>3, <3>4
  <2>4. ConfigOK'
    BY <1>17 DEF RunTask
  <2>5. ArmedBound'
    BY <1>17 DEF RunTask
  <2>6. QED
    BY <2>1, <2>2, <2>3, <2>4, <2>5
<1>18. ASSUME NEW s \in Slots, ApplyConfig(s) PROVE TypeInv'
  <2>1. BootsOK'
    BY <1>18 DEF ApplyConfig
  <2>2. FlagsOK'
    BY <1>18 DEF ApplyConfig
  <2>3. SessionsOK'
    <3>1. tasks' \in [Slots -> Nat]
      BY <1>18 DEF ApplyConfig
    <3>2. admitted' \in [Slots -> [1..MaxConfig -> Nat]]
      BY <1>18, AdmittedLess DEF ApplyConfig
    <3>3. ctx' \in [Slots -> {"none", "live", "cancelled"}]
      BY <1>18 DEF ApplyConfig
    <3>4. UNCHANGED <<pc, sess, recv, rep, force, reply, keepHost>>
      BY <1>18 DEF ApplyConfig
    <3>5. QED
      BY <3>1, <3>2, <3>3, <3>4
  <2>4. ConfigOK'
    BY <1>18 DEF ApplyConfig
  <2>5. ArmedBound'
    BY <1>18 DEF ApplyConfig
  <2>6. QED
    BY <2>1, <2>2, <2>3, <2>4, <2>5
<1>40. ASSUME NEW s \in Slots, AdmitConfig(s) PROVE TypeInv'
  <2>1. BootsOK'
    BY <1>40 DEF AdmitConfig
  <2>2. FlagsOK'
    BY <1>40 DEF AdmitConfig
  <2>3. SessionsOK'
    <3>1. tasks' \in [Slots -> Nat]
      BY <1>40 DEF AdmitConfig
    <3>2. admitted' \in [Slots -> [1..MaxConfig -> Nat]]
      BY <1>40, AdmittedMore DEF AdmitConfig
    <3>3. ctx' \in [Slots -> {"none", "live", "cancelled"}]
      BY <1>40 DEF AdmitConfig
    <3>4. UNCHANGED <<pc, sess, recv, rep, force, reply, keepHost>>
      BY <1>40 DEF AdmitConfig
    <3>5. QED
      BY <3>1, <3>2, <3>3, <3>4
  <2>4. ConfigOK'
    BY <1>40 DEF AdmitConfig
  <2>5. ArmedBound'
    BY <1>40 DEF AdmitConfig
  <2>6. QED
    BY <2>1, <2>2, <2>3, <2>4, <2>5
<1>41. ASSUME NEW s \in Slots, RefuseConfig(s) PROVE TypeInv'
  <2>1. BootsOK'
    BY <1>41 DEF RefuseConfig
  <2>2. FlagsOK'
    BY <1>41 DEF RefuseConfig
  <2>3. SessionsOK'
    <3>1. tasks' \in [Slots -> Nat]
      BY <1>41 DEF RefuseConfig
    <3>2. admitted' \in [Slots -> [1..MaxConfig -> Nat]]
      BY <1>41, AdmittedLess DEF RefuseConfig
    <3>3. ctx' \in [Slots -> {"none", "live", "cancelled"}]
      BY <1>41 DEF RefuseConfig
    <3>4. UNCHANGED <<pc, sess, recv, rep, force, reply, keepHost>>
      BY <1>41 DEF RefuseConfig
    <3>5. QED
      BY <3>1, <3>2, <3>3, <3>4
  <2>4. ConfigOK'
    BY <1>41 DEF RefuseConfig
  <2>5. ArmedBound'
    BY <1>41 DEF RefuseConfig
  <2>6. QED
    BY <2>1, <2>2, <2>3, <2>4, <2>5
<1>19. ASSUME NEW s \in Slots, RepTop(s) PROVE TypeInv'
  BY <1>19 DEF RepTop
<1>20. ASSUME NEW s \in Slots, RepTopExit(s) PROVE TypeInv'
  BY <1>20 DEF RepTopExit
<1>21. ASSUME NEW s \in Slots, RepSend(s) PROVE TypeInv'
  BY <1>21 DEF RepSend
<1>22. ASSUME NEW s \in Slots, RepSendFails(s) PROVE TypeInv'
  BY <1>22 DEF RepSendFails
<1>23. ASSUME NEW s \in Slots, RepHostSkip(s) PROVE TypeInv'
  BY <1>23 DEF RepHostSkip
<1>24. ASSUME NEW s \in Slots, RepHost(s) PROVE TypeInv'
  BY <1>24 DEF RepHost
<1>25. ASSUME NEW s \in Slots, RepHostRpc(s) PROVE TypeInv'
  BY <1>25 DEF RepHostRpc
<1>26. ASSUME NEW s \in Slots, RepHostRpcFails(s) PROVE TypeInv'
  <2>1. BootsOK'
    BY <1>26 DEF RepHostRpcFails
  <2>2. FlagsOK'
    BY <1>26 DEF RepHostRpcFails
  <2>3. SessionsOK'
    BY <1>26 DEF RepHostRpcFails
  <2>4. ConfigOK'
    BY <1>26 DEF RepHostRpcFails
  <2>5. ArmedBound'
    BY <1>26 DEF RepHostRpcFails
  <2>6. QED
    BY <2>1, <2>2, <2>3, <2>4, <2>5
<1>27. ASSUME NEW s \in Slots, RepHostReply(s) PROVE TypeInv'
  BY <1>27 DEF RepHostReply
<1>28. ASSUME NEW s \in Slots, RepHostStore(s) PROVE TypeInv'
  <2>1. BootsOK'
    BY <1>28 DEF RepHostStore
  <2>2. FlagsOK'
    BY <1>28 DEF RepHostStore
  <2>3. SessionsOK'
    BY <1>28 DEF RepHostStore
  <2>4. ConfigOK'
    BY <1>28 DEF RepHostStore
  <2>5. ArmedBound'
    BY <1>28 DEF RepHostStore
  <2>6. QED
    BY <2>1, <2>2, <2>3, <2>4, <2>5
<1>29. ASSUME NEW s \in Slots, RepIpSkip(s) PROVE TypeInv'
  BY <1>29 DEF RepIpSkip
<1>30. ASSUME NEW s \in Slots, RepIp(s) PROVE TypeInv'
  BY <1>30 DEF RepIp
<1>31. ASSUME NEW s \in Slots, RepFetch(s) PROVE TypeInv'
  <2>1. BootsOK'
    BY <1>31 DEF RepFetch
  <2>2. FlagsOK'
    BY <1>31 DEF RepFetch
  <2>3. SessionsOK'
    BY <1>31 DEF RepFetch
  <2>4. ConfigOK'
    BY <1>31 DEF RepFetch
  <2>5. ArmedBound'
    BY <1>31 DEF RepFetch
  <2>6. QED
    BY <2>1, <2>2, <2>3, <2>4, <2>5
<1>32. ASSUME NEW s \in Slots, RepFetchSame(s) PROVE TypeInv'
  <2>1. BootsOK'
    BY <1>32 DEF RepFetchSame
  <2>2. FlagsOK'
    BY <1>32 DEF RepFetchSame
  <2>3. SessionsOK'
    BY <1>32 DEF RepFetchSame
  <2>4. ConfigOK'
    BY <1>32 DEF RepFetchSame
  <2>5. ArmedBound'
    BY <1>32 DEF RepFetchSame
  <2>6. QED
    BY <2>1, <2>2, <2>3, <2>4, <2>5
<1>33. ASSUME NEW s \in Slots, RepGeoFails(s) PROVE TypeInv'
  <2>1. BootsOK'
    BY <1>33 DEF RepGeoFails
  <2>2. FlagsOK'
    BY <1>33 DEF RepGeoFails
  <2>3. SessionsOK'
    BY <1>33 DEF RepGeoFails
  <2>4. ConfigOK'
    BY <1>33 DEF RepGeoFails
  <2>5. ArmedBound'
    BY <1>33 DEF RepGeoFails
  <2>6. QED
    BY <2>1, <2>2, <2>3, <2>4, <2>5
<1>34. ASSUME NEW s \in Slots, RepGeoRpc(s) PROVE TypeInv'
  BY <1>34 DEF RepGeoRpc
<1>35. ASSUME NEW s \in Slots, RepGeoReply(s) PROVE TypeInv'
  <2>1. BootsOK'
    BY <1>35 DEF RepGeoReply
  <2>2. FlagsOK'
    BY <1>35 DEF RepGeoReply
  <2>3. SessionsOK'
    BY <1>35 DEF RepGeoReply
  <2>4. ConfigOK'
    BY <1>35 DEF RepGeoReply
  <2>5. ArmedBound'
    BY <1>35 DEF RepGeoReply
  <2>6. QED
    BY <2>1, <2>2, <2>3, <2>4, <2>5
<1>36. ASSUME NEW s \in Slots, RepGeoStore(s) PROVE TypeInv'
  BY <1>36 DEF RepGeoStore
<1>37. ASSUME NEW s \in Slots, RepWake(s) PROVE TypeInv'
  BY <1>37 DEF RepWake
<1>38. CASE UNCHANGED vars
  BY <1>38
<1>39. QED
  BY <1>40, <1>41, <1>1, <1>2, <1>3, <1>4, <1>5, <1>6, <1>7, <1>8, <1>9, <1>10, <1>11, <1>12, <1>13, <1>14, <1>15, <1>16, <1>17, <1>18, <1>19, <1>20, <1>21, <1>22, <1>23, <1>24, <1>25, <1>26, <1>27, <1>28, <1>29, <1>30, <1>31, <1>32, <1>33, <1>34, <1>35, <1>36, <1>37, <1>38 DEF Next, Main, Session, Report

\* Every variable keeps its type (the variables of cmd/agent/main.go:52-77).
THEOREM TypeCorrect == Spec => []TypeOK
<1>1. Spec => []TypeInv
  BY InitTypeInv, NextTypeInv, PTL DEF Spec
<1>2. TypeInv => TypeOK
  BY DEF TypeInv
<1>3. QED
  BY <1>1, <1>2, PTL

-----------------------------------------------------------------------------
(* Frames: what the goroutines of a session leave alone. *)

LEMMA ReportFrame ==
  ASSUME NEW s \in Slots, Report(s)
  PROVE  UNCHANGED <<mainVars, taskVars, reloadVars, boot, recv, initialized>>
<1> USE DEF vars, taskVars, mainVars, reloadVars, dashVars, geoVars, flagVars, RepGoto,
        RepExit, LeaveGeoIP
<1>1. CASE RepTop(s)
  BY <1>1 DEF RepTop
<1>2. CASE RepTopExit(s)
  BY <1>2 DEF RepTopExit
<1>3. CASE RepSend(s)
  BY <1>3 DEF RepSend
<1>4. CASE RepSendFails(s)
  BY <1>4 DEF RepSendFails
<1>5. CASE RepHostSkip(s)
  BY <1>5 DEF RepHostSkip
<1>6. CASE RepHost(s)
  BY <1>6 DEF RepHost
<1>7. CASE RepHostRpc(s)
  BY <1>7 DEF RepHostRpc
<1>8. CASE RepHostRpcFails(s)
  BY <1>8 DEF RepHostRpcFails
<1>9. CASE RepHostReply(s)
  BY <1>9 DEF RepHostReply
<1>10. CASE RepHostStore(s)
  BY <1>10 DEF RepHostStore
<1>11. CASE RepIpSkip(s)
  BY <1>11 DEF RepIpSkip
<1>12. CASE RepIp(s)
  BY <1>12 DEF RepIp
<1>13. CASE RepFetch(s)
  BY <1>13 DEF RepFetch
<1>14. CASE RepFetchSame(s)
  BY <1>14 DEF RepFetchSame
<1>15. CASE RepGeoFails(s)
  BY <1>15 DEF RepGeoFails
<1>16. CASE RepGeoRpc(s)
  BY <1>16 DEF RepGeoRpc
<1>17. CASE RepGeoReply(s)
  BY <1>17 DEF RepGeoReply
<1>18. CASE RepGeoStore(s)
  BY <1>18 DEF RepGeoStore
<1>19. CASE RepWake(s)
  BY <1>19 DEF RepWake
<1>20. QED
  BY <1>1, <1>2, <1>3, <1>4, <1>5, <1>6, <1>7, <1>8, <1>9, <1>10, <1>11, <1>12, <1>13, <1>14, <1>15, <1>16, <1>17, <1>18, <1>19 DEF Report

LEMMA ReportCtx ==
  ASSUME TypeOK, NEW s \in Slots, Report(s)
  PROVE  ctx' = ctx \/ ctx' = [ctx EXCEPT ![s] = "cancelled"]
<1> USE DEF vars, RepGoto, RepExit
<1>1. CASE RepTop(s)
  BY <1>1 DEF RepTop
<1>2. CASE RepTopExit(s)
  BY <1>2 DEF RepTopExit
<1>3. CASE RepSend(s)
  BY <1>3 DEF RepSend
<1>4. CASE RepSendFails(s)
  BY <1>4 DEF RepSendFails
<1>5. CASE RepHostSkip(s)
  BY <1>5 DEF RepHostSkip
<1>6. CASE RepHost(s)
  BY <1>6 DEF RepHost
<1>7. CASE RepHostRpc(s)
  BY <1>7 DEF RepHostRpc
<1>8. CASE RepHostRpcFails(s)
  BY <1>8 DEF RepHostRpcFails
<1>9. CASE RepHostReply(s)
  BY <1>9 DEF RepHostReply
<1>10. CASE RepHostStore(s)
  BY <1>10 DEF RepHostStore
<1>11. CASE RepIpSkip(s)
  BY <1>11 DEF RepIpSkip
<1>12. CASE RepIp(s)
  BY <1>12 DEF RepIp
<1>13. CASE RepFetch(s)
  BY <1>13 DEF RepFetch
<1>14. CASE RepFetchSame(s)
  BY <1>14 DEF RepFetchSame
<1>15. CASE RepGeoFails(s)
  BY <1>15 DEF RepGeoFails
<1>16. CASE RepGeoRpc(s)
  BY <1>16 DEF RepGeoRpc
<1>17. CASE RepGeoReply(s)
  BY <1>17 DEF RepGeoReply
<1>18. CASE RepGeoStore(s)
  BY <1>18 DEF RepGeoStore
<1>19. CASE RepWake(s)
  BY <1>19 DEF RepWake
<1>20. QED
  BY <1>1, <1>2, <1>3, <1>4, <1>5, <1>6, <1>7, <1>8, <1>9, <1>10, <1>11, <1>12, <1>13, <1>14, <1>15, <1>16, <1>17, <1>18, <1>19 DEF Report

LEMMA TaskFrame ==
  ASSUME NEW s \in Slots,
         RecvTask(s) \/ RecvFails(s) \/ RunTask(s) \/ AdmitConfig(s) \/ RefuseConfig(s)
  PROVE  UNCHANGED <<dashVars, mainVars, geoVars, flagVars, daemonVars, reloadVars>>
  BY DEF RecvTask, RecvFails, RunTask, AdmitConfig, RefuseConfig, EndTask, dashVars, mainVars, geoVars,
         flagVars, daemonVars, reloadVars

-----------------------------------------------------------------------------
(* Reconfiguration. *)

ReloadInv == NoLostUpdate /\ NoLostReload

LEMMA InitReloadInv == Init => ReloadInv
  BY DEF Init, ReloadInv, NoLostUpdate, NoLostReload, InSession

LEMMA NextReloadInv == TypeOK /\ ReloadInv /\ [Next]_vars => ReloadInv'
<1> SUFFICES ASSUME TypeOK, ReloadInv, [Next]_vars PROVE ReloadInv'
  OBVIOUS
<1> USE DEF ReloadInv, NoLostUpdate, NoLostReload, InSession
<1>1. CASE UNCHANGED <<mainVars, reloadVars>>
  BY <1>1 DEF mainVars, reloadVars
<1>2. CASE Main
  <2>1. UNCHANGED <<cfg, base, timer, reloadStatus>>
    BY <1>2 DEF Main, MainWake, MainDial, MainDialFails, MainInfo, MainInfoFails,
       MainStore, MainTasks, MainState, MainStreamFails, MainReload,
       MainWorkerExit, reloadVars
  <2>2. pc' \in {"sleep", "dial"} \/ (sessCfg' = sessCfg /\ InSession /\ senders' = senders)
          \/ sessCfg' = cfg
    BY <1>2 DEF Main, MainWake, MainDial, MainDialFails, MainInfo, MainInfoFails,
       MainStore, MainTasks, MainState, MainStreamFails, MainReload,
       MainWorkerExit, reloadVars, Retry
  <2>3. QED
    BY <2>1, <2>2
<1>3. CASE TimerApply
  BY <1>3 DEF TimerApply, mainVars
<1>4. CASE TimerFinish
  BY <1>4 DEF TimerFinish, mainVars, TypeOK, ConfigOK
<1>5. ASSUME NEW s \in Slots, ApplyConfig(s) PROVE ReloadInv'
  BY <1>5 DEF ApplyConfig, mainVars
<1>6. QED
  <2>1. DashboardRestart => UNCHANGED <<mainVars, reloadVars>>
    BY DEF DashboardRestart
  <2>2. ASSUME NEW s \in Slots, Session(s)
        PROVE ApplyConfig(s) \/ UNCHANGED <<mainVars, reloadVars>>
    BY <2>2, ReportFrame, TaskFrame DEF Session
  <2>3. UNCHANGED vars => UNCHANGED <<mainVars, reloadVars>>
    BY DEF vars, mainVars, reloadVars
  <2>4. QED
    BY <1>1, <1>2, <1>3, <1>4, <1>5, <2>1, <2>2, <2>3 DEF Next

LEMMA ReloadInvCorrect == Spec => []ReloadInv
<1>1. Spec => []TypeOK
  BY TypeCorrect
<1>2. QED
  BY <1>1, InitReloadInv, NextReloadInv, PTL DEF Spec

\* No reconfiguration overtakes another one (handleApplyConfigTask).
THEOREM UpdatesAreNotLost == Spec => []NoLostUpdate
<1>1. ReloadInv => NoLostUpdate
  BY DEF ReloadInv
<1>2. QED
  BY <1>1, ReloadInvCorrect, PTL

\* A session with an outdated configuration is going to be replaced: the signal of
\* the timer callback is never lost, wherever the main loop is.
THEOREM ReloadsAreNotLost == Spec => []NoLostReload
<1>1. ReloadInv => NoLostReload
  BY DEF ReloadInv
<1>2. QED
  BY <1>1, ReloadInvCorrect, PTL

\* Every handler that was let in, and the one whose timer runs, found commands
\* enabled, in the configuration of now or an earlier one.
LockInv ==
  /\ \A s \in Slots : \A c \in 1..MaxConfig :
       admitted[s][c] > 0 => c \notin LockedConfigs /\ c <= cfg
  /\ timer = "armed" => carrier \notin LockedConfigs /\ carrier <= cfg

LEMMA InitLockInv == Init => LockInv
  BY DEF Init, LockInv

LEMMA NextLockInv == TypeInv /\ LockInv /\ [Next]_vars => LockInv'
<1> SUFFICES ASSUME TypeInv, LockInv, [Next]_vars PROVE LockInv'
  OBVIOUS
<1> USE BoundsAssumption DEF LockInv, TypeInv, TypeOK, SessionsOK, ConfigOK
<1>1. ASSUME UNCHANGED <<admitted, cfg, timer, carrier>> PROVE LockInv'
  BY <1>1
<1>2. CASE DashboardRestart \/ Main \/ UNCHANGED vars
  BY <1>1, <1>2 DEF DashboardRestart, Main, MainWake, MainDial, MainDialFails, MainInfo,
     MainInfoFails, MainStore, MainTasks, MainState, MainStreamFails, MainReload,
     MainWorkerExit, taskVars, reloadVars, vars
<1>3. CASE TimerApply \/ TimerFinish
  <2>1. UNCHANGED admitted /\ timer' # "armed" /\ cfg' \in {cfg, cfg + 1}
    BY <1>3 DEF TimerApply, TimerFinish, taskVars
  <2>2. QED
    BY <2>1
<1>4. ASSUME NEW s \in Slots, RecvTask(s) \/ RecvFails(s) \/ RunTask(s) \/ Report(s)
      PROVE  LockInv'
  BY <1>1, <1>4, ReportFrame, TaskFrame DEF RecvTask, RecvFails, RunTask, taskVars, reloadVars
<1>5. ASSUME NEW s \in Slots, AdmitConfig(s) PROVE LockInv'
  <2>1. UNCHANGED reloadVars /\ cfg \notin LockedConfigs
    BY <1>5, TaskFrame DEF AdmitConfig
  <2>2. ASSUME NEW t \in Slots, NEW c \in 1..MaxConfig, admitted'[t][c] > 0
        PROVE  c \notin LockedConfigs /\ c <= cfg
    <3>1. admitted' = [admitted EXCEPT ![s] = [admitted[s] EXCEPT ![cfg] = @ + 1]]
      BY <1>5 DEF AdmitConfig
    <3>2. c = cfg \/ admitted[t][c] > 0
      BY <2>2, <3>1
    <3>3. QED
      BY <2>1, <3>2
  <2>3. QED
    BY <2>1, <2>2 DEF reloadVars
<1>6. ASSUME NEW s \in Slots, NEW c \in 1..MaxConfig, admitted[s][c] > 0,
             admitted' = [admitted EXCEPT ![s][c] = @ - 1]
      PROVE  \A t \in Slots : \A d \in 1..MaxConfig :
               admitted'[t][d] > 0 => d \notin LockedConfigs /\ d <= cfg
  BY <1>6
<1>7. ASSUME NEW s \in Slots, RefuseConfig(s) PROVE LockInv'
  BY <1>6, <1>7, TaskFrame DEF RefuseConfig, reloadVars
<1>8. ASSUME NEW s \in Slots, ApplyConfig(s) PROVE LockInv'
  <2>1. PICK c \in 1..MaxConfig :
          /\ admitted[s][c] > 0
          /\ admitted' = [admitted EXCEPT ![s][c] = @ - 1]
          /\ carrier' = c
    BY <1>8 DEF ApplyConfig
  <2>2. cfg' = cfg
    BY <1>8 DEF ApplyConfig
  <2>3. QED
    BY <1>6, <2>1, <2>2
<1>9. QED
  BY <1>2, <1>3, <1>4, <1>5, <1>7, <1>8 DEF Next, Session

\* A configuration that disables commands is replaced only by a task that was let
\* in before it came into force (main.go:934-960).
THEOREM LocksStopLaterTasks == Spec => LockStopsLaterTasks
<1>1. Spec => []TypeInv
  BY InitTypeInv, NextTypeInv, PTL DEF Spec
<1>2. Spec => []LockInv
  BY <1>1, InitLockInv, NextLockInv, PTL DEF Spec
<1>3. TypeInv /\ ReloadInv /\ LockInv /\ [Next]_vars =>
        [cfg' # cfg /\ cfg \in LockedConfigs =>
           carrier < cfg /\ carrier \notin LockedConfigs]_vars
  <2> SUFFICES ASSUME TypeInv, LockInv, Next, cfg' # cfg, cfg \in LockedConfigs
               PROVE  carrier < cfg /\ carrier \notin LockedConfigs
    BY DEF vars, reloadVars
  <2>1. CASE DashboardRestart \/ TimerFinish
    BY <2>1 DEF DashboardRestart, TimerFinish, reloadVars
  <2>2. CASE Main
    BY <2>2 DEF Main, MainWake, MainDial, MainDialFails, MainInfo, MainInfoFails,
       MainStore, MainTasks, MainState, MainStreamFails, MainReload,
       MainWorkerExit, reloadVars
  <2>3. CASE TimerApply
    BY <2>3 DEF TimerApply, LockInv, TypeInv, TypeOK, ConfigOK
  <2>4. ASSUME NEW s \in Slots, Session(s) PROVE cfg' = cfg
    BY <2>4, ReportFrame, TaskFrame DEF Session, ApplyConfig, reloadVars
  <2>5. QED
    BY <2>1, <2>2, <2>3, <2>4 DEF Next
<1>4. QED
  BY <1>1, <1>2, <1>3, ReloadInvCorrect, PTL DEF Spec, LockStopsLaterTasks

-----------------------------------------------------------------------------
(* Sessions. *)

LEMMA InitOrphan == Init => NoOrphanSession
  BY DEF Init, NoOrphanSession

LEMMA NextOrphan == TypeOK /\ NoOrphanSession /\ [Next]_vars => NoOrphanSession'
<1> SUFFICES ASSUME TypeOK, NoOrphanSession, [Next]_vars PROVE NoOrphanSession'
  OBVIOUS
<1> USE DEF NoOrphanSession, TypeOK, SessionsOK
<1>1. ASSUME UNCHANGED mainVars,
             ctx' = ctx \/ \E s \in Slots : ctx' = [ctx EXCEPT ![s] = "cancelled"]
      PROVE  NoOrphanSession'
  BY <1>1 DEF mainVars
<1>2. ASSUME NEW s \in Slots, Session(s) PROVE NoOrphanSession'
  <2>1. UNCHANGED mainVars
    BY <1>2, ReportFrame, TaskFrame DEF Session, ApplyConfig, mainVars
  <2>2. ctx' = ctx \/ ctx' = [ctx EXCEPT ![s] = "cancelled"]
    BY <1>2, ReportCtx
    DEF Session, RecvTask, RecvFails, RunTask, AdmitConfig, RefuseConfig, ApplyConfig, EndTask
  <2>3. QED
    BY <1>1, <2>1, <2>2
<1>3. CASE DashboardRestart \/ TimerApply \/ TimerFinish \/ UNCHANGED vars
  BY <1>3, <1>1 DEF DashboardRestart, TimerApply, TimerFinish, vars
<1>4. CASE MainWake
  BY <1>4 DEF MainWake
<1>5. ASSUME NEW s \in Slots, MainDial(s) PROVE NoOrphanSession'
  BY <1>5 DEF MainDial
<1>6. CASE MainDialFails \/ MainInfoFails \/ MainWorkerExit
  BY <1>6 DEF MainDialFails, MainInfoFails, MainWorkerExit, Retry
<1>7. CASE MainInfo
  BY <1>7 DEF MainInfo
<1>8. CASE MainStore
  BY <1>8 DEF MainStore
<1>9. CASE MainTasks \/ MainState
  BY <1>9 DEF MainTasks, MainState
<1>10. CASE MainStreamFails \/ MainReload
  BY <1>10 DEF MainStreamFails, MainReload, Retry
<1>11. QED
  BY <1>2, <1>3, <1>4, <1>5, <1>6, <1>7, <1>8, <1>9, <1>10 DEF Next, Main

\* run() leaves no session behind with a live context.
THEOREM SessionsAreNotOrphaned == Spec => []NoOrphanSession
  BY TypeCorrect, InitOrphan, NextOrphan, PTL DEF Spec

\* What a step of the session's own goroutines does to its context.
CancelsOwn(s) ==
  /\ ctx' = [ctx EXCEPT ![s] = "cancelled"]
  /\ ctx[s] = "live" =>
       \/ recv[s] = "run" /\ recv'[s] = "exit"
       \/ rep[s] # "exit" /\ rep'[s] = "exit"
       \/ TaskEnds(s)

LEMMA ReportIsolated ==
  ASSUME TypeOK, NEW s \in Slots, Report(s)
  PROVE  ctx' = ctx \/ CancelsOwn(s)
<1>1. CASE RepTopExit(s) \/ RepSendFails(s)
  <2>1. /\ ctx' = [ctx EXCEPT ![s] = "cancelled"]
        /\ rep[s] \in {"top", "send"} /\ rep' = [rep EXCEPT ![s] = "exit"]
    BY <1>1 DEF RepTopExit, RepSendFails, RepExit
  <2>2. QED
    BY <2>1 DEF TypeOK, SessionsOK, CancelsOwn
<1>2. CASE ~(RepTopExit(s) \/ RepSendFails(s))
  BY <1>2 DEF Report, RepTop, RepSend, RepHostSkip, RepHost, RepHostRpc, RepHostRpcFails,
         RepHostReply, RepHostStore, RepIpSkip, RepIp, RepFetch, RepFetchSame, RepGeoFails,
         RepGeoRpc, RepGeoReply, RepGeoStore, RepWake, RepGoto
<1>3. QED
  BY <1>1, <1>2

\* The actions of the goroutines that run tasks, and of the daemon that starts them.
TaskStep(s) ==
  \/ RecvTask(s)
  \/ RecvFails(s)
  \/ RunTask(s)
  \/ AdmitConfig(s)
  \/ RefuseConfig(s)
  \/ ApplyConfig(s)

LEMMA TaskIsolated ==
  ASSUME TypeOK, NEW s \in Slots, TaskStep(s)
  PROVE  ctx' = ctx \/ CancelsOwn(s)
<1>1. CASE RecvTask(s) \/ AdmitConfig(s)
  BY <1>1 DEF RecvTask, AdmitConfig
<1>2. CASE RecvFails(s)
  BY <1>2 DEF RecvFails, CancelsOwn, TypeOK, SessionsOK
<1>3. CASE RunTask(s)
  <2>1. tasks'[s] < tasks[s]
    BY <1>3 DEF RunTask, TypeOK, SessionsOK
  <2>2. QED
    BY <1>3, <2>1 DEF RunTask, EndTask, CancelsOwn, TaskEnds
<1>4. CASE RefuseConfig(s) \/ ApplyConfig(s)
  <2>1. PICK c \in 1..MaxConfig :
          admitted[s][c] > 0 /\ admitted' = [admitted EXCEPT ![s][c] = @ - 1]
    BY <1>4 DEF RefuseConfig, ApplyConfig
  <2>2. admitted'[s][c] < admitted[s][c]
    <3>1. admitted' = [admitted EXCEPT ![s] = [admitted[s] EXCEPT ![c] = @ - 1]]
      BY <2>1
    <3>2. admitted'[s][c] = admitted[s][c] - 1
      BY <3>1 DEF TypeOK, SessionsOK
    <3>3. admitted[s][c] \in Nat
      BY DEF TypeOK, SessionsOK
    <3>4. QED
      BY <3>2, <3>3
  <2>3. QED
    BY <1>4, <2>2 DEF RefuseConfig, ApplyConfig, EndTask, CancelsOwn, TaskEnds
<1>5. QED
  BY <1>1, <1>2, <1>3, <1>4 DEF TaskStep

LEMMA MainIsolated ==
  ASSUME TypeOK, Main, NEW s \in Slots, ctx[s] = "live", ctx'[s] = "cancelled"
  PROVE  s = sess /\ pc' = "sleep"
<1>1. CASE MainStreamFails \/ MainReload
  BY <1>1 DEF MainStreamFails, MainReload, Retry, TypeOK, SessionsOK
<1>2. CASE MainStore \/ \E t \in Slots : MainDial(t)
  BY <1>2 DEF MainStore, MainDial, TypeOK, SessionsOK
<1>3. QED
  BY <1>1, <1>2 DEF Main, MainWake, MainDialFails, MainInfo, MainInfoFails, MainTasks, MainState,
         MainWorkerExit

\* However many daemons and tasks of earlier sessions are left, none of them takes the
\* current session down (main.go:463-490, 533-544).
THEOREM SessionsAreIsolated == Spec => SessionIsolation
<1> DEFINE Isolated ==
      \A s \in Slots :
        ctx[s] = "live" /\ ctx'[s] = "cancelled" =>
          \/ recv[s] = "run" /\ recv'[s] = "exit"
          \/ rep[s] # "exit" /\ rep'[s] = "exit"
          \/ TaskEnds(s)
          \/ s = sess /\ pc' = "sleep"
<1>1. TypeOK /\ [Next]_vars => Isolated
  <2> SUFFICES ASSUME TypeOK, [Next]_vars, NEW s \in Slots,
                      ctx[s] = "live", ctx'[s] = "cancelled"
               PROVE  \/ recv[s] = "run" /\ recv'[s] = "exit"
                      \/ rep[s] # "exit" /\ rep'[s] = "exit"
                      \/ TaskEnds(s)
                      \/ s = sess /\ pc' = "sleep"
    OBVIOUS
  <2>1. ASSUME NEW t \in Slots, Session(t) PROVE ctx' = ctx \/ CancelsOwn(t)
    BY <2>1, ReportIsolated, TaskIsolated DEF Session, TaskStep
  <2>2. ctx' # ctx
    OBVIOUS
  <2>3. CASE Main
    BY <2>3, MainIsolated
  <2>4. CASE \E t \in Slots : Session(t)
    <3>1. PICK t \in Slots : CancelsOwn(t)
      BY <2>1, <2>2, <2>4
    <3>2. t = s
      BY <3>1 DEF CancelsOwn, TypeOK, SessionsOK
    <3>3. QED
      BY <3>1, <3>2 DEF CancelsOwn
  <2>5. QED
    BY <2>2, <2>3, <2>4 DEF Next, vars, DashboardRestart, TimerApply, TimerFinish
<1>2. QED
  BY <1>1, TypeCorrect, PTL DEF Spec, SessionIsolation

-----------------------------------------------------------------------------
(* hostStatus and ipStatus. *)

\* A session whose reportStateDaemon does not run yet.
FreshSession ==
  pc \in {"info", "store", "tasks", "state"} => rep[sess] = "none"

FlightInv == SingleFlight /\ FreshSession

LEMMA InitFlightInv == Init => FlightInv
  BY DEF Init, FlightInv, SingleFlight, FreshSession, InHost, InGeo

\* A step of the main loop or of somebody else moves no daemon into a report.
LEMMA MainFlight ==
  ASSUME TypeOK, FlightInv, Main
  PROVE  FlightInv'
<1> USE DEF TypeOK, SessionsOK, FlightInv, SingleFlight, FreshSession, InHost, InGeo
<1>1. ASSUME NEW s \in Slots, MainDial(s) PROVE FlightInv'
  BY <1>1 DEF MainDial, Finished, DaemonsGone, flagVars
<1>2. CASE MainState
  BY <1>2 DEF MainState, flagVars
<1>3. CASE MainWake \/ MainTasks \/ MainInfo \/ MainStore
  BY <1>3 DEF MainWake, MainTasks, MainInfo, MainStore, flagVars, daemonVars
<1>4. CASE MainDialFails \/ MainInfoFails \/ MainStreamFails \/ MainReload \/ MainWorkerExit
  BY <1>4 DEF MainDialFails, MainInfoFails, MainStreamFails, MainReload,
     MainWorkerExit, Retry, daemonVars
<1>5. QED
  BY <1>1, <1>2, <1>3, <1>4 DEF Main

LEMMA ReportFlight ==
  ASSUME TypeOK, FlightInv, NEW s \in Slots, Report(s)
  PROVE  FlightInv'
<1> USE DEF TypeOK, SessionsOK, FlagsOK, FlightInv, SingleFlight, FreshSession, InHost,
        InGeo, flagVars, mainVars, RepGoto, RepExit, LeaveGeoIP
<1>1. CASE RepTop(s)
  BY <1>1 DEF RepTop
<1>2. CASE RepTopExit(s)
  BY <1>2 DEF RepTopExit
<1>3. CASE RepSend(s)
  BY <1>3 DEF RepSend
<1>4. CASE RepSendFails(s)
  BY <1>4 DEF RepSendFails
<1>5. CASE RepHostSkip(s)
  BY <1>5 DEF RepHostSkip
<1>6. CASE RepHost(s)
  BY <1>6 DEF RepHost
<1>7. CASE RepHostRpc(s)
  BY <1>7 DEF RepHostRpc
<1>8. CASE RepHostRpcFails(s)
  BY <1>8 DEF RepHostRpcFails
<1>9. CASE RepHostReply(s)
  BY <1>9 DEF RepHostReply
<1>10. CASE RepHostStore(s)
  BY <1>10 DEF RepHostStore
<1>11. CASE RepIpSkip(s)
  BY <1>11 DEF RepIpSkip
<1>12. CASE RepIp(s)
  BY <1>12 DEF RepIp
<1>13. CASE RepFetch(s)
  BY <1>13 DEF RepFetch
<1>14. CASE RepFetchSame(s)
  BY <1>14 DEF RepFetchSame
<1>15. CASE RepGeoFails(s)
  BY <1>15 DEF RepGeoFails
<1>16. CASE RepGeoRpc(s)
  BY <1>16 DEF RepGeoRpc
<1>17. CASE RepGeoReply(s)
  BY <1>17 DEF RepGeoReply
<1>18. CASE RepGeoStore(s)
  BY <1>18 DEF RepGeoStore
<1>19. CASE RepWake(s)
  BY <1>19 DEF RepWake
<1>20. QED
  BY <1>1, <1>2, <1>3, <1>4, <1>5, <1>6, <1>7, <1>8, <1>9, <1>10, <1>11, <1>12, <1>13, <1>14, <1>15, <1>16, <1>17, <1>18, <1>19 DEF Report

LEMMA NextFlightInv == TypeOK /\ FlightInv /\ [Next]_vars => FlightInv'
<1> SUFFICES ASSUME TypeOK, FlightInv, [Next]_vars PROVE FlightInv'
  OBVIOUS
<1>1. ASSUME UNCHANGED <<pc, sess, rep, hostStatus, ipStatus>> PROVE FlightInv'
  BY <1>1 DEF FlightInv, SingleFlight, FreshSession, InHost, InGeo
<1>2. CASE DashboardRestart \/ TimerApply \/ TimerFinish \/ UNCHANGED vars
  BY <1>1, <1>2
  DEF DashboardRestart, TimerApply, TimerFinish, vars, mainVars, flagVars, daemonVars
<1>3. ASSUME NEW s \in Slots, TaskStep(s)
      PROVE  FlightInv'
  BY <1>1, <1>3, TaskFrame DEF TaskStep, ApplyConfig, mainVars, flagVars, daemonVars
<1>4. QED
  BY <1>2, <1>3, MainFlight, ReportFlight DEF Next, Session, TaskStep

\* The CompareAndSwap guards of reportHost and reportGeoIP exclude all daemons but
\* one, however many sessions overlap, and are always given back.
THEOREM ReportsAreExclusive == Spec => []SingleFlight
<1>1. FlightInv => SingleFlight
  BY DEF FlightInv
<1>2. QED
  BY <1>1, TypeCorrect, InitFlightInv, NextFlightInv, PTL DEF Spec

-----------------------------------------------------------------------------
(* geoipReported. *)

\* Whoever is going to set geoipReported, and whoever may find the address
\* unchanged, comes after a report that a dashboard received.
GeoInv ==
  \/ geoKnown # {}
  \/ /\ ~geoipReported
     /\ ~keep
     /\ ipChanged
     /\ \A s \in Slots : rep[s] \notin {"geoReply", "geoStore"} /\ ~keepHost[s]

LEMMA InitGeoInv == Init => GeoInv
  BY DEF Init, GeoInv

LEMMA MainGeo ==
  ASSUME TypeOK, GeoInv, Main
  PROVE  GeoInv'
<1> USE DEF TypeOK, SessionsOK, FlagsOK, GeoInv
<1>1. ASSUME NEW s \in Slots, MainDial(s) PROVE GeoInv'
  BY <1>1 DEF MainDial, flagVars, geoVars, dashVars
<1>2. CASE MainState
  BY <1>2 DEF MainState, flagVars, geoVars, dashVars
<1>3. CASE MainWake \/ MainTasks \/ MainInfo \/ MainStore
  BY <1>3
  DEF MainWake, MainTasks, MainInfo, MainStore, flagVars, daemonVars, geoVars, dashVars
<1>4. CASE MainDialFails \/ MainInfoFails \/ MainStreamFails \/ MainReload \/ MainWorkerExit
  BY <1>4 DEF MainDialFails, MainInfoFails, MainStreamFails, MainReload,
     MainWorkerExit, Retry, daemonVars, geoVars, dashVars
<1>5. QED
  BY <1>1, <1>2, <1>3, <1>4 DEF Main

LEMMA ReportGeo ==
  ASSUME TypeOK, GeoInv, NEW s \in Slots, Report(s)
  PROVE  GeoInv'
<1> USE DEF TypeOK, SessionsOK, FlagsOK, GeoInv, flagVars, mainVars, geoVars, dashVars,
        RepGoto, RepExit, LeaveGeoIP
<1>1. CASE RepTop(s)
  BY <1>1 DEF RepTop
<1>2. CASE RepTopExit(s)
  BY <1>2 DEF RepTopExit
<1>3. CASE RepSend(s)
  BY <1>3 DEF RepSend
<1>4. CASE RepSendFails(s)
  BY <1>4 DEF RepSendFails
<1>5. CASE RepHostSkip(s)
  BY <1>5 DEF RepHostSkip
<1>6. CASE RepHost(s)
  BY <1>6 DEF RepHost
<1>7. CASE RepHostRpc(s)
  BY <1>7 DEF RepHostRpc
<1>8. CASE RepHostRpcFails(s)
  BY <1>8 DEF RepHostRpcFails
<1>9. CASE RepHostReply(s)
  BY <1>9 DEF RepHostReply
<1>10. CASE RepHostStore(s)
  BY <1>10 DEF RepHostStore
<1>11. CASE RepIpSkip(s)
  BY <1>11 DEF RepIpSkip
<1>12. CASE RepIp(s)
  BY <1>12 DEF RepIp
<1>13. CASE RepFetch(s)
  <2>1. UNCHANGED <<geoKnown, geoipReported, keep, keepHost>>
    BY <1>13 DEF RepFetch
  <2>2. rep' = [rep EXCEPT ![s] = "geoRpc"]
    BY <1>13 DEF RepFetch
  <2>3. ipChanged => ipChanged'
    BY <1>13, Zenon DEF RepFetch
  <2>4. QED
    BY <2>1, <2>2, <2>3
<1>14. CASE RepFetchSame(s)
  BY <1>14 DEF RepFetchSame
<1>15. CASE RepGeoFails(s)
  BY <1>15 DEF RepGeoFails
<1>16. CASE RepGeoRpc(s)
  BY <1>16 DEF RepGeoRpc
<1>17. CASE RepGeoReply(s)
  BY <1>17 DEF RepGeoReply
<1>18. CASE RepGeoStore(s)
  BY <1>18 DEF RepGeoStore
<1>19. CASE RepWake(s)
  BY <1>19 DEF RepWake
<1>20. QED
  BY <1>1, <1>2, <1>3, <1>4, <1>5, <1>6, <1>7, <1>8, <1>9, <1>10, <1>11, <1>12, <1>13, <1>14, <1>15, <1>16, <1>17, <1>18, <1>19 DEF Report

LEMMA NextGeoInv == TypeOK /\ GeoInv /\ [Next]_vars => GeoInv'
<1> SUFFICES ASSUME TypeOK, GeoInv, [Next]_vars PROVE GeoInv'
  OBVIOUS
<1>1. ASSUME UNCHANGED <<geoKnown, keep, ipChanged, rep, keepHost>>,
             geoipReported' => geoipReported
      PROVE GeoInv'
  BY <1>1 DEF GeoInv
<1>2. CASE DashboardRestart \/ TimerApply \/ TimerFinish \/ UNCHANGED vars
  BY <1>1, <1>2
  DEF DashboardRestart, TimerApply, TimerFinish, vars, dashVars, mainVars, geoVars,
      flagVars, daemonVars
<1>3. ASSUME NEW s \in Slots, TaskStep(s)
      PROVE  GeoInv'
  BY <1>1, <1>3, TaskFrame
  DEF TaskStep, ApplyConfig, dashVars, mainVars, geoVars, flagVars, daemonVars
<1>4. QED
  BY <1>2, <1>3, MainGeo, ReportGeo DEF Next, Session, TaskStep

\* geoipReported is never set before any dashboard received the address.
THEOREM GeoIsReported == Spec => []GeoEverReported
<1>1. TypeOK /\ GeoInv => GeoEverReported
  BY DEF GeoInv, GeoEverReported
<1>2. QED
  BY <1>1, TypeCorrect, InitGeoInv, NextGeoInv, PTL DEF Spec
=============================================================================
