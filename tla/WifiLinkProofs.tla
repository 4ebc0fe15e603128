--------------------------- MODULE WifiLinkProofs ---------------------------
(***************************************************************************)
(* Proofs about WifiLink, for every set of networks and callers, every     *)
(* bound and every scheduling (Prompt or not): types, the exclusion of the *)
(* operations, the storage of a trial, and that the whole implements the   *)
(* credential store.  They rest on the inductive invariant IInv: the first *)
(* lemmas show its type part step by step, the next ones its other parts.  *)
(* The last section is about prompt scheduling with the reconnect timer:   *)
(* the supervisor stays out of a trial, and only a network that was proved *)
(* reaches the flash.  It rests on AwayInv beside IInv.                    *)
(***************************************************************************)
EXTENDS WifiLink, TLAPS

\* The initial state satisfies the inductive invariant.
LEMMA InitIInv == Init => IInv
<1> SUFFICES ASSUME Init PROVE IInv
  OBVIOUS
<1> USE WifiAssumption DEF Init, Configs, Down
<1>1. TypeOK
  <2>1. evq \in Seq({"start", "disc", "ip"}) /\ Len(evq) <= MaxEvents
    <3>1. MaxEvents >= 1
      OBVIOUS
    <3> QED BY <3>1
  <2>2. at \in [Callers -> Points]
    BY DEF Points, Waiting
  <2>3. sta \in [st : {"down", "connecting", "up"}, ap : Configs]
    OBVIOUS
  <2>4. /\ flash \in Configs /\ drv \in Configs /\ storage \in {"flash", "ram"} 
        /\ bits \subseteq Bits  /\ lock \in Callers \cup {Free} /\ cand \in Configs /\ prev \in Configs
    OBVIOUS
  <2>5. retries \in 0..MaxRetries
    OBVIOUS
  <2>6. /\ hold \in BOOLEAN /\ joinActive \in BOOLEAN /\ supervisor \in BOOLEAN 
    OBVIOUS
  <2>7. booted \in BOOLEAN /\ err \in BOOLEAN /\ proved \in BOOLEAN
    OBVIOUS
  <2> QED
    BY <2>1, <2>2, <2>3, <2>4, <2>5, <2>6, <2>7 DEF TypeOK
<1>2. OneOperation
  BY DEF OneOperation, Owner, Waiting
<1>3. TrialInRam
  BY DEF TrialInRam, SwitchPoints
<1>4. OkMeansSaved
  BY DEF OkMeansSaved
<1>5. LocalsOfOwner
  BY DEF LocalsOfOwner, JoinPoints, SwitchPoints
<1>6. BeforeBoot
  BY DEF BeforeBoot
<1> QED
  BY <1>1, <1>2, <1>3, <1>4, <1>5, <1>6 DEF IInv

\* Every step keeps the types.
LEMMA TypeStep == TypeOK /\ [Next]_vars => TypeOK'
<1> SUFFICES ASSUME TypeOK, [Next]_vars PROVE TypeOK'
  OBVIOUS
<1> USE WifiAssumption DEF TypeOK, Configs, Points, Waiting, JoinPoints, SwitchPoints, Bits, Down,
      driverVars, flagVars, localVars, ConnectOk, ConnectRejected, CancelReconnect,
      ScheduleReconnect, Disconnect, TakeEvent, SetConfig, Step, Rollback, Release
<1>1. CASE Reset
  <2>1. at' \in [Callers -> Points]
    BY <1>1 DEF Reset
  <2>2. flash' \in Configs /\ drv' \in Configs /\ storage' \in {"flash", "ram"}
    BY <1>1 DEF Reset
  <2>3. sta' \in [st : {"down", "connecting", "up"}, ap : Configs]
    BY <1>1 DEF Reset
  <2>4. evq' \in Seq({"start", "disc", "ip"}) /\ Len(evq') <= MaxEvents
    BY <1>1 DEF Reset
  <2>5. bits' \subseteq Bits /\ retries' \in 0..MaxRetries /\ timer' \in {"idle", "armed"}
    BY <1>1 DEF Reset
  <2>6. hold' \in BOOLEAN /\ joinActive' \in BOOLEAN /\ supervisor' \in BOOLEAN /\ booted' \in BOOLEAN
    BY <1>1 DEF Reset
  <2>7. lock' \in Callers \cup {Free} /\ evt' \in {"idle", "hold", "retry", "schedule", "ack"} /\ cb' \in {"idle", "connect"}
    BY <1>1 DEF Reset
  <2>8. cand' \in Configs /\ prev' \in Configs /\ back' \in {"stage", "restore", "erase"}
    BY <1>1 DEF Reset
  <2>9. err' \in BOOLEAN /\ proved' \in BOOLEAN
    BY <1>1 DEF Reset
  <2> QED BY <2>1, <2>2, <2>3, <2>4, <2>5, <2>6, <2>7, <2>8, <2>9
<1>2. CASE Provision
  BY <1>2 DEF Provision
<1>3. CASE LinkUp
  <2>1. at' \in [Callers -> Points]
    BY <1>3 DEF LinkUp
  <2>2. flash' \in Configs /\ drv' \in Configs /\ storage' \in {"flash", "ram"}
    BY <1>3 DEF LinkUp
  <2>3. sta' \in [st : {"down", "connecting", "up"}, ap : Configs]
    BY <1>3 DEF LinkUp
  <2>4. evq' \in Seq({"start", "disc", "ip"}) /\ Len(evq') <= MaxEvents
    BY <1>3 DEF LinkUp
  <2>5. bits' \subseteq Bits /\ retries' \in 0..MaxRetries /\ timer' \in {"idle", "armed"}
    BY <1>3 DEF LinkUp
  <2>6. hold' \in BOOLEAN /\ joinActive' \in BOOLEAN /\ supervisor' \in BOOLEAN /\ booted' \in BOOLEAN
    BY <1>3 DEF LinkUp
  <2>7. /\ lock' \in Callers \cup {Free} /\ evt' \in {"idle", "hold", "retry", "schedule", "ack"}
        /\ cb' \in {"idle", "connect"}
    BY <1>3 DEF LinkUp
  <2>8. cand' \in Configs /\ prev' \in Configs /\ back' \in {"stage", "restore", "erase"}
    BY <1>3 DEF LinkUp
  <2>9. err' \in BOOLEAN /\ proved' \in BOOLEAN
    BY <1>3 DEF LinkUp
  <2> QED BY <2>1, <2>2, <2>3, <2>4, <2>5, <2>6, <2>7, <2>8, <2>9
<1>4. CASE LinkLost
  BY <1>4 DEF LinkLost
<1>5. CASE LinkSilentlyLost
  BY <1>5 DEF LinkSilentlyLost
<1>6. CASE HandleStart
  BY <1>6 DEF HandleStart
<1>7. CASE HandleDisconnected
  BY <1>7 DEF HandleDisconnected
<1>8. CASE HandleGotIp
  BY <1>8 DEF HandleGotIp
<1>9. CASE HandleHold
  BY <1>9 DEF HandleHold
<1>10. CASE HandleRetry
  <2>1. at' \in [Callers -> Points]
    BY <1>10 DEF HandleRetry
  <2>2. flash' \in Configs /\ drv' \in Configs /\ storage' \in {"flash", "ram"}
    BY <1>10 DEF HandleRetry
  <2>3. sta' \in [st : {"down", "connecting", "up"}, ap : Configs]
    BY <1>10 DEF HandleRetry
  <2>4. evq' \in Seq({"start", "disc", "ip"}) /\ Len(evq') <= MaxEvents
    BY <1>10 DEF HandleRetry
  <2>5. bits' \subseteq Bits /\ retries' \in 0..MaxRetries /\ timer' \in {"idle", "armed"}
    <3>1. bits' \subseteq Bits
      BY <1>10 DEF HandleRetry
    <3>2. retries' \in 0..MaxRetries
      BY <1>10 DEF HandleRetry
    <3>3. timer' \in {"idle", "armed"}
      BY <1>10 DEF HandleRetry
    <3> QED BY <3>1, <3>2, <3>3
  <2>6. hold' \in BOOLEAN /\ joinActive' \in BOOLEAN /\ supervisor' \in BOOLEAN /\ booted' \in BOOLEAN
    BY <1>10 DEF HandleRetry
  <2>7. lock' \in Callers \cup {Free} /\ evt' \in {"idle", "hold", "retry", "schedule", "ack"} /\ cb' \in {"idle", "connect"}
    BY <1>10 DEF HandleRetry
  <2>8. cand' \in Configs /\ prev' \in Configs /\ back' \in {"stage", "restore", "erase"}
    BY <1>10 DEF HandleRetry
  <2>9. err' \in BOOLEAN /\ proved' \in BOOLEAN
    BY <1>10 DEF HandleRetry
  <2> QED BY <2>1, <2>2, <2>3, <2>4, <2>5, <2>6, <2>7, <2>8, <2>9
<1>11. CASE HandleSchedule
  BY <1>11 DEF HandleSchedule
<1>12. CASE Acknowledge
  BY <1>12 DEF Acknowledge
<1>13. CASE TimerFires
  BY <1>13 DEF TimerFires
<1>14. CASE TimerConnects
  BY <1>14 DEF TimerConnects
<1>15. CASE WatchdogFires
  BY <1>15 DEF WatchdogFires
<1>16. CASE LinkSupervisor
  BY <1>16 DEF LinkSupervisor
<1>17. CASE LinkRetry
  BY <1>17 DEF LinkRetry
<1>18. ASSUME NEW c \in Callers, CallJoin(c) PROVE TypeOK'
  BY <1>18 DEF CallJoin
<1>19. ASSUME NEW c \in Callers, CallLeave(c) PROVE TypeOK'
  BY <1>19 DEF CallLeave
<1>20. ASSUME NEW c \in Callers, JoinLockTimeout(c) PROVE TypeOK'
  BY <1>20 DEF JoinLockTimeout
<1>21. ASSUME NEW c \in Callers, NEW n \in Nets, JoinLock(c, n) PROVE TypeOK'
  BY <1>21 DEF JoinLock
<1>22. ASSUME NEW c \in Callers, LeaveLock(c) PROVE TypeOK'
  BY <1>22 DEF LeaveLock
<1>23. ASSUME NEW c \in Callers, Snapshot(c) PROVE TypeOK'
  <2>1. at' \in [Callers -> Points]
    BY <1>23 DEF Snapshot
  <2>2. flash' \in Configs /\ drv' \in Configs /\ storage' \in {"flash", "ram"}
    BY <1>23 DEF Snapshot
  <2>3. sta' \in [st : {"down", "connecting", "up"}, ap : Configs]
    BY <1>23 DEF Snapshot
  <2>4. evq' \in Seq({"start", "disc", "ip"}) /\ Len(evq') <= MaxEvents
    BY <1>23 DEF Snapshot
  <2>5. bits' \subseteq Bits /\ retries' \in 0..MaxRetries /\ timer' \in {"idle", "armed"}
    BY <1>23 DEF Snapshot
  <2>6. hold' \in BOOLEAN /\ joinActive' \in BOOLEAN /\ supervisor' \in BOOLEAN /\ booted' \in BOOLEAN
    BY <1>23 DEF Snapshot
  <2>7. lock' \in Callers \cup {Free} /\ evt' \in {"idle", "hold", "retry", "schedule", "ack"} /\ cb' \in {"idle", "connect"}
    BY <1>23 DEF Snapshot
  <2>8. cand' \in Configs /\ prev' \in Configs /\ back' \in {"stage", "restore", "erase"}
    BY <1>23 DEF Snapshot
  <2>9. err' \in BOOLEAN /\ proved' \in BOOLEAN
    BY <1>23 DEF Snapshot
  <2> QED BY <2>1, <2>2, <2>3, <2>4, <2>5, <2>6, <2>7, <2>8, <2>9
<1>24. ASSUME NEW c \in Callers, SwitchHold(c) PROVE TypeOK'
  <2>1. at' \in [Callers -> Points]
    BY <1>24 DEF SwitchHold
  <2>2. flash' \in Configs /\ drv' \in Configs /\ storage' \in {"flash", "ram"}
    BY <1>24 DEF SwitchHold
  <2>3. sta' \in [st : {"down", "connecting", "up"}, ap : Configs]
    BY <1>24 DEF SwitchHold
  <2>4. evq' \in Seq({"start", "disc", "ip"}) /\ Len(evq') <= MaxEvents
    BY <1>24 DEF SwitchHold
  <2>5. bits' \subseteq Bits /\ retries' \in 0..MaxRetries /\ timer' \in {"idle", "armed"}
    BY <1>24 DEF SwitchHold
  <2>6. hold' \in BOOLEAN /\ joinActive' \in BOOLEAN /\ supervisor' \in BOOLEAN /\ booted' \in BOOLEAN
    BY <1>24 DEF SwitchHold
  <2>7. /\ lock' \in Callers \cup {Free} /\ evt' \in {"idle", "hold", "retry", "schedule", "ack"}
        /\ cb' \in {"idle", "connect"}
    BY <1>24 DEF SwitchHold
  <2>8. cand' \in Configs /\ prev' \in Configs /\ back' \in {"stage", "restore", "erase"}
    BY <1>24 DEF SwitchHold
  <2>9. err' \in BOOLEAN /\ proved' \in BOOLEAN
    BY <1>24 DEF SwitchHold
  <2> QED BY <2>1, <2>2, <2>3, <2>4, <2>5, <2>6, <2>7, <2>8, <2>9
<1>25. ASSUME NEW c \in Callers, SwitchDisconnect(c) PROVE TypeOK'
  <2>1. at' \in [Callers -> Points]
    BY <1>25 DEF SwitchDisconnect
  <2>2. flash' \in Configs /\ drv' \in Configs /\ storage' \in {"flash", "ram"}
    BY <1>25 DEF SwitchDisconnect
  <2>3. sta' \in [st : {"down", "connecting", "up"}, ap : Configs]
    BY <1>25 DEF SwitchDisconnect
  <2>4. evq' \in Seq({"start", "disc", "ip"}) /\ Len(evq') <= MaxEvents
    <3>1. CASE UNCHANGED evq
      BY <3>1
    <3>2. CASE Len(evq) < MaxEvents /\ evq' = Append(evq, "disc")
      <4>1. Len(evq) \in Nat /\ Len(evq') = Len(evq) + 1
        BY <3>2
      <4>2. evq' \in Seq({"start", "disc", "ip"})
        BY <3>2
      <4>. QED
        BY <3>2, <4>1, <4>2, WifiAssumption
    <3>. QED
      BY <1>25, <3>1, <3>2, Zenon DEF SwitchDisconnect
  <2>5. bits' \subseteq Bits /\ retries' \in 0..MaxRetries /\ timer' \in {"idle", "armed"}
    BY <1>25 DEF SwitchDisconnect
  <2>6. hold' \in BOOLEAN /\ joinActive' \in BOOLEAN /\ supervisor' \in BOOLEAN /\ booted' \in BOOLEAN
    BY <1>25 DEF SwitchDisconnect
  <2>7. /\ lock' \in Callers \cup {Free} /\ evt' \in {"idle", "hold", "retry", "schedule", "ack"}
        /\ cb' \in {"idle", "connect"}
    BY <1>25 DEF SwitchDisconnect
  <2>8. cand' \in Configs /\ prev' \in Configs /\ back' \in {"stage", "restore", "erase"}
    BY <1>25 DEF SwitchDisconnect
  <2>9. err' \in BOOLEAN /\ proved' \in BOOLEAN
    BY <1>25 DEF SwitchDisconnect
  <2> QED BY <2>1, <2>2, <2>3, <2>4, <2>5, <2>6, <2>7, <2>8, <2>9
<1>26. ASSUME NEW c \in Callers, SwitchAck(c) PROVE TypeOK'
  BY <1>26 DEF SwitchAck
<1>27. ASSUME NEW c \in Callers, Stage(c) PROVE TypeOK'
  <2>1. at' \in [Callers -> Points]
    BY <1>27 DEF Stage
  <2>2. flash' \in Configs /\ drv' \in Configs /\ storage' \in {"flash", "ram"}
    BY <1>27 DEF Stage
  <2>3. sta' \in [st : {"down", "connecting", "up"}, ap : Configs]
    BY <1>27 DEF Stage
  <2>4. evq' \in Seq({"start", "disc", "ip"}) /\ Len(evq') <= MaxEvents
    BY <1>27 DEF Stage
  <2>5. bits' \subseteq Bits /\ retries' \in 0..MaxRetries /\ timer' \in {"idle", "armed"}
    BY <1>27 DEF Stage
  <2>6. hold' \in BOOLEAN /\ joinActive' \in BOOLEAN /\ supervisor' \in BOOLEAN /\ booted' \in BOOLEAN
    BY <1>27 DEF Stage
  <2>7. lock' \in Callers \cup {Free} /\ evt' \in {"idle", "hold", "retry", "schedule", "ack"} /\ cb' \in {"idle", "connect"}
    BY <1>27 DEF Stage
  <2>8. cand' \in Configs /\ prev' \in Configs /\ back' \in {"stage", "restore", "erase"}
    BY <1>27 DEF Stage
  <2>9. err' \in BOOLEAN /\ proved' \in BOOLEAN
    BY <1>27 DEF Stage
  <2> QED BY <2>1, <2>2, <2>3, <2>4, <2>5, <2>6, <2>7, <2>8, <2>9
<1>28. ASSUME NEW c \in Callers, Try(c) PROVE TypeOK'
  <2>1. at' \in [Callers -> Points]
    BY <1>28 DEF Try
  <2>2. flash' \in Configs /\ drv' \in Configs /\ storage' \in {"flash", "ram"}
    BY <1>28 DEF Try
  <2>3. sta' \in [st : {"down", "connecting", "up"}, ap : Configs]
    BY <1>28 DEF Try
  <2>4. evq' \in Seq({"start", "disc", "ip"}) /\ Len(evq') <= MaxEvents
    BY <1>28 DEF Try
  <2>5. bits' \subseteq Bits /\ retries' \in 0..MaxRetries /\ timer' \in {"idle", "armed"}
    BY <1>28 DEF Try
  <2>6. hold' \in BOOLEAN /\ joinActive' \in BOOLEAN /\ supervisor' \in BOOLEAN /\ booted' \in BOOLEAN
    BY <1>28 DEF Try
  <2>7. lock' \in Callers \cup {Free} /\ evt' \in {"idle", "hold", "retry", "schedule", "ack"} /\ cb' \in {"idle", "connect"}
    BY <1>28 DEF Try
  <2>8. cand' \in Configs /\ prev' \in Configs /\ back' \in {"stage", "restore", "erase"}
    BY <1>28 DEF Try
  <2>9. err' \in BOOLEAN /\ proved' \in BOOLEAN
    BY <1>28 DEF Try
  <2> QED BY <2>1, <2>2, <2>3, <2>4, <2>5, <2>6, <2>7, <2>8, <2>9
<1>29. ASSUME NEW c \in Callers, Verdict(c) PROVE TypeOK'
  <2>1. at' \in [Callers -> Points]
    BY <1>29 DEF Verdict
  <2>2. flash' \in Configs /\ drv' \in Configs /\ storage' \in {"flash", "ram"}
    BY <1>29 DEF Verdict
  <2>3. sta' \in [st : {"down", "connecting", "up"}, ap : Configs]
    BY <1>29 DEF Verdict
  <2>4. evq' \in Seq({"start", "disc", "ip"}) /\ Len(evq') <= MaxEvents
    BY <1>29 DEF Verdict
  <2>5. bits' \subseteq Bits /\ retries' \in 0..MaxRetries /\ timer' \in {"idle", "armed"}
    BY <1>29 DEF Verdict
  <2>6. hold' \in BOOLEAN /\ joinActive' \in BOOLEAN /\ supervisor' \in BOOLEAN /\ booted' \in BOOLEAN
    BY <1>29 DEF Verdict
  <2>7. lock' \in Callers \cup {Free} /\ evt' \in {"idle", "hold", "retry", "schedule", "ack"} /\ cb' \in {"idle", "connect"}
    BY <1>29 DEF Verdict
  <2>8. cand' \in Configs /\ prev' \in Configs /\ back' \in {"stage", "restore", "erase"}
    BY <1>29 DEF Verdict
  <2>9. err' \in BOOLEAN /\ proved' \in BOOLEAN
    BY <1>29 DEF Verdict
  <2> QED BY <2>1, <2>2, <2>3, <2>4, <2>5, <2>6, <2>7, <2>8, <2>9
<1>30. ASSUME NEW c \in Callers, Commit(c) PROVE TypeOK'
  <2>1. at' \in [Callers -> Points]
    BY <1>30 DEF Commit
  <2>2. flash' \in Configs /\ drv' \in Configs /\ storage' \in {"flash", "ram"}
    BY <1>30 DEF Commit
  <2>3. sta' \in [st : {"down", "connecting", "up"}, ap : Configs]
    BY <1>30 DEF Commit
  <2>4. evq' \in Seq({"start", "disc", "ip"}) /\ Len(evq') <= MaxEvents
    BY <1>30 DEF Commit
  <2>5. bits' \subseteq Bits /\ retries' \in 0..MaxRetries /\ timer' \in {"idle", "armed"}
    BY <1>30 DEF Commit
  <2>6. hold' \in BOOLEAN /\ joinActive' \in BOOLEAN /\ supervisor' \in BOOLEAN /\ booted' \in BOOLEAN
    BY <1>30 DEF Commit
  <2>7. lock' \in Callers \cup {Free} /\ evt' \in {"idle", "hold", "retry", "schedule", "ack"} /\ cb' \in {"idle", "connect"}
    BY <1>30 DEF Commit
  <2>8. cand' \in Configs /\ prev' \in Configs /\ back' \in {"stage", "restore", "erase"}
    BY <1>30 DEF Commit
  <2>9. err' \in BOOLEAN /\ proved' \in BOOLEAN
    BY <1>30 DEF Commit
  <2> QED BY <2>1, <2>2, <2>3, <2>4, <2>5, <2>6, <2>7, <2>8, <2>9
<1>31. ASSUME NEW c \in Callers, Restore(c) PROVE TypeOK'
  <2>1. at' \in [Callers -> Points]
    BY <1>31 DEF Restore
  <2>2. flash' \in Configs /\ drv' \in Configs /\ storage' \in {"flash", "ram"}
    BY <1>31 DEF Restore
  <2>3. sta' \in [st : {"down", "connecting", "up"}, ap : Configs]
    BY <1>31 DEF Restore
  <2>4. evq' \in Seq({"start", "disc", "ip"}) /\ Len(evq') <= MaxEvents
    BY <1>31 DEF Restore
  <2>5. bits' \subseteq Bits /\ retries' \in 0..MaxRetries /\ timer' \in {"idle", "armed"}
    <3>1. bits' \subseteq Bits
      <4>1. bits' = bits \ {"connected", "fail"} \/ bits' = bits
        BY <1>31, ZenonT(40) DEF Restore
      <4>. QED
        BY <4>1
    <3>2. retries' \in 0..MaxRetries
      BY <1>31 DEF Restore
    <3>3. timer' \in {"idle", "armed"}
      BY <1>31 DEF Restore
    <3> QED BY <3>1, <3>2, <3>3
  <2>6. hold' \in BOOLEAN /\ joinActive' \in BOOLEAN /\ supervisor' \in BOOLEAN /\ booted' \in BOOLEAN
    BY <1>31 DEF Restore
  <2>7. lock' \in Callers \cup {Free} /\ evt' \in {"idle", "hold", "retry", "schedule", "ack"} /\ cb' \in {"idle", "connect"}
    BY <1>31 DEF Restore
  <2>8. cand' \in Configs /\ prev' \in Configs /\ back' \in {"stage", "restore", "erase"}
    BY <1>31 DEF Restore
  <2>9. err' \in BOOLEAN /\ proved' \in BOOLEAN
    BY <1>31 DEF Restore
  <2> QED BY <2>1, <2>2, <2>3, <2>4, <2>5, <2>6, <2>7, <2>8, <2>9
<1>32. ASSUME NEW c \in Callers, Finish(c) PROVE TypeOK'
  <2>1. at' \in [Callers -> Points]
    BY <1>32 DEF Finish
  <2>2. flash' \in Configs /\ drv' \in Configs /\ storage' \in {"flash", "ram"}
    BY <1>32 DEF Finish
  <2>3. sta' \in [st : {"down", "connecting", "up"}, ap : Configs]
    BY <1>32 DEF Finish
  <2>4. evq' \in Seq({"start", "disc", "ip"}) /\ Len(evq') <= MaxEvents
    BY <1>32 DEF Finish
  <2>5. bits' \subseteq Bits /\ retries' \in 0..MaxRetries /\ timer' \in {"idle", "armed"}
    BY <1>32 DEF Finish
  <2>6. hold' \in BOOLEAN /\ joinActive' \in BOOLEAN /\ supervisor' \in BOOLEAN /\ booted' \in BOOLEAN
    BY <1>32 DEF Finish
  <2>7. lock' \in Callers \cup {Free} /\ evt' \in {"idle", "hold", "retry", "schedule", "ack"} /\ cb' \in {"idle", "connect"}
    BY <1>32 DEF Finish
  <2>8. cand' \in Configs /\ prev' \in Configs /\ back' \in {"stage", "restore", "erase"}
    BY <1>32 DEF Finish
  <2>9. err' \in BOOLEAN /\ proved' \in BOOLEAN
    BY <1>32 DEF Finish
  <2> QED BY <2>1, <2>2, <2>3, <2>4, <2>5, <2>6, <2>7, <2>8, <2>9
<1>33. ASSUME NEW c \in Callers, Erase(c) PROVE TypeOK'
  <2>1. at' \in [Callers -> Points]
    BY <1>33 DEF Erase
  <2>2. flash' \in Configs /\ drv' \in Configs /\ storage' \in {"flash", "ram"}
    BY <1>33 DEF Erase
  <2>3. sta' \in [st : {"down", "connecting", "up"}, ap : Configs]
    BY <1>33 DEF Erase
  <2>4. evq' \in Seq({"start", "disc", "ip"}) /\ Len(evq') <= MaxEvents
    BY <1>33 DEF Erase
  <2>5. bits' \subseteq Bits /\ retries' \in 0..MaxRetries /\ timer' \in {"idle", "armed"}
    BY <1>33 DEF Erase
  <2>6. hold' \in BOOLEAN /\ joinActive' \in BOOLEAN /\ supervisor' \in BOOLEAN /\ booted' \in BOOLEAN
    BY <1>33 DEF Erase
  <2>7. lock' \in Callers \cup {Free} /\ evt' \in {"idle", "hold", "retry", "schedule", "ack"} /\ cb' \in {"idle", "connect"}
    BY <1>33 DEF Erase
  <2>8. cand' \in Configs /\ prev' \in Configs /\ back' \in {"stage", "restore", "erase"}
    BY <1>33 DEF Erase
  <2>9. err' \in BOOLEAN /\ proved' \in BOOLEAN
    BY <1>33 DEF Erase
  <2> QED BY <2>1, <2>2, <2>3, <2>4, <2>5, <2>6, <2>7, <2>8, <2>9
<1>34. ASSUME NEW c \in Callers, CallScan(c) PROVE TypeOK'
  BY <1>34 DEF CallScan
<1>35. ASSUME NEW c \in Callers, ScanLock(c) PROVE TypeOK'
  BY <1>35 DEF ScanLock
<1>36. ASSUME NEW c \in Callers, Scan(c) PROVE TypeOK'
  <2>1. at' \in [Callers -> Points]
    BY <1>36 DEF Scan
  <2>2. lock' \in Callers \cup {Free} /\ cand' \in Configs /\ prev' \in Configs
    BY <1>36 DEF Scan
  <2>3. /\ back' \in {"stage", "restore", "erase"}
        /\ err' \in BOOLEAN /\ proved' \in BOOLEAN
    BY <1>36 DEF Scan
  <2>4. /\ UNCHANGED <<flash, drv, storage, sta, evq, bits, hold, retries>>
        /\ UNCHANGED <<joinActive, supervisor, timer, evt, cb, booted>>
    BY <1>36 DEF Scan
  <2> QED BY <2>1, <2>2, <2>3, <2>4
<1>37. CASE UNCHANGED vars
  BY <1>37 DEF vars
<1> QED
  BY <1>1, <1>2, <1>3, <1>4, <1>5, <1>6, <1>7, <1>8, <1>9, <1>10, <1>11, <1>12, <1>13, <1>14,
     <1>15, <1>16, <1>17, <1>18, <1>19, <1>20, <1>21, <1>22, <1>23, <1>24, <1>25, <1>26, <1>27, <1>28, <1>29, <1>30, <1>31, <1>32, <1>33, <1>34, <1>35, <1>36, <1>37
  DEF Next, Driver, EventTask, TimerTask, Console, Calls, Operation

\* What the other conjuncts of the inductive invariant speak of ...
coreVars == <<flash, drv, storage, lock, at, booted, cand, back, err>>

CoreInv ==
  /\ OneOperation
  /\ TrialInRam
  /\ OkMeansSaved
  /\ LocalsOfOwner
  /\ BeforeBoot

\* ... and that no driver step, handler, timer callback or console command
\* touches it.
LEMMA SystemFrame ==
  Driver \/ EventTask \/ TimerTask \/ Console => UNCHANGED coreVars
<1> SUFFICES ASSUME Driver \/ EventTask \/ TimerTask \/ Console
             PROVE  UNCHANGED coreVars
  OBVIOUS
<1> USE DEF coreVars, driverVars, flagVars, localVars, Disconnect, TakeEvent
<1>1. CASE LinkUp
  BY <1>1 DEF LinkUp
<1>2. CASE LinkLost
  BY <1>2 DEF LinkLost
<1>3. CASE LinkSilentlyLost
  BY <1>3 DEF LinkSilentlyLost
<1>4. CASE HandleStart
  BY <1>4 DEF HandleStart
<1>5. CASE HandleDisconnected
  BY <1>5 DEF HandleDisconnected
<1>6. CASE HandleGotIp
  BY <1>6 DEF HandleGotIp
<1>7. CASE HandleHold
  BY <1>7 DEF HandleHold
<1>8. CASE HandleRetry
  BY <1>8 DEF HandleRetry
<1>9. CASE HandleSchedule
  BY <1>9 DEF HandleSchedule
<1>10. CASE Acknowledge
  BY <1>10 DEF Acknowledge
<1>11. CASE TimerFires
  BY <1>11 DEF TimerFires
<1>12. CASE TimerConnects
  BY <1>12 DEF TimerConnects
<1>13. CASE WatchdogFires
  BY <1>13 DEF WatchdogFires
<1>14. CASE LinkSupervisor
  BY <1>14 DEF LinkSupervisor
<1>15. CASE LinkRetry
  BY <1>15 DEF LinkRetry
<1> QED
  BY <1>1, <1>2, <1>3, <1>4, <1>5, <1>6, <1>7, <1>8, <1>9, <1>10, <1>11, <1>12, <1>13, <1>14,
     <1>15
  DEF Driver, EventTask, TimerTask, Console

\* A step that leaves those variables alone keeps the conjuncts.
LEMMA CoreFrame == CoreInv /\ UNCHANGED coreVars => CoreInv'
  BY DEF coreVars, CoreInv, OneOperation, Owner, TrialInRam, OkMeansSaved,
         LocalsOfOwner, BeforeBoot

\* When a caller that holds the lock, or finds it free, takes a step, every
\* other caller is outside the operations and stays where it is.
LEMMA Bystanders ==
  ASSUME NEW c \in Callers, NEW from, NEW to, TypeOK, OneOperation,
         Step(c, from, to), lock \in {c, Free}
  PROVE  /\ at[c] = from /\ at'[c] = to
         /\ \A d \in Callers : d # c =>
              at'[d] = at[d] /\ at[d] \in Waiting
  BY WifiAssumption DEF TypeOK, OneOperation, Owner, Waiting, Step

\* Every step of a caller keeps them: the owner by what it does, anybody else
\* because it neither holds the lock nor touches what the owner works on.
LEMMA CallerStep ==
  ASSUME NEW c \in Callers, TypeOK, CoreInv, Calls(c) \/ Operation(c)
  PROVE  CoreInv'
<1> USE WifiAssumption DEF CoreInv, TypeOK, Configs, driverVars, flagVars, localVars, Step,
      Rollback, Release, SetConfig, Disconnect, JoinPoints, SwitchPoints, Waiting, Points
<1>1. ASSUME CallJoin(c) PROVE CoreInv'
  BY <1>1 DEF CallJoin, Ready, OneOperation, Owner, TrialInRam, OkMeansSaved,
          LocalsOfOwner, BeforeBoot
<1>2. ASSUME CallLeave(c) PROVE CoreInv'
  BY <1>2 DEF CallLeave, Ready, OneOperation, Owner, TrialInRam, OkMeansSaved,
          LocalsOfOwner, BeforeBoot
<1>3. ASSUME JoinLockTimeout(c) PROVE CoreInv'
  BY <1>3 DEF JoinLockTimeout, OneOperation, Owner, TrialInRam, OkMeansSaved,
          LocalsOfOwner, BeforeBoot
<1>4. ASSUME NEW n \in Nets, JoinLock(c, n) PROVE CoreInv'
  <2>1. lock \in {c, Free}
    BY <1>4 DEF JoinLock, OneOperation, Owner
  <2>2. /\ at[c] = "join_lock" /\ at'[c] = "snapshot"
        /\ \A d \in Callers : d # c =>
             at'[d] = at[d] /\ at[d] \in Waiting
    BY <1>4, <2>1, Bystanders DEF JoinLock
  <2>3. OneOperation'
    BY <1>4, <2>2 DEF JoinLock, OneOperation, Owner
  <2>4. TrialInRam'
    BY <1>4, <2>2 DEF JoinLock, TrialInRam, Owner
  <2>5. OkMeansSaved'
    BY <1>4, <2>2 DEF JoinLock, OkMeansSaved, Owner
  <2>6. LocalsOfOwner'
    BY <1>4, <2>2 DEF JoinLock, LocalsOfOwner, Owner
  <2>7. BeforeBoot'
    BY <1>4, <2>2 DEF JoinLock, BeforeBoot, Owner
  <2> QED
    BY <2>3, <2>4, <2>5, <2>6, <2>7
<1>5. ASSUME LeaveLock(c) PROVE CoreInv'
  BY <1>5 DEF LeaveLock, OneOperation, Owner, TrialInRam, OkMeansSaved,
          LocalsOfOwner, BeforeBoot
<1>6. ASSUME Snapshot(c) PROVE CoreInv'
  <2>1. lock \in {c, Free}
    BY <1>6 DEF Snapshot, OneOperation, Owner
  <2>2. /\ at[c] = "snapshot" /\ at'[c] \in {"hold", "finish"}
        /\ \A d \in Callers : d # c =>
             at'[d] = at[d] /\ at[d] \in Waiting
    BY <1>6, <2>1, Bystanders DEF Snapshot
  <2>3. OneOperation'
    BY <1>6, <2>2 DEF Snapshot, OneOperation, Owner
  <2>4. TrialInRam'
    BY <1>6, <2>2 DEF Snapshot, TrialInRam, Owner
  <2>5. OkMeansSaved'
    BY <1>6, <2>2 DEF Snapshot, OkMeansSaved, Owner
  <2>6. LocalsOfOwner'
    BY <1>6, <2>2 DEF Snapshot, LocalsOfOwner, Owner
  <2>7. BeforeBoot'
    BY <1>6, <2>2 DEF Snapshot, BeforeBoot, Owner
  <2> QED
    BY <2>3, <2>4, <2>5, <2>6, <2>7
<1>7. ASSUME SwitchHold(c) PROVE CoreInv'
  BY <1>7 DEF SwitchHold, OneOperation, Owner, TrialInRam, OkMeansSaved,
          LocalsOfOwner, BeforeBoot
<1>8. ASSUME SwitchDisconnect(c) PROVE CoreInv'
  BY <1>8 DEF SwitchDisconnect, OneOperation, Owner, TrialInRam, OkMeansSaved,
          LocalsOfOwner, BeforeBoot
<1>9. ASSUME SwitchAck(c) PROVE CoreInv'
  BY <1>9 DEF SwitchAck, OneOperation, Owner, TrialInRam, OkMeansSaved,
          LocalsOfOwner, BeforeBoot
<1>10. ASSUME Stage(c) PROVE CoreInv'
  BY <1>10 DEF Stage, OneOperation, Owner, TrialInRam, OkMeansSaved,
          LocalsOfOwner, BeforeBoot
<1>11. ASSUME Try(c) PROVE CoreInv'
  BY <1>11 DEF Try, OneOperation, Owner, TrialInRam, OkMeansSaved,
          LocalsOfOwner, BeforeBoot
<1>12. ASSUME Verdict(c) PROVE CoreInv'
  BY <1>12 DEF Verdict, OneOperation, Owner, TrialInRam, OkMeansSaved,
          LocalsOfOwner, BeforeBoot
<1>13. ASSUME Commit(c) PROVE CoreInv'
  <2>1. lock \in {c, Free}
    BY <1>13 DEF Commit, OneOperation, Owner
  <2>2. /\ at[c] = "commit" /\ at'[c] = "finish"
        /\ \A d \in Callers : d # c =>
             at'[d] = at[d] /\ at[d] \in Waiting
    BY <1>13, <2>1, Bystanders DEF Commit
  <2>3. OneOperation'
    BY <1>13, <2>2 DEF Commit, OneOperation, Owner
  <2>4. TrialInRam'
    BY <1>13, <2>2 DEF Commit, TrialInRam, Owner
  <2>5. OkMeansSaved'
    BY <1>13, <2>2 DEF Commit, OkMeansSaved, Owner
  <2>6. LocalsOfOwner'
    BY <1>13, <2>2 DEF Commit, LocalsOfOwner, Owner
  <2>7. BeforeBoot'
    BY <1>13, <2>2 DEF Commit, BeforeBoot, Owner
  <2> QED
    BY <2>3, <2>4, <2>5, <2>6, <2>7
<1>14. ASSUME Restore(c) PROVE CoreInv'
  <2>1. lock \in {c, Free}
    BY <1>14 DEF Restore, OneOperation, Owner
  <2>2. /\ at[c] = "restore" /\ at'[c] = "finish"
        /\ \A d \in Callers : d # c =>
             at'[d] = at[d] /\ at[d] \in Waiting
    BY <1>14, <2>1, Bystanders DEF Restore
  <2>3. OneOperation'
    BY <1>14, <2>2 DEF Restore, OneOperation, Owner
  <2>4. TrialInRam'
    BY <1>14, <2>2 DEF Restore, TrialInRam, Owner
  <2>5. OkMeansSaved'
    BY <1>14, <2>2 DEF Restore, OkMeansSaved, LocalsOfOwner
  <2>6. LocalsOfOwner'
    BY <1>14, <2>2 DEF Restore, LocalsOfOwner, Owner
  <2>7. BeforeBoot'
    BY <1>14, <2>2 DEF Restore, BeforeBoot, Owner
  <2> QED
    BY <2>3, <2>4, <2>5, <2>6, <2>7
<1>15. ASSUME Finish(c) PROVE CoreInv'
  <2>1. lock \in {c, Free}
    BY <1>15 DEF Finish, OneOperation, Owner
  <2>2. /\ at[c] = "finish" /\ at'[c] = "idle"
        /\ \A d \in Callers : d # c =>
             at'[d] = at[d] /\ at[d] \in Waiting
    BY <1>15, <2>1, Bystanders DEF Finish
  <2>3. OneOperation'
    BY <1>15, <2>2 DEF Finish, OneOperation, Owner
  <2>4. TrialInRam'
    BY <1>15, <2>2 DEF Finish, TrialInRam, Owner
  <2>5. OkMeansSaved'
    BY <1>15, <2>2 DEF Finish, OkMeansSaved, Owner
  <2>6. LocalsOfOwner'
    BY <1>15, <2>2 DEF Finish, LocalsOfOwner, Owner
  <2>7. BeforeBoot'
    BY <1>15, <2>2 DEF Finish, BeforeBoot, Owner
  <2> QED
    BY <2>3, <2>4, <2>5, <2>6, <2>7
<1>16. ASSUME Erase(c) PROVE CoreInv'
  <2>1. lock \in {c, Free}
    BY <1>16 DEF Erase, OneOperation, Owner
  <2>2. /\ at[c] = "erase" /\ at'[c] = "idle"
        /\ \A d \in Callers : d # c =>
             at'[d] = at[d] /\ at[d] \in Waiting
    BY <1>16, <2>1, Bystanders DEF Erase
  <2>3. OneOperation'
    BY <1>16, <2>2 DEF Erase, OneOperation, Owner
  <2>4. TrialInRam'
    BY <1>16, <2>2 DEF Erase, TrialInRam, Owner
  <2>5. OkMeansSaved'
    BY <1>16, <2>2 DEF Erase, OkMeansSaved, Owner
  <2>6. LocalsOfOwner'
    BY <1>16, <2>2 DEF Erase, LocalsOfOwner, Owner
  <2>7. BeforeBoot'
    BY <1>16, <2>2 DEF Erase, BeforeBoot, Owner
  <2> QED
    BY <2>3, <2>4, <2>5, <2>6, <2>7
<1>17. ASSUME CallScan(c) PROVE CoreInv'
  BY <1>17 DEF CallScan, Ready, OneOperation, Owner, TrialInRam, OkMeansSaved,
          LocalsOfOwner, BeforeBoot
<1>18. ASSUME ScanLock(c) PROVE CoreInv'
  BY <1>18 DEF ScanLock, OneOperation, Owner, TrialInRam, OkMeansSaved,
          LocalsOfOwner, BeforeBoot
<1>19. ASSUME Scan(c) PROVE CoreInv'
  <2>1. lock \in {c, Free}
    BY <1>19 DEF Scan, OneOperation, Owner
  <2>2. /\ at[c] = "scan" /\ at'[c] = "idle"
        /\ \A d \in Callers : d # c => at'[d] = at[d] /\ at[d] \in Waiting
    BY <1>19, <2>1, Bystanders DEF Scan
  <2>3. OneOperation'
    BY <1>19, <2>2 DEF Scan, OneOperation, Owner
  <2>4. TrialInRam' /\ OkMeansSaved'
    BY <1>19, <2>2 DEF Scan, TrialInRam, OkMeansSaved, Owner
  <2>5. LocalsOfOwner'
    BY <1>19, <2>2 DEF Scan, LocalsOfOwner, Owner
  <2>6. BeforeBoot'
    BY <1>19, <2>2 DEF Scan, BeforeBoot, Owner
  <2> QED
    BY <2>3, <2>4, <2>5, <2>6
<1> QED
  BY <1>1, <1>2, <1>3, <1>4, <1>5, <1>6, <1>7, <1>8, <1>9, <1>10, <1>11, <1>12, <1>13, <1>14,
     <1>15, <1>16, <1>17, <1>18, <1>19
  DEF Calls, Operation

\* The inductive step: the two boot actions by themselves, the callers and the
\* system tasks by the lemmas above.
LEMMA IInvStep == IInv /\ [Next]_vars => IInv'
<1> SUFFICES ASSUME IInv, [Next]_vars PROVE IInv'
  OBVIOUS
<1>1. TypeOK /\ CoreInv
  BY DEF IInv, CoreInv
<1>2. TypeOK'
  BY <1>1, TypeStep
<1>3. CASE Reset
  <2> USE <1>1, <1>3, WifiAssumption DEF Reset, TypeOK
  <2>1. OneOperation' /\ TrialInRam' /\ OkMeansSaved'
    BY DEF OneOperation, Owner, Waiting, TrialInRam, OkMeansSaved, SwitchPoints
  <2>2. LocalsOfOwner' /\ BeforeBoot'
    BY DEF LocalsOfOwner, BeforeBoot, JoinPoints, SwitchPoints
  <2> QED
    BY <1>2, <2>1, <2>2 DEF IInv
<1>4. CASE Provision
  <2> USE <1>1, <1>4, WifiAssumption
          DEF Provision, CoreInv, BeforeBoot, SetConfig, flagVars, localVars
  <2>1. \A c \in Callers : at'[c] = "idle"
    OBVIOUS
  <2>2. OneOperation' /\ TrialInRam' /\ OkMeansSaved'
    BY <2>1 DEF OneOperation, Owner, TrialInRam, OkMeansSaved, SwitchPoints
  <2>3. LocalsOfOwner' /\ BeforeBoot'
    BY <2>1 DEF LocalsOfOwner, JoinPoints, SwitchPoints
  <2> QED
    BY <1>2, <2>2, <2>3 DEF IInv
<1>5. ASSUME NEW c \in Callers, Calls(c) \/ Operation(c) PROVE IInv'
  BY <1>1, <1>2, <1>5, CallerStep DEF IInv, CoreInv
<1>6. CASE Driver \/ EventTask \/ TimerTask \/ Console
  BY <1>1, <1>2, <1>6, SystemFrame, CoreFrame DEF IInv, CoreInv
<1>7. CASE UNCHANGED vars
  <2>1. UNCHANGED coreVars
    BY <1>7 DEF vars, coreVars
  <2> QED
    BY <1>1, <1>2, <2>1, CoreFrame DEF IInv, CoreInv
<1> QED
  BY <1>3, <1>4, <1>5, <1>6, <1>7 DEF Next

\* Together: the invariant holds throughout every behaviour.
LEMMA IInvHolds == Spec => []IInv
  BY InitIInv, IInvStep, PTL DEF Spec

\* Every variable keeps its type: program points, station states, the locals of
\* the operation and the bounded event queue of main.c's Wi-Fi code.
THEOREM TypeCorrect == Spec => []TypeOK
<1>1. IInv => TypeOK
  BY DEF IInv
<1> QED
  BY <1>1, IInvHolds, PTL

\* s_wifi_op_lock serialises app_wifi_join, app_wifi_leave and app_wifi_scan.
THEOREM Serialised == Spec => []OneOperation
<1>1. IInv => OneOperation
  BY DEF IInv
<1> QED
  BY <1>1, IInvHolds, PTL

\* The trial of a candidate and its rollback run with the driver's storage in
\* RAM, whatever the handlers, the timers and the console do meanwhile.
THEOREM TrialsStayInRam == Spec => []TrialInRam
<1>1. IInv => TrialInRam
  BY DEF IInv
<1> QED
  BY <1>1, IInvHolds, PTL

\* A join that is going to return ESP_OK has its network in flash.
THEOREM OkIsSaved == Spec => []OkMeansSaved
<1>1. IInv => OkMeansSaved
  BY DEF IInv
<1> QED
  BY <1>1, IInvHolds, PTL

\* Every step of a caller is a step of the credential store or leaves it alone.
LEMMA CallerImplements ==
  ASSUME NEW c \in Callers, TypeOK, CoreInv, Calls(c) \/ Operation(c)
  PROVE  [Store!Next]_(Store!vars)
<1> USE WifiAssumption DEF CoreInv, TypeOK, OneOperation, Owner, LocalsOfOwner, TrialInRam,
      driverVars, flagVars, localVars, Step, Rollback, Release, SetConfig, InTrial,
      JoinPoints, SwitchPoints, Waiting, Store!Next, Store!vars, Store!Begin, Store!Pass,
      Store!Commit,
      Store!Abandon, Store!Erase
<1>1. ASSUME CallJoin(c) PROVE [Store!Next]_(Store!vars)
  BY <1>1 DEF CallJoin
<1>2. ASSUME CallLeave(c) PROVE [Store!Next]_(Store!vars)
  BY <1>2 DEF CallLeave
<1>3. ASSUME JoinLockTimeout(c) PROVE [Store!Next]_(Store!vars)
  BY <1>3 DEF JoinLockTimeout
<1>4. ASSUME NEW n \in Nets, JoinLock(c, n) PROVE [Store!Next]_(Store!vars)
  BY <1>4 DEF JoinLock
<1>5. ASSUME LeaveLock(c) PROVE [Store!Next]_(Store!vars)
  BY <1>5 DEF LeaveLock
<1>6. ASSUME Snapshot(c) PROVE [Store!Next]_(Store!vars)
  BY <1>6 DEF Snapshot
<1>7. ASSUME SwitchHold(c) PROVE [Store!Next]_(Store!vars)
  BY <1>7 DEF SwitchHold
<1>8. ASSUME SwitchDisconnect(c) PROVE [Store!Next]_(Store!vars)
  BY <1>8 DEF SwitchDisconnect
<1>9. ASSUME SwitchAck(c) PROVE [Store!Next]_(Store!vars)
  BY <1>9 DEF SwitchAck
<1>10. ASSUME Stage(c) PROVE [Store!Next]_(Store!vars)
  BY <1>10 DEF Stage
<1>11. ASSUME Try(c) PROVE [Store!Next]_(Store!vars)
  BY <1>11 DEF Try
<1>12. ASSUME Verdict(c) PROVE [Store!Next]_(Store!vars)
  BY <1>12 DEF Verdict
<1>13. ASSUME Commit(c) PROVE [Store!Next]_(Store!vars)
  BY <1>13 DEF Commit
<1>14. ASSUME Restore(c) PROVE [Store!Next]_(Store!vars)
  BY <1>14 DEF Restore
<1>15. ASSUME Finish(c) PROVE [Store!Next]_(Store!vars)
  BY <1>15 DEF Finish
<1>16. ASSUME Erase(c) PROVE [Store!Next]_(Store!vars)
  BY <1>16 DEF Erase
<1>17. ASSUME CallScan(c) PROVE [Store!Next]_(Store!vars)
  BY <1>17 DEF CallScan
<1>18. ASSUME ScanLock(c) PROVE [Store!Next]_(Store!vars)
  BY <1>18 DEF ScanLock
<1>19. ASSUME Scan(c) PROVE [Store!Next]_(Store!vars)
  BY <1>19 DEF Scan
<1> QED
  BY <1>1, <1>2, <1>3, <1>4, <1>5, <1>6, <1>7, <1>8, <1>9, <1>10, <1>11, <1>12, <1>13, <1>14,
     <1>15, <1>16, <1>17, <1>18, <1>19
  DEF Calls, Operation

\* So is every other step: the compile-time credentials are the only thing a
\* boot may put into flash, and only when nothing is stored.
LEMMA StepImplements == IInv /\ [Next]_vars => [Store!Next]_(Store!vars)
<1> SUFFICES ASSUME IInv, [Next]_vars PROVE [Store!Next]_(Store!vars)
  OBVIOUS
<1> USE DEF Store!Next, Store!vars, InTrial
<1>1. TypeOK /\ CoreInv
  BY DEF IInv, CoreInv
<1>2. CASE Reset
  BY <1>2 DEF Reset, Store!Abandon
<1>3. CASE Provision
  <2>1. lock = Free /\ lock' = Free
    BY <1>1, <1>3 DEF Provision, TypeOK, CoreInv, BeforeBoot, OneOperation, Owner, Waiting
  <2>2. cand = NoNet /\ cand' = NoNet
    BY <1>1, <1>3, <2>1 DEF Provision, CoreInv, LocalsOfOwner, localVars
  <2>3. drv = flash /\ storage = "flash"
    BY <1>1, <1>3 DEF Provision, CoreInv, BeforeBoot
  <2> QED
    BY <1>3, <2>1, <2>2, <2>3 DEF Provision, SetConfig, Store!Provision
<1>4. ASSUME NEW c \in Callers, Calls(c) \/ Operation(c)
      PROVE  [Store!Next]_(Store!vars)
  BY <1>1, <1>4, CallerImplements
<1>5. CASE Driver \/ EventTask \/ TimerTask \/ Console
  BY <1>5, SystemFrame DEF coreVars
<1>6. CASE UNCHANGED vars
  BY <1>6 DEF vars
<1> QED
  BY <1>2, <1>3, <1>4, <1>5, <1>6 DEF Next

\* The join, with its trial, rollback and every interleaving of the other
\* tasks and of power cuts, implements the credential store: flash changes only
\* by a commit after a verdict, an erase or the provisioning of an empty device.
THEOREM ImplementsStore == Spec => StoreSpec
<1>1. Init => Store!Init
  BY DEF Init, Configs, Store!Init, InTrial
<1>2. IInv /\ [Next]_vars => [Store!Next]_(Store!vars)
  BY StepImplements
<1> QED
  BY <1>1, <1>2, IInvHolds, PTL DEF Spec, StoreSpec, Store!Spec
-----------------------------------------------------------------------------
(* The supervisor stays away, when handlers and callbacks finish before a caller *)
(* takes its next step, and there is a reconnect timer.                          *)

Posted(e) == \E i \in DOMAIN evq : evq[i] = e

\* Before anybody calls, app_main and the handler of the start event are done.
StartIsOver ==
  hold \/ (\E c \in Callers : at[c] # "idle") =>
    booted /\ ~Posted("start")

\* The hold keeps the station down, once an operation has disconnected it ...
HoldKeepsDown == hold => sta.st = "down" \/ \E c \in Callers : at[c] = "disconnect"

\* ... and is there from the switch to the next attempt.
HoldIsSet ==
  \A c \in Callers : at[c] \in {"disconnect", "ack", "stage", "try", "restore", "erase"} => hold

\* A join in flight has told the supervisor.
JoinIsClaimed ==
  \A c \in Callers :
    at[c] \in JoinPoints \/ (at[c] \in SwitchPoints /\ back # "erase") => joinActive

\* What the two system tasks decided still holds when they act.
DecisionsHold == (cb = "connect" => ~SupervisorStandsBack) /\ (evt = "retry" => ~hold)

\* A station that is not down during a trial is trying the candidate.
TriesCandidate ==
  \A c \in Callers : at[c] \in {"verdict", "commit"} /\ sta.st # "down" => sta.ap = cand

\* The connected bit of a trial, and the event that will set it, are the candidate's.
BitIsOfTrial ==
  \A c \in Callers :
    /\ at[c] \in {"try", "verdict"} /\ ("connected" \in bits \/ Posted("ip")) =>
         proved
    /\ at[c] = "commit" => proved

AwayInv ==
  /\ StartIsOver /\ HoldKeepsDown /\ HoldIsSet /\ JoinIsClaimed /\ DecisionsHold
  /\ TriesCandidate /\ BitIsOfTrial

LEMMA EventPosted ==
  ASSUME TypeOK, NEW e \in {"start", "disc", "ip"}, evq' = Append(evq, e), NEW x
  PROVE  Posted(x)' <=> Posted(x) \/ x = e
<1>1. /\ evq \in Seq({"start", "disc", "ip"}) /\ Len(evq) \in Nat /\ DOMAIN evq = 1..Len(evq)
      /\ DOMAIN evq' = 1..(Len(evq) + 1) /\ evq'[Len(evq) + 1] = e
      /\ \A i \in 1..Len(evq) : evq'[i] = evq[i]
  BY DEF TypeOK
<1>. QED
  BY <1>1 DEF Posted

LEMMA EventTaken ==
  ASSUME TypeOK, NEW e, TakeEvent(e), NEW x
  PROVE  /\ Posted(e)
         /\ Posted(x)' => Posted(x)
<1>1. /\ evq \in Seq({"start", "disc", "ip"}) /\ evq # <<>> /\ Len(evq) \in Nat \ {0}
      /\ DOMAIN evq = 1..Len(evq) /\ evq[1] = e
      /\ DOMAIN evq' = 1..(Len(evq) - 1)
      /\ \A i \in 1..(Len(evq) - 1) : evq'[i] = evq[i + 1]
  BY DEF TypeOK, TakeEvent
<1>. QED
  BY <1>1 DEF Posted

LEMMA NothingPosted ==
  ASSUME AppTurn, Prompt, NEW x
  PROVE  ~Posted(x) /\ evt = "idle" /\ cb = "idle"
BY DEF AppTurn, Posted

\* The driver, the handler and the timer callbacks.
LEMMA SystemAway ==
  ASSUME Prompt, ReconnectTimer, IInv, AwayInv, Driver \/ EventTask \/ TimerTask
  PROVE  AwayInv'
<1>1. UNCHANGED <<hold, joinActive, supervisor, at, back, booted, cand, drv>>
  BY DEF Driver, EventTask, TimerTask, LinkUp, LinkLost, LinkSilentlyLost, HandleStart,
         HandleDisconnected,
         HandleHold, HandleRetry, HandleSchedule, Acknowledge, HandleGotIp, TimerFires,
         TimerConnects,
         WatchdogFires, driverVars, flagVars, localVars
<1>2. HoldIsSet' /\ JoinIsClaimed'
  BY <1>1 DEF AwayInv, HoldIsSet, JoinIsClaimed
<1>3. StartIsOver'
  <2>1. Posted("start")' => Posted("start")
    <3>1. CASE UNCHANGED evq
      BY <3>1 DEF Posted
    <3>2. CASE evq' \in {Append(evq, "disc"), Append(evq, "ip")}
      BY <3>2, EventPosted DEF IInv
    <3>3. CASE \E e \in {"start", "disc", "ip"} : TakeEvent(e)
      BY <3>3, EventTaken DEF IInv
    <3>. QED
      BY <3>1, <3>2, <3>3 DEF Driver, EventTask, TimerTask, LinkUp, LinkLost, LinkSilentlyLost,
         HandleStart, HandleDisconnected, HandleHold, HandleRetry, HandleSchedule, Acknowledge,
         HandleGotIp, TimerFires, TimerConnects, WatchdogFires, Disconnect, ScheduleReconnect
  <2>. QED
    BY <1>1, <2>1 DEF AwayInv, StartIsOver
<1>4. DecisionsHold'
  BY <1>1 DEF AwayInv, DecisionsHold, SupervisorStandsBack,
       Driver, EventTask, TimerTask, LinkUp, LinkLost, LinkSilentlyLost, HandleStart,
       HandleDisconnected,
       HandleHold, HandleRetry, HandleSchedule, Acknowledge, HandleGotIp, TimerFires,
       TimerConnects,
       WatchdogFires
\* How the station changes.
<1>5. \/ UNCHANGED sta
      \/ sta' = Down
      \/ sta.st = "connecting" /\ sta' = [sta EXCEPT !.st = "up"]
      \/ /\ sta.st = "down" /\ sta' = [st |-> "connecting", ap |-> drv]
         /\ ~hold /\ \A c \in Callers : at[c] \in {"verdict", "commit"} => drv = cand
  <2>1. \A c \in Callers : at[c] \in {"verdict", "commit"} => drv = cand
    BY DEF IInv, LocalsOfOwner
  <2>2. CASE Driver
    BY <2>2 DEF Driver, LinkUp, LinkLost, LinkSilentlyLost, Disconnect
  <2>3. CASE HandleStart
    <3>1. ~hold
      BY <2>3, EventTaken DEF HandleStart, IInv, AwayInv, StartIsOver
    <3>. QED
      BY <2>1, <2>3, <3>1 DEF HandleStart, ConnectOk, ConnectRejected
  <2>4. CASE HandleRetry
    BY <2>1, <2>4 DEF HandleRetry, AwayInv, DecisionsHold, ConnectOk, ConnectRejected
  <2>5. CASE TimerConnects
    BY <2>1, <2>5 DEF TimerConnects, AwayInv, DecisionsHold, SupervisorStandsBack, ConnectOk,
                      ScheduleReconnect
  <2>6. CASE HandleDisconnected \/ HandleHold \/ HandleSchedule \/ Acknowledge \/ HandleGotIp \/ TimerFires
             \/ WatchdogFires
    BY <2>6 DEF HandleDisconnected, HandleHold, HandleSchedule, Acknowledge, HandleGotIp,
                TimerFires,
                WatchdogFires, ScheduleReconnect
  <2>. QED
    BY <2>2, <2>3, <2>4, <2>5, <2>6 DEF EventTask, TimerTask
<1>6. sta.st \in {"down", "connecting", "up"} /\ sta = [st |-> sta.st, ap |-> sta.ap]
  BY DEF IInv, TypeOK
<1>7. HoldKeepsDown'
  BY <1>1, <1>5, <1>6 DEF AwayInv, HoldKeepsDown, Down
<1>8. TriesCandidate'
  BY <1>1, <1>5, <1>6 DEF AwayInv, TriesCandidate, Down
<1>9. BitIsOfTrial'
  <2>1. CASE LinkUp
    <3>1. /\ sta.st = "connecting" /\ bits' = bits
          /\ proved' = (proved \/ (cand # NoNet /\ sta.ap = cand))
          /\ Posted("ip")'
      BY <2>1, EventPosted DEF LinkUp, IInv
    <3>2. ASSUME NEW c \in Callers, at[c] \in {"try", "verdict", "commit"}
          PROVE  proved'
      <4>1. at[c] = "try" => FALSE
        BY <3>1, <3>2 DEF AwayInv, HoldIsSet, HoldKeepsDown, IInv, OneOperation, Owner, Waiting
      <4>2. cand \in Nets
        BY <3>2 DEF IInv, LocalsOfOwner, JoinPoints
      <4>3. sta.ap = cand
        BY <3>1, <3>2, <4>1 DEF AwayInv, TriesCandidate
      <4>. QED
        BY <3>1, <4>2, <4>3, WifiAssumption
    <3>. QED
      BY <1>1, <3>1, <3>2 DEF BitIsOfTrial
  <2>2. CASE HandleGotIp
    <3>1. Posted("ip") /\ (Posted("ip")' => Posted("ip"))
      BY <2>2, EventTaken DEF HandleGotIp, IInv
    <3>. QED
      BY <1>1, <2>2, <3>1 DEF HandleGotIp, localVars, AwayInv, BitIsOfTrial
  <2>3. CASE ~LinkUp /\ ~HandleGotIp
    <3>1. proved' = proved
      BY <2>3 DEF Driver, EventTask, TimerTask, LinkLost, LinkSilentlyLost,
         HandleStart, HandleDisconnected, HandleHold, HandleRetry, HandleSchedule, Acknowledge,
         TimerFires, TimerConnects, WatchdogFires, localVars
    <3>2. "connected" \in bits' => "connected" \in bits
      BY <2>3 DEF Driver, EventTask, TimerTask, LinkLost, LinkSilentlyLost,
         HandleStart, HandleDisconnected, HandleHold, HandleRetry, HandleSchedule, Acknowledge,
         TimerFires, TimerConnects, WatchdogFires
    <3>3. Posted("ip")' => Posted("ip")
      <4>1. CASE UNCHANGED evq
        BY <4>1 DEF Posted
      <4>2. CASE evq' = Append(evq, "disc")
        BY <4>2, EventPosted DEF IInv
      <4>3. CASE \E e \in {"start", "disc", "ip"} : TakeEvent(e)
        BY <4>3, EventTaken DEF IInv
      <4>. QED
        BY <2>3, <4>1, <4>2, <4>3 DEF Driver, EventTask, TimerTask, LinkLost, LinkSilentlyLost,
           HandleStart, HandleDisconnected, HandleHold, HandleRetry, HandleSchedule, Acknowledge,
           TimerFires, TimerConnects, WatchdogFires, Disconnect, ScheduleReconnect
    <3>. QED
      BY <1>1, <3>1, <3>2, <3>3 DEF AwayInv, BitIsOfTrial
  <2>. QED
    BY <2>1, <2>2, <2>3
<1>. QED
  BY <1>2, <1>3, <1>4, <1>7, <1>8, <1>9 DEF AwayInv

\* What every step of a caller leaves alone, or finds done by the tasks that go first.
LEMMA CallerFinds ==
  ASSUME Prompt, IInv, AwayInv, NEW c \in Callers, Calls(c) \/ Operation(c)
  PROVE  StartIsOver' /\ DecisionsHold' /\ (\A e : ~Posted(e)) /\ ~Posted("ip")'
<1>1. AppTurn /\ UNCHANGED <<evt, cb, booted, supervisor>>
  BY DEF Calls, Operation, CallJoin, CallLeave, CallScan, JoinLockTimeout, JoinLock, LeaveLock,
         Snapshot,
         SwitchHold, SwitchDisconnect, SwitchAck, Stage, Try, Verdict, Commit, Restore, Finish,
         Erase,
         ScanLock, Scan, Step, Rollback, flagVars
<1>2. \A e : ~Posted(e)
  BY <1>1, NothingPosted
<1>3. evt' = "idle" /\ cb' = "idle"
  BY <1>1, NothingPosted
<1>4. evq' = evq \/ evq' = Append(evq, "disc")
  BY DEF Calls, Operation, CallJoin, CallLeave, CallScan, JoinLockTimeout, JoinLock, LeaveLock,
         Snapshot,
         SwitchHold, SwitchDisconnect, SwitchAck, Stage, Try, Verdict, Commit, Restore, Finish,
         Erase,
         ScanLock, Scan, Disconnect
<1>5. ~Posted("ip")' /\ ~Posted("start")'
  <2>1. CASE evq' = evq
    BY <1>2, <2>1 DEF Posted
  <2>2. CASE evq' = Append(evq, "disc")
    BY <1>2, <2>2, EventPosted DEF IInv
  <2>. QED
    BY <1>4, <2>1, <2>2
<1>6. booted
  <2>1. CASE at[c] # "idle"
    BY <2>1 DEF AwayInv, StartIsOver
  <2>2. CASE at[c] = "idle"
    BY <2>2 DEF Calls, Operation, CallJoin, CallLeave, CallScan, JoinLockTimeout, JoinLock,
                LeaveLock,
           Snapshot, SwitchHold, SwitchDisconnect, SwitchAck, Stage, Try, Verdict, Commit,
           Restore,
           Finish, Erase, ScanLock, Scan, Step, Rollback, Ready
  <2>. QED
    BY <2>1, <2>2
<1>. QED
  BY <1>1, <1>2, <1>3, <1>5, <1>6 DEF StartIsOver, DecisionsHold

\* The parts of the invariant the step of an operation can disturb.
TrialAway == HoldKeepsDown /\ HoldIsSet /\ JoinIsClaimed /\ TriesCandidate /\ BitIsOfTrial

\* Outside the lock.
LEMMA WaitersAway ==
  ASSUME IInv, AwayInv, NEW c \in Callers, Calls(c) \/ JoinLockTimeout(c)
  PROVE  TrialAway'
<1>1. /\ UNCHANGED <<hold, joinActive, sta, bits, evq, proved, cand, back>>
      /\ at[c] \in Waiting /\ \E to \in Waiting : at' = [at EXCEPT ![c] = to]
  BY DEF Calls, CallJoin, CallLeave, CallScan, JoinLockTimeout, Step, Waiting, flagVars, localVars
<1>2. at'[c] \in Waiting /\ \A d \in Callers \ {c} : at'[d] = at[d]
  BY <1>1 DEF IInv, TypeOK
<1>3. Posted("ip")' <=> Posted("ip")
  BY <1>1 DEF Posted
<1>4. HoldKeepsDown' /\ HoldIsSet' /\ JoinIsClaimed'
  BY <1>1, <1>2
     DEF AwayInv, HoldKeepsDown, HoldIsSet, JoinIsClaimed, Waiting, JoinPoints, SwitchPoints
<1>5. TriesCandidate' /\ BitIsOfTrial'
  BY <1>1, <1>2, <1>3 DEF AwayInv, TriesCandidate, BitIsOfTrial, Waiting
<1>. QED
  BY <1>4, <1>5 DEF TrialAway

\* Inside it everybody else waits.
LEMMA OwnerAway ==
  ASSUME Prompt, IInv, AwayInv, NEW c \in Callers, Operation(c), ~JoinLockTimeout(c)
  PROVE  TrialAway'
<1>1. \A d \in Callers \ {c} : at'[d] = at[d] /\ at[d] \in Waiting
  <2>1. lock = c \/ lock = Free
    BY DEF Operation, JoinLock, LeaveLock, Snapshot, SwitchHold, SwitchDisconnect, SwitchAck,
           Stage, Try,
           Verdict, Commit, Restore, Finish, Erase, ScanLock, Scan, Step, Rollback, IInv,
           OneOperation,
           Owner, Waiting, LocalsOfOwner, TypeOK
  <2>2. \E from, to : Step(c, from, to)
    BY DEF Operation, JoinLock, LeaveLock, Snapshot, SwitchHold, SwitchDisconnect, SwitchAck,
           Stage, Try,
           Verdict, Commit, Restore, Finish, Erase, ScanLock, Scan, Rollback
  <2>. QED
    BY <2>1, <2>2, Bystanders DEF IInv
<1>2. ASSUME /\ at'[c] = "disconnect" => hold'
             /\ at'[c] # "disconnect" /\ hold' => sta'.st = "down"
             /\ at'[c] \in {"ack", "stage", "try", "restore", "erase"} => hold'
             /\ at'[c] \in JoinPoints \/ (at'[c] \in SwitchPoints /\ back' # "erase") => joinActive'
             /\ at'[c] \in {"verdict", "commit"} /\ sta'.st # "down" => sta'.ap = cand'
             /\ at'[c] \in {"try", "verdict"} /\ "connected" \in bits' => proved'
             /\ at'[c] = "commit" => proved'
      PROVE  TrialAway'
  <2>1. ~Posted("ip")'
    BY CallerFinds
  <2>2. HoldKeepsDown' /\ HoldIsSet' /\ JoinIsClaimed'
    BY <1>1, <1>2 DEF HoldKeepsDown, HoldIsSet, JoinIsClaimed, Waiting, JoinPoints, SwitchPoints
  <2>3. TriesCandidate' /\ BitIsOfTrial'
    BY <1>1, <1>2, <2>1 DEF TriesCandidate, BitIsOfTrial, Waiting
  <2>. QED
    BY <2>2, <2>3 DEF TrialAway
<1>3. /\ hold => sta.st = "down" \/ at[c] = "disconnect"
      /\ at[c] \in {"disconnect", "ack", "stage", "try", "restore", "erase"} => hold
      /\ at[c] \in JoinPoints \/ (at[c] \in SwitchPoints /\ back # "erase") => joinActive
      /\ at[c] \in {"verdict", "commit"} /\ sta.st # "down" => sta.ap = cand
      /\ at[c] \in {"try", "verdict"} /\ "connected" \in bits => proved
      /\ at[c] = "commit" => proved
      /\ at[c] \in {"try", "verdict", "commit"} => drv = cand
      /\ at[c] \in SwitchPoints => (cand = NoNet <=> back = "erase")
      /\ at[c] \in JoinPoints => cand \in Nets
  <2>1. hold => sta.st = "down" \/ at[c] = "disconnect"
    BY <1>1 DEF AwayInv, HoldKeepsDown, Waiting
  <2>2. /\ at[c] \in {"disconnect", "ack", "stage", "try", "restore", "erase"} => hold
        /\ at[c] \in JoinPoints \/ (at[c] \in SwitchPoints /\ back # "erase") => joinActive
        /\ at[c] \in {"verdict", "commit"} /\ sta.st # "down" => sta.ap = cand
        /\ at[c] \in {"try", "verdict"} /\ "connected" \in bits => proved
        /\ at[c] = "commit" => proved
    BY DEF AwayInv, HoldIsSet, JoinIsClaimed, TriesCandidate, BitIsOfTrial
  <2>. QED
    BY <2>1, <2>2 DEF IInv, LocalsOfOwner
<1>4. at \in [Callers -> Points] /\ back \in {"stage", "restore", "erase"} /\ sta.st \in {"down", "connecting", "up"}
  BY DEF IInv, TypeOK
<1>5. ASSUME NEW n \in Nets, JoinLock(c, n) PROVE TrialAway'
  BY <1>2, <1>3, <1>4, <1>5
     DEF JoinLock, Step, driverVars, localVars, JoinPoints, SwitchPoints
<1>6. CASE LeaveLock(c)
  BY <1>2, <1>3, <1>4, <1>6
     DEF LeaveLock, Step, Rollback, Release, Disconnect, SetConfig, ConnectOk, ConnectRejected,
         Down,
         driverVars, flagVars, localVars, JoinPoints, SwitchPoints
<1>7. CASE Snapshot(c)
  BY <1>2, <1>3, <1>4, <1>7
     DEF Snapshot, Step, Rollback, Release, Disconnect, SetConfig, ConnectOk, ConnectRejected,
         Down,
         driverVars, flagVars, localVars, JoinPoints, SwitchPoints
<1>8. CASE SwitchHold(c)
  BY <1>2, <1>3, <1>4, <1>8
     DEF SwitchHold, Step, Rollback, Release, Disconnect, SetConfig, ConnectOk, ConnectRejected,
         Down,
         driverVars, flagVars, localVars, JoinPoints, SwitchPoints
<1>9. CASE SwitchDisconnect(c)
  BY <1>2, <1>3, <1>4, <1>9
     DEF SwitchDisconnect, Step, Rollback, Release, Disconnect, SetConfig, ConnectOk,
         ConnectRejected, Down,
         driverVars, flagVars, localVars, JoinPoints, SwitchPoints
<1>10. CASE SwitchAck(c)
  BY <1>2, <1>3, <1>4, <1>10
     DEF SwitchAck, Step, Rollback, Release, Disconnect, SetConfig, ConnectOk, ConnectRejected,
         Down,
         driverVars, flagVars, localVars, JoinPoints, SwitchPoints
<1>11. CASE Stage(c)
  BY <1>2, <1>3, <1>4, <1>11
     DEF Stage, Step, Rollback, Release, Disconnect, SetConfig, ConnectOk, ConnectRejected, Down,
         driverVars, flagVars, localVars, JoinPoints, SwitchPoints
<1>12. CASE Try(c)
  BY <1>2, <1>3, <1>4, <1>12
     DEF Try, Step, Rollback, Release, Disconnect, SetConfig, ConnectOk, ConnectRejected, Down,
         driverVars, flagVars, localVars, JoinPoints, SwitchPoints
<1>13. CASE Verdict(c)
  BY <1>2, <1>3, <1>4, <1>13
     DEF Verdict, Step, Rollback, Release, Disconnect, SetConfig, ConnectOk, ConnectRejected,
         Down,
         driverVars, flagVars, localVars, JoinPoints, SwitchPoints
<1>14. CASE Commit(c)
  BY <1>2, <1>3, <1>4, <1>14
     DEF Commit, Step, Rollback, Release, Disconnect, SetConfig, ConnectOk, ConnectRejected, Down,
         driverVars, flagVars, localVars, JoinPoints, SwitchPoints
<1>15. CASE Restore(c)
  BY <1>2, <1>3, <1>4, <1>15
     DEF Restore, Step, Rollback, Release, Disconnect, SetConfig, ConnectOk, ConnectRejected,
         Down,
         driverVars, flagVars, localVars, JoinPoints, SwitchPoints
<1>16. CASE Finish(c)
  BY <1>2, <1>3, <1>4, <1>16
     DEF Finish, Step, Rollback, Release, Disconnect, SetConfig, ConnectOk, ConnectRejected, Down,
         driverVars, flagVars, localVars, JoinPoints, SwitchPoints
<1>17. CASE Erase(c)
  BY <1>2, <1>3, <1>4, <1>17
     DEF Erase, Step, Rollback, Release, Disconnect, SetConfig, ConnectOk, ConnectRejected, Down,
         driverVars, flagVars, localVars, JoinPoints, SwitchPoints
<1>18. CASE ScanLock(c)
  BY <1>2, <1>3, <1>4, <1>18
     DEF ScanLock, Step, Rollback, Release, Disconnect, SetConfig, ConnectOk, ConnectRejected,
         Down,
         driverVars, flagVars, localVars, JoinPoints, SwitchPoints
<1>19. CASE Scan(c)
  BY <1>2, <1>3, <1>4, <1>19
     DEF Scan, Step, Rollback, Release, Disconnect, SetConfig, ConnectOk, ConnectRejected, Down,
         driverVars, flagVars, localVars, JoinPoints, SwitchPoints
<1>. QED
  BY <1>5, <1>6, <1>7, <1>8, <1>9, <1>10, <1>11, <1>12, <1>13, <1>14, <1>15, <1>16, <1>17, <1>18,
     <1>19 DEF Operation

LEMMA AwayStep ==
  ASSUME Prompt, ReconnectTimer, IInv, AwayInv, [Next]_vars
  PROVE  AwayInv'
<1>1. CASE Reset
  <2>1. /\ hold' = FALSE /\ cb' = "idle" /\ evt' = "idle" /\ \A c \in Callers : at'[c] = "idle"
    BY <1>1 DEF Reset
  <2>. QED
    BY <2>1 DEF AwayInv, StartIsOver, HoldKeepsDown, HoldIsSet, JoinIsClaimed, DecisionsHold,
                TriesCandidate, BitIsOfTrial, JoinPoints, SwitchPoints
<1>2. CASE Provision
  <2>1. ~hold /\ \A c \in Callers : at[c] = "idle"
    BY <1>2 DEF Provision, IInv, BeforeBoot, AwayInv, StartIsOver
  <2>2. /\ UNCHANGED <<hold, joinActive, supervisor, at, evt, cb>>
    BY <1>2 DEF Provision, flagVars
  <2>. QED
    BY <2>1, <2>2
       DEF AwayInv, StartIsOver, HoldKeepsDown, HoldIsSet, JoinIsClaimed, DecisionsHold,
                TriesCandidate, BitIsOfTrial, JoinPoints, SwitchPoints, SupervisorStandsBack
<1>3. CASE Driver \/ EventTask \/ TimerTask
  BY <1>3, SystemAway
<1>4. CASE Console
  <2>1. /\ UNCHANGED <<sta, hold, joinActive, at, booted, cand, back, bits, evq, proved>>
        /\ evt' = "idle" /\ cb' = "idle"
    BY <1>4, NothingPosted
       DEF Console, LinkSupervisor, LinkRetry, ScheduleReconnect, flagVars, localVars
  <2>. QED
    BY <2>1 DEF AwayInv, StartIsOver, HoldKeepsDown, HoldIsSet, JoinIsClaimed, DecisionsHold,
                TriesCandidate, BitIsOfTrial, Posted
<1>5. ASSUME NEW c \in Callers, Calls(c) \/ Operation(c) PROVE AwayInv'
  BY <1>5, CallerFinds, WaitersAway, OwnerAway DEF AwayInv, TrialAway
<1>6. CASE UNCHANGED vars
  BY <1>6 DEF vars, AwayInv, StartIsOver, HoldKeepsDown, HoldIsSet, JoinIsClaimed, DecisionsHold,
              TriesCandidate, BitIsOfTrial, Posted, SupervisorStandsBack
<1>. QED
  BY <1>1, <1>2, <1>3, <1>4, <1>5, <1>6 DEF Next

LEMMA AwayAlways == ASSUME Prompt, ReconnectTimer PROVE Spec => []AwayInv
<1>1. Init => AwayInv
  BY DEF Init, AwayInv, StartIsOver, HoldKeepsDown, HoldIsSet, JoinIsClaimed, DecisionsHold,
         TriesCandidate, BitIsOfTrial, JoinPoints, SwitchPoints
<1>2. IInv /\ AwayInv /\ [Next]_vars => AwayInv'
  BY AwayStep
<1>. QED
  BY <1>1, <1>2, IInvHolds, PTL DEF Spec

\* No handler, timer or console command connects a station behind an operation's back,
\* for any callers, networks and bounds, when the event and timer tasks outrun the callers
\* and the reconnect timer exists.
THEOREM SupervisorIsAway == ASSUME Prompt, ReconnectTimer PROVE Spec => []SupervisorStaysAway
<1>1. IInv /\ AwayInv => SupervisorStaysAway
  BY WifiAssumption
     DEF IInv, OneOperation, Owner, Waiting, AwayInv, HoldKeepsDown, TriesCandidate,
                        SupervisorStaysAway
<1>. QED
  BY <1>1, IInvHolds, AwayAlways, PTL

\* Under the same assumptions a join saves only a network the station reached in this
\* very trial; nothing else but a leave changes what is stored.
THEOREM OnlyProvenIsSaved == ASSUME Prompt, ReconnectTimer PROVE Spec => CommitOnlyProven
<1>1. IInv /\ AwayInv /\ [Next]_vars
      => [booted => \/ flash' = flash
                    \/ flash' = NoNet /\ cand = NoNet
                    \/ flash' = cand /\ proved]_vars
  <2>. SUFFICES ASSUME IInv, AwayInv, Next, booted, flash' # flash
                PROVE  (flash' = NoNet /\ cand = NoNet) \/ (flash' = cand /\ proved)
    OBVIOUS
  <2>1. ~(Driver \/ EventTask \/ TimerTask \/ Console)
    BY SystemFrame DEF coreVars
  <2>2. ~Reset /\ ~Provision
    BY DEF Reset, Provision
  <2>3. PICK c \in Callers : Calls(c) \/ Operation(c)
    BY <2>1, <2>2 DEF Next
  <2>4. Commit(c) \/ Erase(c) \/ Stage(c) \/ Restore(c)
    BY <2>3 DEF Calls, Operation, CallJoin, CallLeave, CallScan, JoinLockTimeout, JoinLock,
                LeaveLock,
                Snapshot, SwitchHold, SwitchDisconnect, SwitchAck, Try, Verdict, Finish,
                ScanLock, Scan,
                driverVars
  <2>5. ~Stage(c) /\ ~Restore(c)
    BY DEF Stage, Restore, SetConfig, Rollback, Step, IInv, TrialInRam
  <2>6. CASE Commit(c)
    BY <2>6 DEF Commit, SetConfig, Step, AwayInv, BitIsOfTrial
  <2>7. CASE Erase(c)
    <3>1. at[c] = "erase" /\ flash' = NoNet
      BY <2>7 DEF Erase, SetConfig, Step
    <3>2. cand = NoNet
      BY <3>1 DEF IInv, LocalsOfOwner
    <3>. QED
      BY <3>1, <3>2
  <2>. QED
    BY <2>4, <2>5, <2>6, <2>7
<1>. QED
  BY <1>1, IInvHolds, AwayAlways, PTL DEF Spec, CommitOnlyProven
=============================================================================
