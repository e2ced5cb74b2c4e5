----------------------------- MODULE SetupProofs -----------------------------
(***************************************************************************)
(* What Setup guarantees for every set of command lines and every number   *)
(* of failures, signals, interrupts and kills.                             *)
(***************************************************************************)
EXTENDS Setup, TLAPS, SequenceTheorems

-----------------------------------------------------------------------------
(* The inductive invariant *)

PrivatePart == {"mkdir", "handlers", "profiles", "validate", "spawn", "spawned", "wait",
                "terminate", "kill", "cleanup", "restore"}
Supervising == {"supervise", "started", "supervised", "reaped"}
PublicPart == {"public", "plain"} \cup Supervising

(* The workspace is gone when the public stages begin; after the cleanup   *)
(* it is gone, or the run has said that it is not.                         *)
Emptied ==
  /\ pc \in {"mkdir"} \cup PublicPart => workspace = "none" /\ ~warned
  /\ pc = "restore" /\ ~warned => workspace = "none"

(* Where there may be a child, and whether the run has its handle.         *)
Located ==
  /\ pc \in {"idle", "mkdir", "handlers", "profiles", "validate", "spawn", "public", "supervise",
             "reaped"} => child = "none"
  /\ pc \in PrivatePart => child \in Private \cup {"none"}
  /\ pc \in {"mkdir", "handlers", "profiles", "validate", "spawn", "spawned", "public", "supervise",
             "started"} => ~known
  /\ pc = "idle" => ~known
  /\ pc = "spawn" => next \in Private
  /\ pc = "plain" => child = "none" \/ (child = Head(todo) /\ child \notin Supervised)
  /\ pc \in {"spawn", "spawned"} => phase = "spawning"
  /\ pc = "cleanup" /\ phase = "active" => child = "none"
  /\ pc = "supervised" => known
  /\ pc \in {"cleanup", "restore"} /\ code = "ok" => child = "none" /\ ~known
  /\ pc \in {"cleanup", "restore"} /\ code \notin {"interrupted", "unkilled"}
       => child = "none" \/ ~known
  /\ pc = "kill" => told
  /\ pc \notin {"cleanup", "restore", "idle"} => code # "unkilled"
  /\ pc \in {"cleanup", "restore"} /\ code = "unkilled" => told

(* What has been noted of signals, and what waits for the child.           *)
Noted ==
  /\ pc \in {"mkdir", "public", "plain"} => ~asked
  /\ pc \in {"mkdir"} \cup PublicPart => phase = "inactive" /\ code = "ok"
  /\ pc \in {"supervise", "started"} /\ asked => held
  /\ pc \in {"profiles", "validate", "spawn", "spawned", "wait", "terminate", "kill"} => ~held
  /\ pc \in {"cleanup", "restore"} /\ known => ~held
  /\ code \in Endings

(* Every public stage has succeeded or is still to do, and an exit status  *)
(* exists only when the run is over.                                       *)
Counted ==
  /\ pc # "idle" => exit = "none" /\ ToSet(Stages(opt)) = done \cup ToSet(todo)
  /\ pc \in {"plain"} \cup Supervising => todo # <<>>
  /\ pc \in PrivatePart \cup {"public", "plain"} => ~unsure
  /\ pc = "idle" => phase = "inactive"

IInv ==
  /\ TypeOK /\ Emptied /\ Located /\ Noted /\ Counted
  /\ SecretsGone /\ SignalReachesChild /\ SuccessIsWhole

-----------------------------------------------------------------------------
(* The stages and what is left of them *)

(* The stages of a command line are public stages.                         *)
LEMMA StagesTyped ==
  ASSUME NEW o
  PROVE  Stages(o) \in Seq(Public)
<1> DEFINE G(wanted, stage) == IF wanted THEN <<stage>> ELSE <<>>
           S(stage) == G(o.apply /\ stage \notin o.skip, stage)
<1>1. ASSUME NEW wanted, NEW stage \in Public
      PROVE  G(wanted, stage) \in Seq(Public)
  <2>1. <<stage>> \in Seq(Public) /\ <<>> \in Seq(Public)
    OBVIOUS
  <2>2. QED
    BY <2>1
<1>2. Stages(o) = <<"plan">> \o G(~o.install, "consent") \o G(o.bootstrap, "bootstrap")
       \o S("preflight") \o S("backup") \o G(o.apply, "install")
       \o S("healthcheck") \o G(o.autostart, "autostart")
  BY Zenon DEF Stages
<1>3. ASSUME NEW s \in Seq(Public), NEW t \in Seq(Public)
      PROVE  s \o t \in Seq(Public)
  BY ConcatProperties
<1>4. {"plan", "consent", "bootstrap", "preflight", "backup", "install", "healthcheck",
       "autostart"} \subseteq Public
  BY DEF Public
<1>5. <<"plan">> \in Seq(Public)
  BY <1>1, <1>4
<1> HIDE DEF G
<1>6. QED
  BY <1>1, <1>2, <1>3, <1>4, <1>5

(* What is to do is the first stage and what comes after it.               *)
LEMMA TakeFirst ==
  ASSUME NEW s \in Seq(Public), s # <<>>
  PROVE  /\ Head(s) \in Public /\ Tail(s) \in Seq(Public)
         /\ ToSet(s) = {Head(s)} \cup ToSet(Tail(s))
<1>1. /\ Head(s) \in Public /\ Tail(s) \in Seq(Public) /\ Len(Tail(s)) = Len(s) - 1
      /\ \A i \in 1..Len(Tail(s)) : Tail(s)[i] = s[i + 1]
  BY HeadTailProperties
<1>2. Head(s) = s[1] /\ DOMAIN s = 1..Len(s) /\ Len(s) \in Nat \ {0}
  BY EmptySeq, LenProperties
<1>3. DOMAIN Tail(s) = 1..Len(Tail(s))
  BY <1>1, LenProperties
<1>4. ASSUME NEW i \in 1..Len(s)
      PROVE  s[i] \in {Head(s)} \cup ToSet(Tail(s))
  <2>1. CASE i = 1
    BY <1>2, <2>1
  <2>2. CASE i # 1
    <3>1. i - 1 \in 1..Len(Tail(s)) /\ (i - 1) + 1 = i
      BY <1>1, <1>2, <2>2
    <3>2. Tail(s)[i - 1] = s[i]
      BY <1>1, <3>1
    <3>3. QED
      BY <1>3, <3>1, <3>2 DEF ToSet
  <2>3. QED
    BY <2>1, <2>2
<1>5. ASSUME NEW i \in 1..Len(Tail(s))
      PROVE  Tail(s)[i] \in ToSet(s)
  <2>1. i + 1 \in DOMAIN s /\ Tail(s)[i] = s[i + 1]
    BY <1>1, <1>2
  <2>2. QED
    BY <2>1 DEF ToSet
<1>6. Head(s) \in ToSet(s)
  BY <1>2 DEF ToSet
<1>7. ToSet(s) = {s[i] : i \in 1..Len(s)} /\ ToSet(Tail(s)) = {Tail(s)[i] : i \in 1..Len(Tail(s))}
  BY <1>2, <1>3 DEF ToSet
<1>8. QED
  BY <1>1, <1>4, <1>5, <1>6, <1>7

-----------------------------------------------------------------------------
(* Each part of the invariant is preserved *)

(* The initial states satisfy the invariant.                               *)
LEMMA InitInv == Init => IInv
<1> SUFFICES ASSUME Init
             PROVE  IInv
  OBVIOUS
<1>1. TypeOK
  <2>1. opt \in Command /\ <<>> \in Seq(Public) /\ 0 \in 0..MaxFaults
    BY SetupAssumption DEF Init
  <2>2. QED
    BY <2>1, ZenonT(30) DEF Init, TypeOK, Endings
<1>2. Emptied /\ Located /\ Noted /\ Counted /\ SecretsGone /\ SignalReachesChild /\ SuccessIsWhole
  BY ZenonT(30) DEF Init, Emptied, Located, Noted, Counted, SecretsGone, SignalReachesChild,
     SuccessIsWhole, PrivatePart, Supervising, PublicPart, Private, Endings
<1>3. QED
  BY <1>1, <1>2 DEF IInv

(* The workspace is followed through every step.                           *)
LEMMA EmptiedStep ==
  ASSUME Emptied, Located, Noted, Next
  PROVE  Emptied'
<1> USE DEF Emptied, Located, Noted, PrivatePart, Supervising, PublicPart, Private
<1>1. CASE Start
  BY <1>1, ZenonT(30) DEF Start, process
<1>2. CASE MakeWorkspace
  BY <1>2, ZenonT(30) DEF MakeWorkspace, process, signals, plan
<1>3. CASE InstallHandlers
  BY <1>3, ZenonT(30) DEF InstallHandlers, process, plan
<1>4. CASE ReuseProfiles
  BY <1>4, ZenonT(30) DEF ReuseProfiles, process, signals, plan
<1>5. CASE AcquireProfiles
  BY <1>5, ZenonT(30) DEF AcquireProfiles, process, plan, BeginSpawn
<1>6. CASE Validate
  BY <1>6, ZenonT(30) DEF Validate, process, signals, plan, BeginSpawn
<1>7. CASE Spawn
  BY <1>7, ZenonT(30) DEF Spawn, signals, plan
<1>8. CASE ChildStarted
  BY <1>8, ZenonT(30) DEF ChildStarted, plan
<1>9. CASE Reap
  BY <1>9, ZenonT(30) DEF Reap, signals, plan
<1>10. CASE Terminate
  BY <1>10, ZenonT(30) DEF Terminate, signals, plan
<1>11. CASE ForceEnd
  BY <1>11, ZenonT(30) DEF ForceEnd, plan
<1>12. CASE Cleanup
  BY <1>12, ZenonT(30) DEF Cleanup, process, plan
<1>13. CASE RestoreHandlers
  BY <1>13, ZenonT(30) DEF RestoreHandlers, process, plan, End, FinalCode
<1>14. CASE Consent
  BY <1>14, ZenonT(30) DEF Consent, process, plan, End
<1>15. CASE StartPlain
  BY <1>15, ZenonT(30) DEF StartPlain, signals, plan
<1>16. CASE EndPlain
  BY <1>16, ZenonT(30) DEF EndPlain, plan, End, Succeed
<1>17. CASE StartSupervised
  BY <1>17, ZenonT(30) DEF StartSupervised, process, plan
<1>18. CASE SpawnSupervised
  BY <1>18, ZenonT(30) DEF SpawnSupervised, signals, plan
<1>19. CASE ForwardPending
  BY <1>19, ZenonT(30) DEF ForwardPending, plan
<1>20. CASE WaitSupervised
  BY <1>20, ZenonT(30) DEF WaitSupervised, signals, plan
<1>21. CASE EndSupervised
  BY <1>21, ZenonT(30) DEF EndSupervised, plan, End, Succeed, SupervisedResult
<1>22. CASE Finish
  BY <1>22, ZenonT(30) DEF Finish, plan, End
<1>23. CASE MakeFails
  BY <1>23, ZenonT(30) DEF MakeFails, plan, End
<1>24. CASE HandlersFail
  BY <1>24, ZenonT(30) DEF HandlersFail, process, signals, plan
<1>25. CASE SpawnFails
  BY <1>25, ZenonT(30) DEF SpawnFails, process, plan
<1>26. CASE SupervisedFails
  BY <1>26, ZenonT(30) DEF SupervisedFails, signals, plan
<1>27. CASE WaitFails
  BY <1>27, ZenonT(30) DEF WaitFails, process, signals, plan
<1>28. CASE ChildWrites
  BY <1>28, ZenonT(30) DEF ChildWrites, process, signals, plan
<1>29. CASE ChildEnds
  BY <1>29, ZenonT(30) DEF ChildEnds, signals, plan
<1>30. CASE StrayEnds
  BY <1>30, ZenonT(30) DEF StrayEnds, process, signals, plan
<1>31. CASE SignalBlocked
  BY <1>31, ZenonT(30) DEF SignalBlocked, process, plan
<1>32. CASE SignalRaised
  BY <1>32, ZenonT(30) DEF SignalRaised, process, plan
<1>33. CASE SignalEscapes
  BY <1>33, ZenonT(30) DEF SignalEscapes, plan, End
<1>34. CASE SignalNoted
  BY <1>34, ZenonT(30) DEF SignalNoted, process, plan
<1>35. CASE SignalForwarded
  BY <1>35, ZenonT(30) DEF SignalForwarded, plan
<1>36. CASE SignalDefault
  BY <1>36, ZenonT(30) DEF SignalDefault, plan, End
<1>37. CASE Interrupt
  BY <1>37, ZenonT(30) DEF Interrupt, process, plan
<1>38. CASE InterruptEnds
  BY <1>38, ZenonT(30) DEF InterruptEnds, plan
<1>39. CASE Kill
  BY <1>39, ZenonT(30) DEF Kill, plan, End
<1>40. CASE ForceTimesOut
  BY <1>40, ZenonT(30) DEF ForceTimesOut, plan
<1>41. QED
  BY <1>1, <1>2, <1>3, <1>4, <1>5, <1>6, <1>7, <1>8, <1>9, <1>10, <1>11, <1>12, <1>13,
     <1>14, <1>15, <1>16, <1>17, <1>18, <1>19, <1>20, <1>21, <1>22, <1>23, <1>24, <1>25,
     <1>26, <1>27, <1>28, <1>29, <1>30, <1>31, <1>32, <1>33, <1>34, <1>35, <1>36, <1>37,
     <1>38, <1>39, <1>40 DEF Next, Run, Failures, Children, Others

(* The child is followed through every step.                               *)
LEMMA LocatedStep ==
  ASSUME Located, Noted, Next
  PROVE  Located'
<1> USE DEF Located, Noted, PrivatePart, Supervising, PublicPart, Private, Endings
<1>1. CASE Start
  BY <1>1, ZenonT(30) DEF Start, process
<1>2. CASE MakeWorkspace
  BY <1>2, ZenonT(30) DEF MakeWorkspace, process, signals, plan
<1>3. CASE InstallHandlers
  BY <1>3, ZenonT(30) DEF InstallHandlers, process, plan
<1>4. CASE ReuseProfiles
  BY <1>4, ZenonT(30) DEF ReuseProfiles, process, signals, plan
<1>5. CASE AcquireProfiles
  BY <1>5, ZenonT(30) DEF AcquireProfiles, process, plan, BeginSpawn
<1>6. CASE Validate
  <2>1. pc = "validate" /\ UNCHANGED <<child, known>>
    BY <1>6, ZenonT(30) DEF Validate, BeginSpawn, process
  <2>2. child' = "none" /\ ~known'
    BY <2>1
  <2>3. \/ pc' = "spawn" /\ next' = "generator" /\ phase' = "spawning" /\ code' = code
        \/ pc' = "cleanup" /\ code' = "failed"
    BY <1>6, ZenonT(30) DEF Validate, BeginSpawn
  <2>4. QED
    BY <2>1, <2>2, <2>3, ZenonT(30)
<1>7. CASE Spawn
  <2>1. pc = "spawn" /\ pc' = "spawned" /\ UNCHANGED <<known, phase, code>> /\ child' = next
    BY <1>7 DEF Spawn, signals
  <2>2. ~known' /\ child' \in Private
    BY <2>1
  <2>3. QED
    BY <2>1, <2>2, ZenonT(30)
<1>8. CASE ChildStarted
  BY <1>8, ZenonT(30) DEF ChildStarted, plan
<1>9. CASE Reap
  BY <1>9, ZenonT(30) DEF Reap, signals, plan
<1>10. CASE Terminate
  BY <1>10, ZenonT(30) DEF Terminate, signals, plan
<1>11. CASE ForceEnd
  BY <1>11, ZenonT(30) DEF ForceEnd, plan
<1>12. CASE Cleanup
  BY <1>12, ZenonT(30) DEF Cleanup, process, plan
<1>13. CASE RestoreHandlers
  BY <1>13, ZenonT(30) DEF RestoreHandlers, process, plan, End, FinalCode
<1>14. CASE Consent
  <2>1. /\ pc = "public" /\ pc' \in {"public", "idle"}
        /\ UNCHANGED <<child, known>> \/ (child' = "none" /\ ~known')
        /\ UNCHANGED code
    BY <1>14, ZenonT(30) DEF Consent, End, process
  <2>2. child' = "none" /\ ~known' /\ code' # "unkilled"
    BY <2>1
  <2>3. QED
    BY <2>1, <2>2, ZenonT(30)
<1>15. CASE StartPlain
  BY <1>15, ZenonT(30) DEF StartPlain, signals, plan
<1>16. CASE EndPlain
  BY <1>16, ZenonT(30) DEF EndPlain, plan, End, Succeed
<1>17. CASE StartSupervised
  BY <1>17, ZenonT(30) DEF StartSupervised, process, plan
<1>18. CASE SpawnSupervised
  BY <1>18, ZenonT(30) DEF SpawnSupervised, signals, plan
<1>19. CASE ForwardPending
  BY <1>19, ZenonT(30) DEF ForwardPending, plan
<1>20. CASE WaitSupervised
  BY <1>20, ZenonT(30) DEF WaitSupervised, signals, plan
<1>21. CASE EndSupervised
  BY <1>21, ZenonT(30) DEF EndSupervised, plan, End, Succeed, SupervisedResult
<1>22. CASE Finish
  BY <1>22, ZenonT(30) DEF Finish, plan, End
<1>23. CASE MakeFails
  BY <1>23, ZenonT(30) DEF MakeFails, plan, End
<1>24. CASE HandlersFail
  BY <1>24, ZenonT(30) DEF HandlersFail, process, signals, plan
<1>25. CASE SpawnFails
  BY <1>25, ZenonT(30) DEF SpawnFails, process, plan
<1>26. CASE SupervisedFails
  BY <1>26, ZenonT(30) DEF SupervisedFails, signals, plan
<1>27. CASE WaitFails
  BY <1>27, ZenonT(30) DEF WaitFails, process, signals, plan
<1>28. CASE ChildWrites
  BY <1>28, ZenonT(30) DEF ChildWrites, process, signals, plan
<1>29. CASE ChildEnds
  BY <1>29, ZenonT(30) DEF ChildEnds, signals, plan
<1>30. CASE StrayEnds
  BY <1>30, ZenonT(30) DEF StrayEnds, process, signals, plan
<1>31. CASE SignalBlocked
  BY <1>31, ZenonT(30) DEF SignalBlocked, process, plan
<1>32. CASE SignalRaised
  BY <1>32, ZenonT(30) DEF SignalRaised, process, plan
<1>33. CASE SignalEscapes
  BY <1>33, ZenonT(30) DEF SignalEscapes, plan, End
<1>34. CASE SignalNoted
  BY <1>34, ZenonT(30) DEF SignalNoted, process, plan
<1>35. CASE SignalForwarded
  BY <1>35, ZenonT(30) DEF SignalForwarded, plan
<1>36. CASE SignalDefault
  BY <1>36, ZenonT(30) DEF SignalDefault, plan, End
<1>37. CASE Interrupt
  BY <1>37, ZenonT(30) DEF Interrupt, process, plan
<1>38. CASE InterruptEnds
  BY <1>38, ZenonT(30) DEF InterruptEnds, plan
<1>39. CASE Kill
  BY <1>39, ZenonT(30) DEF Kill, plan, End
<1>40. CASE ForceTimesOut
  BY <1>40, ZenonT(30) DEF ForceTimesOut, plan
<1>41. QED
  BY <1>1, <1>2, <1>3, <1>4, <1>5, <1>6, <1>7, <1>8, <1>9, <1>10, <1>11, <1>12, <1>13,
     <1>14, <1>15, <1>16, <1>17, <1>18, <1>19, <1>20, <1>21, <1>22, <1>23, <1>24, <1>25,
     <1>26, <1>27, <1>28, <1>29, <1>30, <1>31, <1>32, <1>33, <1>34, <1>35, <1>36, <1>37,
     <1>38, <1>39, <1>40 DEF Next, Run, Failures, Children, Others

(* Signals and doubts are followed through every step.                     *)
LEMMA NotedStep ==
  ASSUME Emptied, Located, Noted, Next
  PROVE  Noted'
<1> USE DEF Emptied, Located, Noted, PrivatePart, Supervising, PublicPart, Endings
<1>1. CASE Start
  BY <1>1, ZenonT(30) DEF Start, process
<1>2. CASE MakeWorkspace
  BY <1>2, ZenonT(30) DEF MakeWorkspace, process, signals, plan
<1>3. CASE InstallHandlers
  BY <1>3, ZenonT(30) DEF InstallHandlers, process, plan
<1>4. CASE ReuseProfiles
  BY <1>4, ZenonT(30) DEF ReuseProfiles, process, signals, plan
<1>5. CASE AcquireProfiles
  BY <1>5, ZenonT(30) DEF AcquireProfiles, process, plan, BeginSpawn
<1>6. CASE Validate
  <2>1. pc = "validate" /\ UNCHANGED <<asked, held, known>>
    BY <1>6, ZenonT(30) DEF Validate, BeginSpawn, process, signals
  <2>2. pc' \in {"spawn", "cleanup"} /\ code' \in {code, "failed"}
    BY <1>6, ZenonT(30) DEF Validate, BeginSpawn
  <2>3. ~held' /\ code' \in Endings
    BY <2>1, <2>2
  <2>4. QED
    BY <2>1, <2>2, <2>3
<1>7. CASE Spawn
  BY <1>7, ZenonT(30) DEF Spawn, signals, plan
<1>8. CASE ChildStarted
  BY <1>8, ZenonT(30) DEF ChildStarted, plan
<1>9. CASE Reap
  BY <1>9, ZenonT(30) DEF Reap, signals, plan
<1>10. CASE Terminate
  BY <1>10, ZenonT(30) DEF Terminate, signals, plan
<1>11. CASE ForceEnd
  BY <1>11, ZenonT(30) DEF ForceEnd, plan
<1>12. CASE Cleanup
  BY <1>12, ZenonT(30) DEF Cleanup, process, plan
<1>13. CASE RestoreHandlers
  BY <1>13, ZenonT(30) DEF RestoreHandlers, process, plan, End, FinalCode
<1>14. CASE Consent
  BY <1>14, ZenonT(30) DEF Consent, process, plan, End
<1>15. CASE StartPlain
  BY <1>15, ZenonT(30) DEF StartPlain, signals, plan
<1>16. CASE EndPlain
  BY <1>16, ZenonT(30) DEF EndPlain, plan, End, Succeed
<1>17. CASE StartSupervised
  BY <1>17, ZenonT(30) DEF StartSupervised, process, plan
<1>18. CASE SpawnSupervised
  BY <1>18, ZenonT(30) DEF SpawnSupervised, signals, plan
<1>19. CASE ForwardPending
  BY <1>19, ZenonT(30) DEF ForwardPending, plan
<1>20. CASE WaitSupervised
  BY <1>20, ZenonT(30) DEF WaitSupervised, signals, plan
<1>21. CASE EndSupervised
  BY <1>21, ZenonT(30) DEF EndSupervised, plan, End, Succeed, SupervisedResult
<1>22. CASE Finish
  BY <1>22, ZenonT(30) DEF Finish, plan, End
<1>23. CASE MakeFails
  BY <1>23, ZenonT(30) DEF MakeFails, plan, End
<1>24. CASE HandlersFail
  BY <1>24, ZenonT(30) DEF HandlersFail, process, signals, plan
<1>25. CASE SpawnFails
  BY <1>25, ZenonT(30) DEF SpawnFails, process, plan
<1>26. CASE SupervisedFails
  BY <1>26, ZenonT(30) DEF SupervisedFails, signals, plan
<1>27. CASE WaitFails
  BY <1>27, ZenonT(30) DEF WaitFails, process, signals, plan
<1>28. CASE ChildWrites
  BY <1>28, ZenonT(30) DEF ChildWrites, process, signals, plan
<1>29. CASE ChildEnds
  BY <1>29, ZenonT(30) DEF ChildEnds, signals, plan
<1>30. CASE StrayEnds
  BY <1>30, ZenonT(30) DEF StrayEnds, process, signals, plan
<1>31. CASE SignalBlocked
  BY <1>31, ZenonT(30) DEF SignalBlocked, process, plan
<1>32. CASE SignalRaised
  BY <1>32, ZenonT(30) DEF SignalRaised, process, plan
<1>33. CASE SignalEscapes
  BY <1>33, ZenonT(30) DEF SignalEscapes, plan, End
<1>34. CASE SignalNoted
  BY <1>34, ZenonT(30) DEF SignalNoted, process, plan
<1>35. CASE SignalForwarded
  BY <1>35, ZenonT(30) DEF SignalForwarded, plan
<1>36. CASE SignalDefault
  BY <1>36, ZenonT(30) DEF SignalDefault, plan, End
<1>37. CASE Interrupt
  BY <1>37, ZenonT(30) DEF Interrupt, process, plan
<1>38. CASE InterruptEnds
  BY <1>38, ZenonT(30) DEF InterruptEnds, plan
<1>39. CASE Kill
  BY <1>39, ZenonT(30) DEF Kill, plan, End
<1>40. CASE ForceTimesOut
  BY <1>40, ZenonT(30) DEF ForceTimesOut, plan
<1>41. QED
  BY <1>1, <1>2, <1>3, <1>4, <1>5, <1>6, <1>7, <1>8, <1>9, <1>10, <1>11, <1>12, <1>13,
     <1>14, <1>15, <1>16, <1>17, <1>18, <1>19, <1>20, <1>21, <1>22, <1>23, <1>24, <1>25,
     <1>26, <1>27, <1>28, <1>29, <1>30, <1>31, <1>32, <1>33, <1>34, <1>35, <1>36, <1>37,
     <1>38, <1>39, <1>40 DEF Next, Run, Failures, Children, Others

(* A run ends without the secrets, or says that it does not know.          *)
LEMMA SecretsStep ==
  ASSUME Emptied, Located, Noted, SecretsGone, Next
  PROVE  SecretsGone'
<1> USE DEF Emptied, Located, Noted, SecretsGone, PrivatePart, Supervising, PublicPart,
   Private, Endings
<1>1. CASE Start
  BY <1>1, ZenonT(30) DEF Start, process
<1>2. CASE MakeWorkspace
  BY <1>2, ZenonT(30) DEF MakeWorkspace, process, signals, plan
<1>3. CASE InstallHandlers
  BY <1>3, ZenonT(30) DEF InstallHandlers, process, plan
<1>4. CASE ReuseProfiles
  BY <1>4, ZenonT(30) DEF ReuseProfiles, process, signals, plan
<1>5. CASE AcquireProfiles
  BY <1>5, ZenonT(30) DEF AcquireProfiles, process, plan, BeginSpawn
<1>6. CASE Validate
  BY <1>6, ZenonT(30) DEF Validate, process, signals, plan, BeginSpawn
<1>7. CASE Spawn
  BY <1>7, ZenonT(30) DEF Spawn, signals, plan
<1>8. CASE ChildStarted
  BY <1>8, ZenonT(30) DEF ChildStarted, plan
<1>9. CASE Reap
  BY <1>9, ZenonT(30) DEF Reap, signals, plan
<1>10. CASE Terminate
  BY <1>10, ZenonT(30) DEF Terminate, signals, plan
<1>11. CASE ForceEnd
  BY <1>11, ZenonT(30) DEF ForceEnd, plan
<1>12. CASE Cleanup
  BY <1>12, ZenonT(30) DEF Cleanup, process, plan
<1>13. CASE RestoreHandlers
  BY <1>13, ZenonT(30) DEF RestoreHandlers, process, plan, End, FinalCode
<1>14. CASE Consent
  BY <1>14, ZenonT(30) DEF Consent, process, plan, End
<1>15. CASE StartPlain
  BY <1>15, ZenonT(30) DEF StartPlain, signals, plan
<1>16. CASE EndPlain
  BY <1>16, ZenonT(30) DEF EndPlain, plan, End, Succeed
<1>17. CASE StartSupervised
  BY <1>17, ZenonT(30) DEF StartSupervised, process, plan
<1>18. CASE SpawnSupervised
  BY <1>18, ZenonT(30) DEF SpawnSupervised, signals, plan
<1>19. CASE ForwardPending
  BY <1>19, ZenonT(30) DEF ForwardPending, plan
<1>20. CASE WaitSupervised
  BY <1>20, ZenonT(30) DEF WaitSupervised, signals, plan
<1>21. CASE EndSupervised
  BY <1>21, ZenonT(30) DEF EndSupervised, plan, End, Succeed, SupervisedResult
<1>22. CASE Finish
  BY <1>22, ZenonT(30) DEF Finish, plan, End
<1>23. CASE MakeFails
  BY <1>23, ZenonT(30) DEF MakeFails, plan, End
<1>24. CASE HandlersFail
  BY <1>24, ZenonT(30) DEF HandlersFail, process, signals, plan
<1>25. CASE SpawnFails
  BY <1>25, ZenonT(30) DEF SpawnFails, process, plan
<1>26. CASE SupervisedFails
  BY <1>26, ZenonT(30) DEF SupervisedFails, signals, plan
<1>27. CASE WaitFails
  BY <1>27, ZenonT(30) DEF WaitFails, process, signals, plan
<1>28. CASE ChildWrites
  BY <1>28, ZenonT(30) DEF ChildWrites, process, signals, plan
<1>29. CASE ChildEnds
  BY <1>29, ZenonT(30) DEF ChildEnds, signals, plan
<1>30. CASE StrayEnds
  BY <1>30, ZenonT(30) DEF StrayEnds, process, signals, plan
<1>31. CASE SignalBlocked
  BY <1>31, ZenonT(30) DEF SignalBlocked, process, plan
<1>32. CASE SignalRaised
  BY <1>32, ZenonT(30) DEF SignalRaised, process, plan
<1>33. CASE SignalEscapes
  BY <1>33, ZenonT(30) DEF SignalEscapes, plan, End
<1>34. CASE SignalNoted
  BY <1>34, ZenonT(30) DEF SignalNoted, process, plan
<1>35. CASE SignalForwarded
  BY <1>35, ZenonT(30) DEF SignalForwarded, plan
<1>36. CASE SignalDefault
  BY <1>36, ZenonT(30) DEF SignalDefault, plan, End
<1>37. CASE Interrupt
  BY <1>37, ZenonT(30) DEF Interrupt, process, plan
<1>38. CASE InterruptEnds
  BY <1>38, ZenonT(30) DEF InterruptEnds, plan
<1>39. CASE Kill
  BY <1>39, ZenonT(30) DEF Kill, plan, End
<1>40. CASE ForceTimesOut
  BY <1>40, ZenonT(30) DEF ForceTimesOut, plan
<1>41. QED
  BY <1>1, <1>2, <1>3, <1>4, <1>5, <1>6, <1>7, <1>8, <1>9, <1>10, <1>11, <1>12, <1>13,
     <1>14, <1>15, <1>16, <1>17, <1>18, <1>19, <1>20, <1>21, <1>22, <1>23, <1>24, <1>25,
     <1>26, <1>27, <1>28, <1>29, <1>30, <1>31, <1>32, <1>33, <1>34, <1>35, <1>36, <1>37,
     <1>38, <1>39, <1>40 DEF Next, Run, Failures, Children, Others

(* What was noted before the child had a handle is passed on.              *)
LEMMA ReachStep ==
  ASSUME Located, Noted, SignalReachesChild, Next
  PROVE  SignalReachesChild'
<1> USE DEF Located, Noted, SignalReachesChild, PrivatePart, Supervising, PublicPart
<1>1. CASE Start
  BY <1>1, ZenonT(30) DEF Start, process
<1>2. CASE MakeWorkspace
  BY <1>2, ZenonT(30) DEF MakeWorkspace, process, signals, plan
<1>3. CASE InstallHandlers
  BY <1>3, ZenonT(30) DEF InstallHandlers, process, plan
<1>4. CASE ReuseProfiles
  BY <1>4, ZenonT(30) DEF ReuseProfiles, process, signals, plan
<1>5. CASE AcquireProfiles
  BY <1>5, ZenonT(30) DEF AcquireProfiles, process, plan, BeginSpawn
<1>6. CASE Validate
  BY <1>6, ZenonT(30) DEF Validate, process, signals, plan, BeginSpawn
<1>7. CASE Spawn
  BY <1>7, ZenonT(30) DEF Spawn, signals, plan
<1>8. CASE ChildStarted
  BY <1>8, ZenonT(30) DEF ChildStarted, plan
<1>9. CASE Reap
  BY <1>9, ZenonT(30) DEF Reap, signals, plan
<1>10. CASE Terminate
  BY <1>10, ZenonT(30) DEF Terminate, signals, plan
<1>11. CASE ForceEnd
  BY <1>11, ZenonT(30) DEF ForceEnd, plan
<1>12. CASE Cleanup
  BY <1>12, ZenonT(30) DEF Cleanup, process, plan
<1>13. CASE RestoreHandlers
  BY <1>13, ZenonT(30) DEF RestoreHandlers, process, plan, End, FinalCode
<1>14. CASE Consent
  BY <1>14, ZenonT(30) DEF Consent, process, plan, End
<1>15. CASE StartPlain
  BY <1>15, ZenonT(30) DEF StartPlain, signals, plan
<1>16. CASE EndPlain
  BY <1>16, ZenonT(30) DEF EndPlain, plan, End, Succeed
<1>17. CASE StartSupervised
  BY <1>17, ZenonT(30) DEF StartSupervised, process, plan
<1>18. CASE SpawnSupervised
  BY <1>18, ZenonT(30) DEF SpawnSupervised, signals, plan
<1>19. CASE ForwardPending
  BY <1>19, ZenonT(30) DEF ForwardPending, plan
<1>20. CASE WaitSupervised
  BY <1>20, ZenonT(30) DEF WaitSupervised, signals, plan
<1>21. CASE EndSupervised
  BY <1>21, ZenonT(30) DEF EndSupervised, plan, End, Succeed, SupervisedResult
<1>22. CASE Finish
  BY <1>22, ZenonT(30) DEF Finish, plan, End
<1>23. CASE MakeFails
  BY <1>23, ZenonT(30) DEF MakeFails, plan, End
<1>24. CASE HandlersFail
  BY <1>24, ZenonT(30) DEF HandlersFail, process, signals, plan
<1>25. CASE SpawnFails
  BY <1>25, ZenonT(30) DEF SpawnFails, process, plan
<1>26. CASE SupervisedFails
  BY <1>26, ZenonT(30) DEF SupervisedFails, signals, plan
<1>27. CASE WaitFails
  BY <1>27, ZenonT(30) DEF WaitFails, process, signals, plan
<1>28. CASE ChildWrites
  BY <1>28, ZenonT(30) DEF ChildWrites, process, signals, plan
<1>29. CASE ChildEnds
  BY <1>29, ZenonT(30) DEF ChildEnds, signals, plan
<1>30. CASE StrayEnds
  BY <1>30, ZenonT(30) DEF StrayEnds, process, signals, plan
<1>31. CASE SignalBlocked
  BY <1>31, ZenonT(30) DEF SignalBlocked, process, plan
<1>32. CASE SignalRaised
  BY <1>32, ZenonT(30) DEF SignalRaised, process, plan
<1>33. CASE SignalEscapes
  BY <1>33, ZenonT(30) DEF SignalEscapes, plan, End
<1>34. CASE SignalNoted
  BY <1>34, ZenonT(30) DEF SignalNoted, process, plan
<1>35. CASE SignalForwarded
  BY <1>35, ZenonT(30) DEF SignalForwarded, plan
<1>36. CASE SignalDefault
  BY <1>36, ZenonT(30) DEF SignalDefault, plan, End
<1>37. CASE Interrupt
  BY <1>37, ZenonT(30) DEF Interrupt, process, plan
<1>38. CASE InterruptEnds
  BY <1>38, ZenonT(30) DEF InterruptEnds, plan
<1>39. CASE Kill
  BY <1>39, ZenonT(30) DEF Kill, plan, End
<1>40. CASE ForceTimesOut
  BY <1>40, ZenonT(30) DEF ForceTimesOut, plan
<1>41. QED
  BY <1>1, <1>2, <1>3, <1>4, <1>5, <1>6, <1>7, <1>8, <1>9, <1>10, <1>11, <1>12, <1>13,
     <1>14, <1>15, <1>16, <1>17, <1>18, <1>19, <1>20, <1>21, <1>22, <1>23, <1>24, <1>25,
     <1>26, <1>27, <1>28, <1>29, <1>30, <1>31, <1>32, <1>33, <1>34, <1>35, <1>36, <1>37,
     <1>38, <1>39, <1>40 DEF Next, Run, Failures, Children, Others

(* Every variable keeps its type.                                          *)
LEMMA TypeStep ==
  ASSUME TypeOK, Counted, Next
  PROVE  TypeOK'
<1> USE DEF Next, Run, Failures, Children, Others, End, BeginSpawn,
       Start, MakeWorkspace, InstallHandlers, ReuseProfiles, AcquireProfiles, Validate,
       Spawn, ChildStarted, Reap, Terminate, ForceEnd, ForceTimesOut, Cleanup, StartPlain,
       StartSupervised, SpawnSupervised, ForwardPending, WaitSupervised, HandlersFail,
       SpawnFails, SupervisedFails, WaitFails, ChildWrites, ChildEnds, StrayEnds,
       SignalBlocked, SignalRaised, SignalEscapes, SignalNoted, SignalForwarded,
       SignalDefault, Interrupt, InterruptEnds, Kill, process, plan, signals, Succeed,
       EndPlain, EndSupervised, Finish, Consent, RestoreHandlers, MakeFails
<1>1. workspace' \in {"none", "empty", "profiles"}
  BY ZenonT(60) DEF TypeOK
<1>2. /\ known' \in BOOLEAN /\ told' \in BOOLEAN /\ asked' \in BOOLEAN
      /\ held' \in BOOLEAN /\ unsure' \in BOOLEAN /\ warned' \in BOOLEAN
  BY ZenonT(60) DEF TypeOK
<1>3. status' \in {"none", "ok", "bad"}
  BY ZenonT(60) DEF TypeOK
<1>4. phase' \in {"inactive", "active", "spawning", "shutdown", "terminating", "cleanup"}
  BY ZenonT(60) DEF TypeOK
<1>5. code' \in Endings
  BY ZenonT(60) DEF TypeOK, Endings
<1>6. exit' \in Endings \cup {"none", "killed", "terminated", "crashed"}
  BY ZenonT(60) DEF TypeOK, Endings, SupervisedResult, FinalCode
<1>7. pc' \in {"idle", "mkdir", "handlers", "profiles", "validate", "spawn", "spawned", "wait",
               "terminate", "kill", "cleanup", "restore", "public", "plain", "supervise",
               "started", "supervised", "reaped"}
  BY ZenonT(60) DEF TypeOK
<1>8. /\ todo # <<>> => /\ Head(todo) \in Public /\ Tail(todo) \in Seq(Public)
      /\ {"profile source", "generator"} \subseteq Private /\ "consent" \in Public
  BY TakeFirst DEF TypeOK, Private, Public
<1>9. /\ child' \in Private \cup Public \cup {"none"} /\ next' \in Private \cup Public \cup {"none"}
      /\ stray' \subseteq Private \cup Public
  BY <1>8, ZenonT(60) DEF TypeOK
<1>10. pc \in {"plain", "reaped"} => todo # <<>>
  BY DEF Counted, Supervising
<1>11. \/ UNCHANGED <<opt, todo, done>>
       \/ opt' \in Options /\ todo' = Stages(opt') /\ done' = {}
       \/ opt' = opt /\ todo # <<>> /\ todo' = Tail(todo) /\ done' = done \cup {Head(todo)}
  BY <1>10, ZenonT(60)
<1>12. Smooth \/ Fault
  BY ZenonT(60)
<1> HIDE DEF Next, Run, Failures, Children, Others, End, BeginSpawn,
       Start, MakeWorkspace, InstallHandlers, ReuseProfiles, AcquireProfiles, Validate,
       Spawn, ChildStarted, Reap, Terminate, ForceEnd, ForceTimesOut, Cleanup, StartPlain,
       StartSupervised, SpawnSupervised, ForwardPending, WaitSupervised, HandlersFail,
       SpawnFails, SupervisedFails, WaitFails, ChildWrites, ChildEnds, StrayEnds,
       SignalBlocked, SignalRaised, SignalEscapes, SignalNoted, SignalForwarded,
       SignalDefault, Interrupt, InterruptEnds, Kill, process, plan, signals, Succeed,
       EndPlain, EndSupervised, Finish, Consent, RestoreHandlers, MakeFails
<1>13. opt' \in Command /\ todo' \in Seq(Public) /\ done' \subseteq Public
  BY <1>8, <1>11, StagesTyped, SetupAssumption DEF TypeOK
<1>14. faults' \in 0..MaxFaults
  BY <1>12, SetupAssumption DEF TypeOK, Smooth, Fault
<1>15. QED
  BY <1>1, <1>2, <1>3, <1>4, <1>5, <1>6, <1>7, <1>9, <1>13, <1>14 DEF TypeOK

(* The stages are followed through every step.                             *)
LEMMA CountedStep ==
  ASSUME TypeOK, Noted, Counted, Next
  PROVE  Counted'
<1> USE DEF Noted, Counted, PrivatePart, Supervising, PublicPart
<1>1. CASE Start
  BY <1>1, ZenonT(30) DEF Start, process
<1>2. CASE MakeWorkspace
  BY <1>2, ZenonT(30) DEF MakeWorkspace, process, signals, plan
<1>3. CASE InstallHandlers
  BY <1>3, ZenonT(30) DEF InstallHandlers, process, plan
<1>4. CASE ReuseProfiles
  BY <1>4, ZenonT(30) DEF ReuseProfiles, process, signals, plan
<1>5. CASE AcquireProfiles
  BY <1>5, ZenonT(30) DEF AcquireProfiles, process, plan, BeginSpawn
<1>6. CASE Validate
  <2>1. pc = "validate" /\ UNCHANGED <<opt, todo, done, unsure, exit>>
    BY <1>6, ZenonT(30) DEF Validate, BeginSpawn, plan
  <2>2. pc' \in {"spawn", "cleanup"}
    BY <1>6, ZenonT(30) DEF Validate, BeginSpawn
  <2>3. QED
    BY <2>1, <2>2, ZenonT(30)
<1>7. CASE Spawn
  BY <1>7, ZenonT(30) DEF Spawn, signals, plan
<1>8. CASE ChildStarted
  BY <1>8, ZenonT(30) DEF ChildStarted, plan
<1>9. CASE Reap
  BY <1>9, ZenonT(30) DEF Reap, signals, plan
<1>10. CASE Terminate
  BY <1>10, ZenonT(30) DEF Terminate, signals, plan
<1>11. CASE ForceEnd
  BY <1>11, ZenonT(30) DEF ForceEnd, plan
<1>12. CASE Cleanup
  BY <1>12, ZenonT(30) DEF Cleanup, process, plan
<1>13. CASE RestoreHandlers
  BY <1>13, ZenonT(30) DEF RestoreHandlers, process, plan, End, FinalCode
<1>14. CASE Consent
  <2>1. todo # <<>> => todo \in Seq(Public) /\ ToSet(todo) = {Head(todo)} \cup ToSet(Tail(todo))
    BY TakeFirst DEF TypeOK
  <2>2. todo # <<>> => (done \cup {Head(todo)}) \cup ToSet(Tail(todo)) = done \cup ToSet(todo)
    BY <2>1
  <2>3. todo # <<>> /\ UNCHANGED opt /\ exit = "none" /\ ToSet(Stages(opt)) = done \cup ToSet(todo)
    BY <1>14, ZenonT(30) DEF Consent, plan, Succeed
  <2>4. \/ pc' = "public" /\ exit' = "none" /\ todo' = Tail(todo) /\ done' = done \cup {Head(todo)}
        \/ pc' = "idle" /\ phase' = "inactive"
    BY <1>14, <2>3, ZenonT(30) DEF Consent, End, plan
  <2>5. ToSet(Stages(opt))' = ToSet(Stages(opt))
    BY <2>3
  <2>6. pc' = "public" => (ToSet(Stages(opt)) = done \cup ToSet(todo))'
    BY <2>2, <2>3, <2>4, <2>5
  <2>7. pc' = "public" => ~unsure'
    BY <1>14, ZenonT(30) DEF Consent, End, plan
  <2>8. QED
    BY <2>4, <2>6, <2>7, ZenonT(30)
<1>15. CASE StartPlain
  BY <1>15, ZenonT(30) DEF StartPlain, signals, plan
<1>16. CASE EndPlain
  <2>1. todo # <<>> => todo \in Seq(Public) /\ ToSet(todo) = {Head(todo)} \cup ToSet(Tail(todo))
    BY TakeFirst DEF TypeOK
  <2>2. todo # <<>> => (done \cup {Head(todo)}) \cup ToSet(Tail(todo)) = done \cup ToSet(todo)
    BY <2>1
  <2>3. todo # <<>> /\ UNCHANGED opt /\ exit = "none" /\ ToSet(Stages(opt)) = done \cup ToSet(todo)
    BY <1>16, ZenonT(30) DEF EndPlain, plan, Succeed
  <2>4. \/ pc' = "public" /\ exit' = "none" /\ todo' = Tail(todo) /\ done' = done \cup {Head(todo)}
        \/ pc' = "idle" /\ phase' = "inactive"
    BY <1>16, <2>3, ZenonT(30) DEF EndPlain, End, Succeed, plan
  <2>5. ToSet(Stages(opt))' = ToSet(Stages(opt))
    BY <2>3
  <2>6. pc' = "public" => (ToSet(Stages(opt)) = done \cup ToSet(todo))'
    BY <2>2, <2>3, <2>4, <2>5
  <2>7. pc' = "public" => ~unsure'
    BY <1>16, ZenonT(30) DEF EndPlain, End, Succeed, plan
  <2>8. QED
    BY <2>4, <2>6, <2>7, ZenonT(30)
<1>17. CASE StartSupervised
  BY <1>17, ZenonT(30) DEF StartSupervised, process, plan
<1>18. CASE SpawnSupervised
  BY <1>18, ZenonT(30) DEF SpawnSupervised, signals, plan
<1>19. CASE ForwardPending
  BY <1>19, ZenonT(30) DEF ForwardPending, plan
<1>20. CASE WaitSupervised
  BY <1>20, ZenonT(30) DEF WaitSupervised, signals, plan
<1>21. CASE EndSupervised
  <2>1. todo # <<>> => todo \in Seq(Public) /\ ToSet(todo) = {Head(todo)} \cup ToSet(Tail(todo))
    BY TakeFirst DEF TypeOK
  <2>2. todo # <<>> => (done \cup {Head(todo)}) \cup ToSet(Tail(todo)) = done \cup ToSet(todo)
    BY <2>1
  <2>3. todo # <<>> /\ UNCHANGED opt /\ exit = "none" /\ ToSet(Stages(opt)) = done \cup ToSet(todo)
    BY <1>21, ZenonT(30) DEF EndSupervised, plan, Succeed
  <2>4. \/ pc' = "public" /\ exit' = "none" /\ todo' = Tail(todo) /\ done' = done \cup {Head(todo)}
        \/ pc' = "idle" /\ phase' = "inactive"
    BY <1>21, <2>3, ZenonT(30) DEF EndSupervised, End, Succeed, plan
  <2>5. ToSet(Stages(opt))' = ToSet(Stages(opt))
    BY <2>3
  <2>6. pc' = "public" => (ToSet(Stages(opt)) = done \cup ToSet(todo))'
    BY <2>2, <2>3, <2>4, <2>5
  <2>7. pc' = "public" => ~unsure'
    BY <1>21, ZenonT(30) DEF EndSupervised, End, Succeed, plan, SupervisedResult
  <2>8. QED
    BY <2>4, <2>6, <2>7, ZenonT(30)
<1>22. CASE Finish
  BY <1>22, ZenonT(30) DEF Finish, plan, End
<1>23. CASE MakeFails
  BY <1>23, ZenonT(30) DEF MakeFails, plan, End
<1>24. CASE HandlersFail
  BY <1>24, ZenonT(30) DEF HandlersFail, process, signals, plan
<1>25. CASE SpawnFails
  BY <1>25, ZenonT(30) DEF SpawnFails, process, plan
<1>26. CASE SupervisedFails
  BY <1>26, ZenonT(30) DEF SupervisedFails, signals, plan
<1>27. CASE WaitFails
  BY <1>27, ZenonT(30) DEF WaitFails, process, signals, plan
<1>28. CASE ChildWrites
  BY <1>28, ZenonT(30) DEF ChildWrites, process, signals, plan
<1>29. CASE ChildEnds
  BY <1>29, ZenonT(30) DEF ChildEnds, signals, plan
<1>30. CASE StrayEnds
  BY <1>30, ZenonT(30) DEF StrayEnds, process, signals, plan
<1>31. CASE SignalBlocked
  BY <1>31, ZenonT(30) DEF SignalBlocked, process, plan
<1>32. CASE SignalRaised
  BY <1>32, ZenonT(30) DEF SignalRaised, process, plan
<1>33. CASE SignalEscapes
  BY <1>33, ZenonT(30) DEF SignalEscapes, plan, End
<1>34. CASE SignalNoted
  BY <1>34, ZenonT(30) DEF SignalNoted, process, plan
<1>35. CASE SignalForwarded
  BY <1>35, ZenonT(30) DEF SignalForwarded, plan
<1>36. CASE SignalDefault
  BY <1>36, ZenonT(30) DEF SignalDefault, plan, End
<1>37. CASE Interrupt
  BY <1>37, ZenonT(30) DEF Interrupt, process, plan
<1>38. CASE InterruptEnds
  BY <1>38, ZenonT(30) DEF InterruptEnds, plan
<1>39. CASE Kill
  BY <1>39, ZenonT(30) DEF Kill, plan, End
<1>40. CASE ForceTimesOut
  BY <1>40, ZenonT(30) DEF ForceTimesOut, plan
<1>41. QED
  BY <1>1, <1>2, <1>3, <1>4, <1>5, <1>6, <1>7, <1>8, <1>9, <1>10, <1>11, <1>12, <1>13,
     <1>14, <1>15, <1>16, <1>17, <1>18, <1>19, <1>20, <1>21, <1>22, <1>23, <1>24, <1>25,
     <1>26, <1>27, <1>28, <1>29, <1>30, <1>31, <1>32, <1>33, <1>34, <1>35, <1>36, <1>37,
     <1>38, <1>39, <1>40 DEF Next, Run, Failures, Children, Others

(* Success is claimed only when nothing is left to do and nothing happened *)
(* that would spoil it.                                                    *)
LEMMA WholeStep ==
  ASSUME TypeOK, Emptied, Noted, Counted, SuccessIsWhole, Next
  PROVE  SuccessIsWhole'
<1> USE DEF Emptied, Noted, Counted, SuccessIsWhole, PrivatePart, Supervising, PublicPart
<1>1. CASE Start
  BY <1>1, ZenonT(30) DEF Start, process
<1>2. CASE MakeWorkspace
  BY <1>2, ZenonT(30) DEF MakeWorkspace, process, signals, plan
<1>3. CASE InstallHandlers
  BY <1>3, ZenonT(30) DEF InstallHandlers, process, plan
<1>4. CASE ReuseProfiles
  BY <1>4, ZenonT(30) DEF ReuseProfiles, process, signals, plan
<1>5. CASE AcquireProfiles
  BY <1>5, ZenonT(30) DEF AcquireProfiles, process, plan, BeginSpawn
<1>6. CASE Validate
  BY <1>6, ZenonT(30) DEF Validate, process, signals, plan, BeginSpawn
<1>7. CASE Spawn
  BY <1>7, ZenonT(30) DEF Spawn, signals, plan
<1>8. CASE ChildStarted
  BY <1>8, ZenonT(30) DEF ChildStarted, plan
<1>9. CASE Reap
  BY <1>9, ZenonT(30) DEF Reap, signals, plan
<1>10. CASE Terminate
  BY <1>10, ZenonT(30) DEF Terminate, signals, plan
<1>11. CASE ForceEnd
  BY <1>11, ZenonT(30) DEF ForceEnd, plan
<1>12. CASE Cleanup
  BY <1>12, ZenonT(30) DEF Cleanup, process, plan
<1>13. CASE RestoreHandlers
  BY <1>13, ZenonT(30) DEF RestoreHandlers, process, plan, End, FinalCode
<1>14. CASE Consent
  BY <1>14, ZenonT(30) DEF Consent, process, plan, End
<1>15. CASE StartPlain
  BY <1>15, ZenonT(30) DEF StartPlain, signals, plan
<1>16. CASE EndPlain
  BY <1>16, ZenonT(30) DEF EndPlain, plan, End, Succeed
<1>17. CASE StartSupervised
  BY <1>17, ZenonT(30) DEF StartSupervised, process, plan
<1>18. CASE SpawnSupervised
  BY <1>18, ZenonT(30) DEF SpawnSupervised, signals, plan
<1>19. CASE ForwardPending
  BY <1>19, ZenonT(30) DEF ForwardPending, plan
<1>20. CASE WaitSupervised
  BY <1>20, ZenonT(30) DEF WaitSupervised, signals, plan
<1>21. CASE EndSupervised
  BY <1>21, ZenonT(30) DEF EndSupervised, plan, End, Succeed, SupervisedResult
<1>22. CASE Finish
  <2>1. /\ pc = "public" /\ todo = <<>> /\ UNCHANGED <<opt, done, asked, warned, unsure>>
    BY <1>22, ZenonT(30) DEF Finish, plan
  <2>2. ToSet(Stages(opt)) = done \cup ToSet(todo) /\ ~asked /\ ~warned /\ ~unsure
    BY <2>1, ZenonT(30)
  <2>3. ToSet(todo) = {}
    BY <2>1 DEF ToSet
  <2>4. ToSet(Stages(opt))' = ToSet(Stages(opt))
    BY <2>1
  <2>5. QED
    BY <2>1, <2>2, <2>3, <2>4
<1>23. CASE MakeFails
  BY <1>23, ZenonT(30) DEF MakeFails, plan, End
<1>24. CASE HandlersFail
  BY <1>24, ZenonT(30) DEF HandlersFail, process, signals, plan
<1>25. CASE SpawnFails
  BY <1>25, ZenonT(30) DEF SpawnFails, process, plan
<1>26. CASE SupervisedFails
  BY <1>26, ZenonT(30) DEF SupervisedFails, signals, plan
<1>27. CASE WaitFails
  BY <1>27, ZenonT(30) DEF WaitFails, process, signals, plan
<1>28. CASE ChildWrites
  BY <1>28, ZenonT(30) DEF ChildWrites, process, signals, plan
<1>29. CASE ChildEnds
  BY <1>29, ZenonT(30) DEF ChildEnds, signals, plan
<1>30. CASE StrayEnds
  BY <1>30, ZenonT(30) DEF StrayEnds, process, signals, plan
<1>31. CASE SignalBlocked
  BY <1>31, ZenonT(30) DEF SignalBlocked, process, plan
<1>32. CASE SignalRaised
  BY <1>32, ZenonT(30) DEF SignalRaised, process, plan
<1>33. CASE SignalEscapes
  BY <1>33, ZenonT(30) DEF SignalEscapes, plan, End
<1>34. CASE SignalNoted
  BY <1>34, ZenonT(30) DEF SignalNoted, process, plan
<1>35. CASE SignalForwarded
  BY <1>35, ZenonT(30) DEF SignalForwarded, plan
<1>36. CASE SignalDefault
  BY <1>36, ZenonT(30) DEF SignalDefault, plan, End
<1>37. CASE Interrupt
  BY <1>37, ZenonT(30) DEF Interrupt, process, plan
<1>38. CASE InterruptEnds
  BY <1>38, ZenonT(30) DEF InterruptEnds, plan
<1>39. CASE Kill
  BY <1>39, ZenonT(30) DEF Kill, plan, End
<1>40. CASE ForceTimesOut
  BY <1>40, ZenonT(30) DEF ForceTimesOut, plan
<1>41. QED
  BY <1>1, <1>2, <1>3, <1>4, <1>5, <1>6, <1>7, <1>8, <1>9, <1>10, <1>11, <1>12, <1>13,
     <1>14, <1>15, <1>16, <1>17, <1>18, <1>19, <1>20, <1>21, <1>22, <1>23, <1>24, <1>25,
     <1>26, <1>27, <1>28, <1>29, <1>30, <1>31, <1>32, <1>33, <1>34, <1>35, <1>36, <1>37,
     <1>38, <1>39, <1>40 DEF Next, Run, Failures, Children, Others

(* The invariant holds in every state.                                     *)
LEMMA Invariant == Spec => []IInv
<1>1. IInv /\ Next => IInv'
  BY EmptiedStep, LocatedStep, NotedStep, SecretsStep, ReachStep, TypeStep, CountedStep,
     WholeStep DEF IInv
<1>2. IInv /\ UNCHANGED vars => IInv'
  <2> SUFFICES ASSUME IInv, UNCHANGED vars
               PROVE  IInv'
    OBVIOUS
  <2>1. TypeOK'
    <3>1. UNCHANGED <<opt, todo, done, faults, stray, workspace, child, status, pc, next, phase,
                      code, exit>>
      BY DEF vars, plan, process, signals
    <3>2. UNCHANGED <<known, told, asked, held, unsure, warned>>
      BY DEF vars, process, signals
    <3>3. TypeOK
      BY DEF IInv
    <3>4. QED
      BY <3>1, <3>2, <3>3 DEF TypeOK
  <2>2. Emptied' /\ Located' /\ Noted'
    BY ZenonT(30) DEF IInv, Emptied, Located, Noted, vars, process, signals, plan
  <2>3. Counted' /\ SecretsGone' /\ SignalReachesChild' /\ SuccessIsWhole'
    BY ZenonT(30) DEF IInv, Counted, SecretsGone, SignalReachesChild, SuccessIsWhole, vars,
       process, signals, plan
  <2>4. QED
    BY <2>1, <2>2, <2>3 DEF IInv
<1>3. QED
  BY InitInv, <1>1, <1>2, PTL DEF Spec

-----------------------------------------------------------------------------
(* Results *)

(* A run that ends by itself or by a signal has removed the private        *)
(* directory, or has said that it could not.                               *)
THEOREM SecretsRemoved == Spec => []SecretsGone
<1>1. IInv => SecretsGone
  BY DEF IInv
<1>2. QED
  BY Invariant, <1>1, PTL

(* A signal noted before or while a transaction runs reaches it.           *)
THEOREM SignalPassedOn == Spec => []SignalReachesChild
<1>1. IInv => SignalReachesChild
  BY DEF IInv
<1>2. QED
  BY Invariant, <1>1, PTL

(* StageClaims: an exit status of success means that every public stage of *)
(* the command line has succeeded in this run, that no signal was noted    *)
(* after its handlers were in place, that the supervision had no doubt and *)
(* that the secrets are removed.                                           *)
THEOREM StageClaims == Spec => []SuccessIsWhole
<1>1. IInv => SuccessIsWhole
  BY DEF IInv
<1>2. QED
  BY Invariant, <1>1, PTL

(* Every variable keeps the type that the pipeline gives it.               *)
THEOREM TypeCorrect == Spec => []TypeOK
<1>1. IInv => TypeOK
  BY DEF IInv
<1>2. QED
  BY Invariant, <1>1, PTL

(* Whatever a run leaves behind, it is one of the children that            *)
(* NothingBehind names: a public stage that a default signal cut off, or a *)
(* private child without a handle, interrupted in its shutdown or alive    *)
(* after KILL; a transaction only when the run is killed.                  *)
THEOREM NoneBehind == Spec => NothingBehind
<1> DEFINE Allowed(s) == \/ exit' = "killed"
                         \/ exit' = "terminated" /\ s \in Public \ Supervised
                         \/ s \in Private /\ ~known
                         \/ s \in Private /\ exit' = "interrupted"
                         \/ s \in Private /\ exit' = "unkilled" /\ told
<1>1. ASSUME IInv, Next, NEW s \in stray' \ stray
      PROVE  Allowed(s)
  <2>1. \/ MakeFails \/ RestoreHandlers \/ Consent \/ EndPlain \/ EndSupervised \/ Finish
        \/ SignalEscapes \/ SignalDefault \/ InterruptEnds \/ Kill
    BY <1>1, ZenonT(30) DEF Next, Run, Failures, Children, Others, BeginSpawn,
       Start, MakeWorkspace, InstallHandlers, ReuseProfiles, AcquireProfiles, Validate,
       Spawn, ChildStarted, Reap, Terminate, ForceEnd, ForceTimesOut, Cleanup, StartPlain,
       StartSupervised, SpawnSupervised, ForwardPending, WaitSupervised, HandlersFail,
       SpawnFails, SupervisedFails, WaitFails, ChildWrites, ChildEnds, StrayEnds,
       SignalBlocked, SignalRaised, SignalNoted, SignalForwarded, Interrupt
  <2>2. ASSUME NEW result, End(result)
        PROVE  s = child /\ child # "none" /\ exit' = result
    BY <1>1, <2>2 DEF End
  <2>3. Located /\ Noted /\ (pc = "plain" => todo # <<>>) /\ todo \in Seq(Public)
    BY <1>1 DEF IInv, Counted, TypeOK
  <2>4. CASE MakeFails \/ Consent \/ EndPlain \/ EndSupervised \/ Finish
    <3>1. child = "none"
      BY <2>3, <2>4, ZenonT(30) DEF Located, MakeFails, Consent, EndPlain, EndSupervised, Finish
    <3>2. UNCHANGED stray \/ \E result : End(result)
      BY <2>4, ZenonT(30) DEF MakeFails, Consent, EndPlain, EndSupervised, Finish, Succeed
    <3>3. QED
      BY <1>1, <2>2, <3>1, <3>2
  <2>5. CASE RestoreHandlers
    <3>1. pc = "restore" /\ End(IF held THEN "terminated" ELSE FinalCode)
      BY <1>1, <2>5, ZenonT(30) DEF RestoreHandlers
    <3>2. /\ s = child /\ child # "none" /\ exit' = IF held THEN "terminated" ELSE FinalCode
          /\ child \in Private
      BY <2>2, <2>3, <3>1 DEF Located, PrivatePart
    <3>3. known => /\ ~held /\ code \in {"interrupted", "unkilled"}
                   /\ code = "unkilled" => told
      BY <2>3, <3>1, <3>2 DEF Located, Noted
    <3>4. known => exit' = code
      BY <3>2, <3>3 DEF FinalCode
    <3>5. QED
      BY <3>2, <3>3, <3>4
  <2>6. CASE SignalEscapes
    <3>1. child = "none" /\ End("crashed")
      BY <2>3, <2>6 DEF SignalEscapes, Located
    <3>2. QED
      BY <2>2, <3>1
  <2>7. CASE SignalDefault
    <3>1. pc \in {"public", "plain"} /\ End("terminated")
      BY <2>7 DEF SignalDefault
    <3>2. s = child /\ child # "none" /\ exit' = "terminated"
      BY <2>2, <3>1
    <3>3. pc = "plain" /\ child = Head(todo) /\ child \notin Supervised
      BY <2>3, <3>1, <3>2 DEF Located
    <3>4. child \in Public
      BY <2>3, <3>3, TakeFirst
    <3>5. QED
      BY <3>2, <3>3, <3>4
  <2>8. CASE InterruptEnds
    <3>1. exit' = "interrupted" /\ pc = "cleanup" /\ s = child /\ child # "none"
      BY <1>1, <2>8 DEF InterruptEnds
    <3>2. QED
      BY <2>3, <3>1 DEF Located, PrivatePart
  <2>9. CASE Kill
    BY <2>2, <2>9 DEF Kill
  <2>10. QED
    BY <2>1, <2>4, <2>5, <2>6, <2>7, <2>8, <2>9
<1>2. IInv /\ [Next]_vars => [\A s \in stray' \ stray : Allowed(s)]_vars
  BY <1>1
<1>3. QED
  BY Invariant, <1>2, PTL DEF Spec, NothingBehind

=============================================================================
