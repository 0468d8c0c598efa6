---------------------------- MODULE SessionProofs ----------------------------
(***************************************************************************)
(* Proofs about Session, for any number of sessions, any thresholds and    *)
(* any channel bound.                                                      *)
(***************************************************************************)
EXTENDS Session, SequenceTheorems, TLAPS

\* Sending keeps every channel a sequence of packet kinds.
LEMMA EnqueueType ==
  ASSUME TypeOK, NEW k \in Kinds, Enqueue(k)
  PROVE  chan' \in [Sessions -> Seq(Kinds)]
<1>1. CASE holder # None /\ ReceiverAlive(holder)
  <2>1. holder \in Sessions /\ Append(chan[holder], k) \in Seq(Kinds)
    BY <1>1 DEF TypeOK
  <2>2. chan' = [chan EXCEPT ![holder] = Append(@, k)]
    BY <1>1 DEF Enqueue
  <2>. QED  BY <2>1, <2>2 DEF TypeOK
<1>2. CASE ~(holder # None /\ ReceiverAlive(holder))
  BY <1>2 DEF Enqueue, TypeOK
<1>. QED  BY <1>1, <1>2

\* Taking the first packet of a channel does too.
LEMMA TakeType ==
  ASSUME TypeOK, NEW s \in Sessions, chan[s] # <<>>
  PROVE  /\ Head(chan[s]) \in Kinds
         /\ [chan EXCEPT ![s] = Tail(@)] \in [Sessions -> Seq(Kinds)]
<1>1. chan[s] \in Seq(Kinds)
  BY DEF TypeOK
<1>2. Head(chan[s]) \in Kinds /\ Tail(chan[s]) \in Seq(Kinds)
  BY <1>1
<1>. QED  BY <1>2 DEF TypeOK

\* And recording a verdict keeps the verdicts a sequence.
LEMMA VerdictType ==
  ASSUME TypeOK, NEW ok \in BOOLEAN, Verdict(ok)
  PROVE  verdicts' \in Seq(BOOLEAN)
<1>1. verdicts \in Seq(BOOLEAN) /\ FailureThreshold \in Nat \ {0}
  BY ConstantsAssumption DEF TypeOK
<1>2. CASE Len(verdicts) = FailureThreshold
  <2>1. verdicts # <<>>
    BY <1>1, <1>2
  <2>2. Tail(verdicts) \in Seq(BOOLEAN)
    BY <1>1, <2>1
  <2>3. Append(Tail(verdicts), ok) \in Seq(BOOLEAN)
    BY <2>2
  <2>. QED  BY <1>1, <1>2, <2>3 DEF Verdict
<1>3. CASE Len(verdicts) # FailureThreshold
  <2>1. Append(verdicts, ok) \in Seq(BOOLEAN)
    BY <1>1
  <2>. QED  BY <1>1, <1>3, <2>1 DEF Verdict
<1>. QED  BY <1>2, <1>3

\* Every step keeps every variable in its type.
LEMMA TypeStep ==
  ASSUME TypeOK, [Next]_vars
  PROVE  TypeOK'
<1>. USE DEF TypeOK, vars, supVars, writerVars, hbVars, lineVars
<1>1. CASE Send
  BY <1>1, EnqueueType DEF Send, Kinds
<1>2. CASE SupCheck
  BY <1>2 DEF SupCheck, SupPcs, Sessions, None, ReaderPcs
<1>3. CASE DiscoverNone
  BY <1>3 DEF DiscoverNone, SupPcs, Sessions, None, ReaderPcs
<1>4. CASE Backoff
  BY <1>4 DEF Backoff, SupPcs, Sessions, None, ReaderPcs
<1>5. CASE ConfigureFails
  BY <1>5 DEF ConfigureFails, SupPcs, Sessions, None, ReaderPcs
<1>6. CASE PublishSender
  BY <1>6, ConstantsAssumption DEF PublishSender, Sessions, SupPcs
<1>7. CASE SpawnWriter
  <2>1. verdicts' \in Seq(BOOLEAN)
    BY <1>7 DEF SpawnWriter
  <2>. QED  BY <1>7, <2>1 DEF SpawnWriter, SupPcs, WriterPcs
<1>8. CASE SpawnReader
  BY <1>8 DEF SpawnReader, SupPcs, Sessions, None, ReaderPcs
<1>9. CASE ClearHolder
  BY <1>9 DEF ClearHolder, SupPcs, Sessions, None, ReaderPcs
<1>10. CASE StopReader
  BY <1>10 DEF StopReader, SupPcs, Sessions, None, ReaderPcs
<1>11. CASE JoinReader
  BY <1>11 DEF JoinReader, SupPcs, Sessions, None, ReaderPcs
<1>12. CASE TickNewSession
  <2>1. chan' \in [Sessions -> Seq(Kinds)]
    BY <1>12, EnqueueType DEF TickNewSession, HeartbeatSend, Kinds
  <2>2. prompts' \in Nat
    BY <1>12, ConstantsAssumption DEF TickNewSession, Sessions, None
  <2>. QED  BY <1>12, <2>1, <2>2 DEF TickNewSession, HeartbeatSend
<1>13. CASE TickNoSession
  BY <1>13 DEF TickNoSession
<1>14. CASE TickAnswered
  <2>1. chan' \in [Sessions -> Seq(Kinds)]
    BY <1>14, EnqueueType DEF TickAnswered, HeartbeatSend, Kinds
  <2>2. prompts' \in Nat
    BY <1>14, ConstantsAssumption DEF TickAnswered, Sessions, None
  <2>. QED  BY <1>14, <2>1, <2>2 DEF TickAnswered, HeartbeatSend
<1>15. CASE TickUnanswered
  <2>1. chan' \in [Sessions -> Seq(Kinds)]
    BY <1>15, EnqueueType DEF TickUnanswered, HeartbeatSend, Kinds
  <2>2. hb' \in {"nap", "sent", "stopped"} /\ prompts' \in Nat /\ paused' \in BOOLEAN
    BY <1>15 DEF TickUnanswered, HeartbeatSend
  <2>. QED  BY <1>15, <2>1, <2>2 DEF TickUnanswered, Sessions, None
<1>16. CASE TickPaused
  BY <1>16 DEF TickPaused, Sessions, None
<1>17. CASE HeartbeatRecord
  BY <1>17 DEF HeartbeatRecord
<1>18. CASE HeartbeatExit
  BY <1>18 DEF HeartbeatExit
<1>19. CASE Shutdown
  BY <1>19 DEF Shutdown
<1>20. CASE MainClear
  BY <1>20 DEF MainClear, None
<1>21. CASE MainExit
  BY <1>21 DEF MainExit
<1>22. ASSUME NEW s \in Sessions, WriterCheck(s)
      PROVE  TypeOK'
  <2>1. writer' \in [Sessions -> WriterPcs]
    BY <1>22 DEF WriterCheck, WriterGoes, WriterPcs
  <2>. QED  BY <1>22, <2>1 DEF WriterCheck
<1>23. ASSUME NEW s \in Sessions, RecvOk(s)
      PROVE  TypeOK'
  BY <1>23, TakeType DEF RecvOk, WriterGoes, WriterPcs
<1>24. ASSUME NEW s \in Sessions, RecvTimeout(s)
      PROVE  TypeOK'
  <2>1. writer' \in [Sessions -> WriterPcs]
    BY <1>24 DEF RecvTimeout, WriterGoes, WriterPcs
  <2>. QED  BY <1>24, <2>1 DEF RecvTimeout
<1>25. ASSUME NEW s \in Sessions, RecvDisconnected(s)
      PROVE  TypeOK'
  <2>1. writer' \in [Sessions -> WriterPcs]
    BY <1>25 DEF RecvDisconnected, WriterGoes, WriterPcs
  <2>. QED  BY <1>25, <2>1 DEF RecvDisconnected
<1>26. ASSUME NEW s \in Sessions, WriteOk(s)
      PROVE  TypeOK'
  <2>1. verdicts' \in Seq(BOOLEAN)
    BY <1>26, VerdictType DEF WriteOk
  <2>2. writer' \in [Sessions -> WriterPcs]
    BY <1>26 DEF WriteOk, WriterGoes, WriterPcs
  <2>. QED  BY <1>26, <2>1, <2>2 DEF WriteOk
<1>27. ASSUME NEW s \in Sessions, PacketWriteFails(s)
      PROVE  TypeOK'
  <2>1. verdicts' \in Seq(BOOLEAN)
    BY <1>27, VerdictType DEF PacketWriteFails
  <2>2. writer' \in [Sessions -> WriterPcs]
    BY <1>27 DEF PacketWriteFails, WriterGoes, WriterPcs
  <2>. QED  BY <1>27, <2>1, <2>2 DEF PacketWriteFails
<1>28. ASSUME NEW s \in Sessions, HeartbeatWriteFails(s)
      PROVE  TypeOK'
  <2>1. verdicts' \in Seq(BOOLEAN)
    BY <1>28, VerdictType DEF HeartbeatWriteFails
  <2>2. writer' \in [Sessions -> WriterPcs]
    BY <1>28 DEF HeartbeatWriteFails, WriterGoes, WriterPcs
  <2>. QED  BY <1>28, <2>1, <2>2 DEF HeartbeatWriteFails
<1>29. ASSUME NEW s \in Sessions, StrikeOut(s)
      PROVE  TypeOK'
  <2>1. verdicts' \in Seq(BOOLEAN)
    BY <1>29, VerdictType DEF StrikeOut
  <2>2. writer' \in [Sessions -> WriterPcs]
    BY <1>29 DEF StrikeOut, WriterGoes, WriterPcs
  <2>3. failures' \in Nat /\ sessionRunning' \in [Sessions -> BOOLEAN]
    BY <1>29 DEF StrikeOut
  <2>. QED  BY <1>29, <2>1, <2>2, <2>3 DEF StrikeOut
<1>30. ASSUME NEW s \in Sessions, SopClear(s)
      PROVE  TypeOK'
  BY <1>30 DEF SopClear, None, WriterGoes, WriterPcs
<1>31. ASSUME NEW s \in Sessions, SopDrain(s)
      PROVE  TypeOK'
  BY <1>31, TakeType DEF SopDrain
<1>32. ASSUME NEW s \in Sessions, SopDrained(s)
      PROVE  TypeOK'
  <2>1. writer' \in [Sessions -> WriterPcs]
    BY <1>32 DEF SopDrained, WriterGoes, WriterPcs
  <2>. QED  BY <1>32, <2>1 DEF SopDrained
<1>33. ASSUME NEW s \in Sessions, SopReturn(s)
      PROVE  TypeOK'
  <2>1. writer' \in [Sessions -> WriterPcs]
    BY <1>33 DEF SopReturn, WriterGoes, WriterPcs
  <2>. QED  BY <1>33, <2>1 DEF SopReturn
<1>34. ASSUME NEW s \in Sessions, GracefulReturn(s)
      PROVE  TypeOK'
  <2>1. writer' \in [Sessions -> WriterPcs]
    BY <1>34 DEF GracefulReturn, WriterGoes, WriterPcs
  <2>. QED  BY <1>34, <2>1 DEF GracefulReturn
<1>35. ASSUME NEW s \in Sessions, ReadLine(s)
      PROVE  TypeOK'
  BY <1>35 DEF ReadLine
<1>36. ASSUME NEW s \in Sessions, ReadError(s)
      PROVE  TypeOK'
  BY <1>36 DEF ReadError, ReaderPcs
<1>37. ASSUME NEW s \in Sessions, ReaderExit(s)
      PROVE  TypeOK'
  BY <1>37 DEF ReaderExit, ReaderPcs
<1>38. CASE UNCHANGED vars
  BY <1>38
<1>. QED
  BY <1>1, <1>2, <1>3, <1>4, <1>5, <1>6, <1>7, <1>8, <1>9, <1>10, <1>11,
     <1>12, <1>13, <1>14, <1>15, <1>16, <1>17, <1>18, <1>19, <1>20, <1>21,
     <1>22, <1>23, <1>24, <1>25, <1>26, <1>27, <1>28, <1>29, <1>30, <1>31,
     <1>32, <1>33, <1>34, <1>35, <1>36, <1>37, <1>38
     DEF Next, Supervisor, WriterStep, WriteReturns, Tick, Exited

LEMMA InitType == Init => TypeOK
<1>1. <<>> \in Seq(Kinds) /\ <<>> \in Seq(BOOLEAN)
  OBVIOUS
<1>2. "packet" \in Kinds /\ "check" \in SupPcs /\ "unborn" \in WriterPcs
      /\ "unborn" \in ReaderPcs
  BY DEF Kinds, SupPcs, WriterPcs, ReaderPcs
<1>3. ASSUME Init  PROVE  cur \in 0..MaxSessions
  BY <1>3, ConstantsAssumption DEF Init
<1>4. ASSUME Init  PROVE  chan \in [Sessions -> Seq(Kinds)]
  BY <1>1, <1>4 DEF Init
<1>5. ASSUME Init  PROVE  /\ writer \in [Sessions -> WriterPcs]
                          /\ reader \in [Sessions -> ReaderPcs]
                          /\ sessionRunning \in [Sessions -> BOOLEAN]
  BY <1>2, <1>5 DEF Init
<1>6. ASSUME Init  PROVE  verdicts \in Seq(BOOLEAN)
  BY <1>1, <1>6 DEF Init
<1>7. ASSUME Init  PROVE  /\ running \in BOOLEAN
                          /\ mainPc \in {"serve", "join", "exited"}
                          /\ holder \in Sessions \cup {None}
                          /\ sup \in SupPcs
                          /\ inHand \in Kinds
                          /\ failures \in Nat
                          /\ hb \in {"nap", "sent", "stopped"}
                          /\ hadSession \in BOOLEAN
                          /\ consecutiveMisses \in Nat
                          /\ paused \in BOOLEAN
                          /\ fresh \in BOOLEAN
                          /\ prompts \in Nat
  BY <1>2, <1>7 DEF Init, None
<1>. QED  BY <1>3, <1>4, <1>5, <1>6, <1>7 DEF TypeOK

\* Session!TypeOK, for every number of sessions and every bound.
THEOREM TypeCorrect == Spec => []TypeOK
<1>1. Init => TypeOK
  BY InitType
<1>2. TypeOK /\ [Next]_vars => TypeOK'
  BY TypeStep
<1>. QED  BY <1>1, <1>2, PTL DEF Spec

\* The parts of the inductive invariant, one lemma for each.
LEMMA OneAtATimeStep ==
  ASSUME TypeOK, OneAtATime, ThreadsFollowSupervisor, SlotOwnership, [Next]_vars
  PROVE  OneAtATime'
<1>. USE DEF TypeOK, OneAtATime, ThreadsFollowSupervisor, SlotOwnership, InSession,
             Sessions, None, vars, supVars, writerVars, hbVars, lineVars
<1>1. CASE Send
  BY <1>1 DEF Send, Enqueue, ReceiverAlive, None
<1>2. CASE SupCheck
  BY <1>2 DEF SupCheck
<1>3. CASE DiscoverNone
  BY <1>3 DEF DiscoverNone
<1>4. CASE Backoff
  BY <1>4 DEF Backoff
<1>5. CASE ConfigureFails
  BY <1>5 DEF ConfigureFails
<1>6. CASE PublishSender
  BY <1>6 DEF PublishSender
<1>7. CASE SpawnWriter
  BY <1>7 DEF SpawnWriter
<1>8. CASE SpawnReader
  BY <1>8 DEF SpawnReader
<1>9. CASE ClearHolder
  BY <1>9 DEF ClearHolder
<1>10. CASE StopReader
  BY <1>10 DEF StopReader
<1>11. CASE JoinReader
  BY <1>11 DEF JoinReader
<1>12. CASE TickNewSession
  BY <1>12 DEF TickNewSession, Enqueue, HeartbeatSend, ReceiverAlive, None
<1>13. CASE TickNoSession
  BY <1>13 DEF TickNoSession
<1>14. CASE TickAnswered
  BY <1>14 DEF TickAnswered, Enqueue, HeartbeatSend, ReceiverAlive, None
<1>15. CASE TickUnanswered
  BY <1>15 DEF TickUnanswered, Enqueue, HeartbeatSend, ReceiverAlive, None
<1>16. CASE TickPaused
  BY <1>16 DEF TickPaused
<1>17. CASE HeartbeatRecord
  BY <1>17 DEF HeartbeatRecord
<1>18. CASE HeartbeatExit
  BY <1>18 DEF HeartbeatExit
<1>19. CASE Shutdown
  BY <1>19 DEF Shutdown
<1>20. CASE MainClear
  BY <1>20 DEF MainClear
<1>21. CASE MainExit
  BY <1>21 DEF MainExit
<1>22. ASSUME NEW s \in Sessions, WriterCheck(s)
      PROVE  OneAtATime'
  BY <1>22 DEF WriterCheck, WriterGoes
<1>23. ASSUME NEW s \in Sessions, RecvOk(s)
      PROVE  OneAtATime'
  BY <1>23 DEF RecvOk, WriterGoes
<1>24. ASSUME NEW s \in Sessions, RecvTimeout(s)
      PROVE  OneAtATime'
  BY <1>24 DEF RecvTimeout, WriterGoes
<1>25. ASSUME NEW s \in Sessions, RecvDisconnected(s)
      PROVE  OneAtATime'
  BY <1>25 DEF RecvDisconnected, WriterGoes
<1>26. ASSUME NEW s \in Sessions, WriteOk(s)
      PROVE  OneAtATime'
  BY <1>26 DEF WriteOk, WriterGoes
<1>27. ASSUME NEW s \in Sessions, PacketWriteFails(s)
      PROVE  OneAtATime'
  BY <1>27 DEF PacketWriteFails, WriterGoes
<1>28. ASSUME NEW s \in Sessions, HeartbeatWriteFails(s)
      PROVE  OneAtATime'
  BY <1>28 DEF HeartbeatWriteFails, WriterGoes
<1>29. ASSUME NEW s \in Sessions, StrikeOut(s)
      PROVE  OneAtATime'
  BY <1>29 DEF StrikeOut, WriterGoes
<1>30. ASSUME NEW s \in Sessions, SopClear(s)
      PROVE  OneAtATime'
  BY <1>30 DEF SopClear, WriterGoes
<1>31. ASSUME NEW s \in Sessions, SopDrain(s)
      PROVE  OneAtATime'
  BY <1>31 DEF SopDrain
<1>32. ASSUME NEW s \in Sessions, SopDrained(s)
      PROVE  OneAtATime'
  BY <1>32 DEF SopDrained, WriterGoes
<1>33. ASSUME NEW s \in Sessions, SopReturn(s)
      PROVE  OneAtATime'
  BY <1>33 DEF SopReturn, WriterGoes
<1>34. ASSUME NEW s \in Sessions, GracefulReturn(s)
      PROVE  OneAtATime'
  BY <1>34 DEF GracefulReturn, WriterGoes
<1>35. ASSUME NEW s \in Sessions, ReadLine(s)
      PROVE  OneAtATime'
  BY <1>35 DEF ReadLine
<1>36. ASSUME NEW s \in Sessions, ReadError(s)
      PROVE  OneAtATime'
  BY <1>36 DEF ReadError
<1>37. ASSUME NEW s \in Sessions, ReaderExit(s)
      PROVE  OneAtATime'
  BY <1>37 DEF ReaderExit
<1>38. CASE UNCHANGED vars
  BY <1>38
<1>. QED
  BY <1>1, <1>2, <1>3, <1>4, <1>5, <1>6, <1>7, <1>8, <1>9, <1>10, <1>11,
     <1>12, <1>13, <1>14, <1>15, <1>16, <1>17, <1>18, <1>19, <1>20, <1>21,
     <1>22, <1>23, <1>24, <1>25, <1>26, <1>27, <1>28, <1>29, <1>30, <1>31,
     <1>32, <1>33, <1>34, <1>35, <1>36, <1>37, <1>38
     DEF Next, Supervisor, WriterStep, WriteReturns, Tick, Exited

LEMMA ThreadsStep ==
  ASSUME TypeOK, OneAtATime, ThreadsFollowSupervisor, SlotOwnership, [Next]_vars
  PROVE  ThreadsFollowSupervisor'
<1>. USE ConstantsAssumption
    DEF TypeOK, OneAtATime, ThreadsFollowSupervisor, InSession, Sessions,
        vars, supVars, writerVars, hbVars, lineVars
<1>1. CASE Send
  BY <1>1 DEF Send, Enqueue, ReceiverAlive, None
<1>2. CASE SupCheck
  BY <1>2 DEF SupCheck
<1>3. CASE DiscoverNone
  BY <1>3 DEF DiscoverNone
<1>4. CASE Backoff
  BY <1>4 DEF Backoff
<1>5. CASE ConfigureFails
  BY <1>5 DEF ConfigureFails
<1>6. CASE PublishSender
  <2>1. cur + 1 \in Sessions /\ cur' = cur + 1 /\ cur' # 0
    BY <1>6 DEF PublishSender
  <2>2. writer[cur + 1] = "unborn" /\ reader[cur + 1] = "unborn"
    <3>1. cur \in Nat /\ cur + 1 > cur
      OBVIOUS
    <3>. QED  BY <2>1, <3>1
  <2>. QED  BY <1>6, <2>1, <2>2 DEF PublishSender
<1>7. CASE SpawnWriter
  BY <1>7 DEF SpawnWriter
<1>8. CASE SpawnReader
  BY <1>8 DEF SpawnReader
<1>9. CASE ClearHolder
  BY <1>9 DEF ClearHolder
<1>10. CASE StopReader
  BY <1>10 DEF StopReader
<1>11. CASE JoinReader
  BY <1>11 DEF JoinReader
<1>12. CASE TickNewSession
  BY <1>12 DEF TickNewSession, Enqueue, HeartbeatSend, ReceiverAlive, None
<1>13. CASE TickNoSession
  BY <1>13 DEF TickNoSession
<1>14. CASE TickAnswered
  BY <1>14 DEF TickAnswered, Enqueue, HeartbeatSend, ReceiverAlive, None
<1>15. CASE TickUnanswered
  BY <1>15 DEF TickUnanswered, Enqueue, HeartbeatSend, ReceiverAlive, None
<1>16. CASE TickPaused
  BY <1>16 DEF TickPaused
<1>17. CASE HeartbeatRecord
  BY <1>17 DEF HeartbeatRecord
<1>18. CASE HeartbeatExit
  BY <1>18 DEF HeartbeatExit
<1>19. CASE Shutdown
  BY <1>19 DEF Shutdown
<1>20. CASE MainClear
  BY <1>20 DEF MainClear
<1>21. CASE MainExit
  BY <1>21 DEF MainExit
<1>22. ASSUME NEW s \in Sessions, WriterCheck(s)
      PROVE  ThreadsFollowSupervisor'
  BY <1>22 DEF WriterCheck, WriterGoes
<1>23. ASSUME NEW s \in Sessions, RecvOk(s)
      PROVE  ThreadsFollowSupervisor'
  BY <1>23 DEF RecvOk, WriterGoes
<1>24. ASSUME NEW s \in Sessions, RecvTimeout(s)
      PROVE  ThreadsFollowSupervisor'
  <2>1. /\ writer[s] = "recv"
        /\ writer' = [writer EXCEPT ![s] = "check"]
        /\ UNCHANGED <<sup, cur, reader>>
    BY <1>24 DEF RecvTimeout, WriterGoes
  <2>. QED  BY <2>1
<1>25. ASSUME NEW s \in Sessions, RecvDisconnected(s)
      PROVE  ThreadsFollowSupervisor'
  <2>1. /\ writer[s] = "recv"
        /\ writer' = [writer EXCEPT ![s] = "exit"]
        /\ UNCHANGED <<sup, cur, reader>>
    BY <1>25 DEF RecvDisconnected, WriterGoes
  <2>. QED  BY <2>1
<1>26. ASSUME NEW s \in Sessions, WriteOk(s)
      PROVE  ThreadsFollowSupervisor'
  BY <1>26 DEF WriteOk, WriterGoes
<1>27. ASSUME NEW s \in Sessions, PacketWriteFails(s)
      PROVE  ThreadsFollowSupervisor'
  BY <1>27 DEF PacketWriteFails, WriterGoes
<1>28. ASSUME NEW s \in Sessions, HeartbeatWriteFails(s)
      PROVE  ThreadsFollowSupervisor'
  BY <1>28 DEF HeartbeatWriteFails, WriterGoes
<1>29. ASSUME NEW s \in Sessions, StrikeOut(s)
      PROVE  ThreadsFollowSupervisor'
  BY <1>29 DEF StrikeOut, WriterGoes
<1>30. ASSUME NEW s \in Sessions, SopClear(s)
      PROVE  ThreadsFollowSupervisor'
  BY <1>30 DEF SopClear, WriterGoes
<1>31. ASSUME NEW s \in Sessions, SopDrain(s)
      PROVE  ThreadsFollowSupervisor'
  BY <1>31 DEF SopDrain
<1>32. ASSUME NEW s \in Sessions, SopDrained(s)
      PROVE  ThreadsFollowSupervisor'
  <2>1. /\ writer[s] = "drain"
        /\ writer' = [writer EXCEPT ![s] = "drained"]
        /\ UNCHANGED <<sup, cur, reader>>
    BY <1>32 DEF SopDrained, WriterGoes
  <2>. QED  BY <2>1
<1>33. ASSUME NEW s \in Sessions, SopReturn(s)
      PROVE  ThreadsFollowSupervisor'
  BY <1>33 DEF SopReturn, WriterGoes
<1>34. ASSUME NEW s \in Sessions, GracefulReturn(s)
      PROVE  ThreadsFollowSupervisor'
  BY <1>34 DEF GracefulReturn, WriterGoes
<1>35. ASSUME NEW s \in Sessions, ReadLine(s)
      PROVE  ThreadsFollowSupervisor'
  BY <1>35 DEF ReadLine
<1>36. ASSUME NEW s \in Sessions, ReadError(s)
      PROVE  ThreadsFollowSupervisor'
  BY <1>36 DEF ReadError
<1>37. ASSUME NEW s \in Sessions, ReaderExit(s)
      PROVE  ThreadsFollowSupervisor'
  BY <1>37 DEF ReaderExit
<1>38. CASE UNCHANGED vars
  BY <1>38
<1>. QED
  BY <1>1, <1>2, <1>3, <1>4, <1>5, <1>6, <1>7, <1>8, <1>9, <1>10, <1>11,
     <1>12, <1>13, <1>14, <1>15, <1>16, <1>17, <1>18, <1>19, <1>20, <1>21,
     <1>22, <1>23, <1>24, <1>25, <1>26, <1>27, <1>28, <1>29, <1>30, <1>31,
     <1>32, <1>33, <1>34, <1>35, <1>36, <1>37, <1>38
     DEF Next, Supervisor, WriterStep, WriteReturns, Tick, Exited

LEMMA SlotStep ==
  ASSUME TypeOK, OneAtATime, ThreadsFollowSupervisor, SlotOwnership, [Next]_vars
  PROVE  SlotOwnership'
<1>. USE ConstantsAssumption
    DEF TypeOK, OneAtATime, ThreadsFollowSupervisor, SlotOwnership, InSession,
        Sessions, None, vars, supVars, writerVars, hbVars, lineVars
<1>1. CASE Send
  BY <1>1 DEF Send, Enqueue, ReceiverAlive, None
<1>2. CASE SupCheck
  BY <1>2 DEF SupCheck
<1>3. CASE DiscoverNone
  BY <1>3 DEF DiscoverNone
<1>4. CASE Backoff
  BY <1>4 DEF Backoff
<1>5. CASE ConfigureFails
  BY <1>5 DEF ConfigureFails
<1>6. CASE PublishSender
  <2>1. cur + 1 \in Sessions /\ cur' = cur + 1 /\ cur' # 0
    BY <1>6 DEF PublishSender
  <2>2. writer[cur + 1] = "unborn" /\ reader[cur + 1] = "unborn"
    <3>1. cur \in Nat /\ cur + 1 > cur
      OBVIOUS
    <3>. QED  BY <2>1, <3>1
  <2>. QED  BY <1>6, <2>1, <2>2 DEF PublishSender
<1>7. CASE SpawnWriter
  BY <1>7 DEF SpawnWriter
<1>8. CASE SpawnReader
  BY <1>8 DEF SpawnReader
<1>9. CASE ClearHolder
  BY <1>9 DEF ClearHolder
<1>10. CASE StopReader
  BY <1>10 DEF StopReader
<1>11. CASE JoinReader
  BY <1>11 DEF JoinReader
<1>12. CASE TickNewSession
  BY <1>12 DEF TickNewSession, Enqueue, HeartbeatSend, ReceiverAlive, None
<1>13. CASE TickNoSession
  BY <1>13 DEF TickNoSession
<1>14. CASE TickAnswered
  BY <1>14 DEF TickAnswered, Enqueue, HeartbeatSend, ReceiverAlive, None
<1>15. CASE TickUnanswered
  BY <1>15 DEF TickUnanswered, Enqueue, HeartbeatSend, ReceiverAlive, None
<1>16. CASE TickPaused
  BY <1>16 DEF TickPaused
<1>17. CASE HeartbeatRecord
  BY <1>17 DEF HeartbeatRecord
<1>18. CASE HeartbeatExit
  BY <1>18 DEF HeartbeatExit
<1>19. CASE Shutdown
  BY <1>19 DEF Shutdown
<1>20. CASE MainClear
  BY <1>20 DEF MainClear
<1>21. CASE MainExit
  BY <1>21 DEF MainExit
<1>22. ASSUME NEW s \in Sessions, WriterCheck(s)
      PROVE  SlotOwnership'
  BY <1>22 DEF WriterCheck, WriterGoes
<1>23. ASSUME NEW s \in Sessions, RecvOk(s)
      PROVE  SlotOwnership'
  BY <1>23 DEF RecvOk, WriterGoes
<1>24. ASSUME NEW s \in Sessions, RecvTimeout(s)
      PROVE  SlotOwnership'
  BY <1>24 DEF RecvTimeout, WriterGoes
<1>25. ASSUME NEW s \in Sessions, RecvDisconnected(s)
      PROVE  SlotOwnership'
  <2>1. /\ writer[s] = "recv"
        /\ holder # s
        /\ writer' = [writer EXCEPT ![s] = "exit"]
        /\ UNCHANGED <<sup, cur, holder, running, mainPc, sessionRunning, chan>>
    BY <1>25 DEF RecvDisconnected, WriterGoes
  <2>2. s = cur /\ ~running
    BY <2>1
  <2>. QED  BY <2>1, <2>2
<1>26. ASSUME NEW s \in Sessions, WriteOk(s)
      PROVE  SlotOwnership'
  BY <1>26 DEF WriteOk, WriterGoes
<1>27. ASSUME NEW s \in Sessions, PacketWriteFails(s)
      PROVE  SlotOwnership'
  BY <1>27 DEF PacketWriteFails, WriterGoes
<1>28. ASSUME NEW s \in Sessions, HeartbeatWriteFails(s)
      PROVE  SlotOwnership'
  BY <1>28 DEF HeartbeatWriteFails, WriterGoes
<1>29. ASSUME NEW s \in Sessions, StrikeOut(s)
      PROVE  SlotOwnership'
  BY <1>29 DEF StrikeOut, WriterGoes
<1>30. ASSUME NEW s \in Sessions, SopClear(s)
      PROVE  SlotOwnership'
  BY <1>30 DEF SopClear, WriterGoes
<1>31. ASSUME NEW s \in Sessions, SopDrain(s)
      PROVE  SlotOwnership'
  BY <1>31 DEF SopDrain
<1>32. ASSUME NEW s \in Sessions, SopDrained(s)
      PROVE  SlotOwnership'
  <2>1. /\ writer[s] = "drain"
        /\ writer' = [writer EXCEPT ![s] = "drained"]
        /\ UNCHANGED <<sup, cur, holder, running, mainPc, sessionRunning, chan>>
    BY <1>32 DEF SopDrained, WriterGoes
  <2>2. s = cur
    BY <2>1
  <2>3. chan'[cur] = <<>>
    BY <1>32, <2>2 DEF SopDrained
  <2>. QED  BY <2>1, <2>2, <2>3
<1>33. ASSUME NEW s \in Sessions, SopReturn(s)
      PROVE  SlotOwnership'
  BY <1>33 DEF SopReturn, WriterGoes
<1>34. ASSUME NEW s \in Sessions, GracefulReturn(s)
      PROVE  SlotOwnership'
  BY <1>34 DEF GracefulReturn, WriterGoes
<1>35. ASSUME NEW s \in Sessions, ReadLine(s)
      PROVE  SlotOwnership'
  BY <1>35 DEF ReadLine
<1>36. ASSUME NEW s \in Sessions, ReadError(s)
      PROVE  SlotOwnership'
  BY <1>36 DEF ReadError
<1>37. ASSUME NEW s \in Sessions, ReaderExit(s)
      PROVE  SlotOwnership'
  BY <1>37 DEF ReaderExit
<1>38. CASE UNCHANGED vars
  BY <1>38
<1>. QED
  BY <1>1, <1>2, <1>3, <1>4, <1>5, <1>6, <1>7, <1>8, <1>9, <1>10, <1>11,
     <1>12, <1>13, <1>14, <1>15, <1>16, <1>17, <1>18, <1>19, <1>20, <1>21,
     <1>22, <1>23, <1>24, <1>25, <1>26, <1>27, <1>28, <1>29, <1>30, <1>31,
     <1>32, <1>33, <1>34, <1>35, <1>36, <1>37, <1>38
     DEF Next, Supervisor, WriterStep, WriteReturns, Tick, Exited

LEMMA PromptsStep ==
  ASSUME TypeOK, PromptsBounded, [Next]_vars
  PROVE  PromptsBounded'
<1>. USE ConstantsAssumption DEF TypeOK, PromptsBounded, vars, supVars, writerVars, hbVars, lineVars
<1>1. CASE Send
  BY <1>1 DEF Send
<1>2. CASE SupCheck
  BY <1>2 DEF SupCheck
<1>3. CASE DiscoverNone
  BY <1>3 DEF DiscoverNone
<1>4. CASE Backoff
  BY <1>4 DEF Backoff
<1>5. CASE ConfigureFails
  BY <1>5 DEF ConfigureFails
<1>6. CASE PublishSender
  BY <1>6 DEF PublishSender
<1>7. CASE SpawnWriter
  BY <1>7 DEF SpawnWriter
<1>8. CASE SpawnReader
  BY <1>8 DEF SpawnReader
<1>9. CASE ClearHolder
  BY <1>9 DEF ClearHolder
<1>10. CASE StopReader
  BY <1>10 DEF StopReader
<1>11. CASE JoinReader
  BY <1>11 DEF JoinReader
<1>12. CASE TickNewSession
  BY <1>12 DEF TickNewSession, HeartbeatSend
<1>13. CASE TickNoSession
  BY <1>13 DEF TickNoSession
<1>14. CASE TickAnswered
  BY <1>14 DEF TickAnswered, HeartbeatSend
<1>15. CASE TickUnanswered
  <2>1. /\ consecutiveMisses' = consecutiveMisses + 1
        /\ fresh' = fresh /\ ~fresh
    BY <1>15 DEF TickUnanswered
  <2>2. CASE paused'
    <3>1. prompts' = prompts
      BY <1>15, <2>2 DEF TickUnanswered
    <3>. QED  BY <2>1, <3>1
  <2>3. CASE ~paused'
    <3>1. prompts' = prompts + 1
      BY <1>15, <2>3 DEF TickUnanswered
    <3>2. ~(consecutiveMisses + 1 >= UnansweredThreshold)
      BY <1>15, <2>3, Zenon DEF TickUnanswered
    <3>. QED  BY <2>1, <3>1, <3>2
  <2>. QED  BY <2>2, <2>3
<1>16. CASE TickPaused
  BY <1>16 DEF TickPaused
<1>17. CASE HeartbeatRecord
  BY <1>17 DEF HeartbeatRecord
<1>18. CASE HeartbeatExit
  BY <1>18 DEF HeartbeatExit
<1>19. CASE Shutdown
  BY <1>19 DEF Shutdown
<1>20. CASE MainClear
  BY <1>20 DEF MainClear
<1>21. CASE MainExit
  BY <1>21 DEF MainExit
<1>22. ASSUME NEW s \in Sessions, WriterCheck(s)
      PROVE  PromptsBounded'
  BY <1>22 DEF WriterCheck
<1>23. ASSUME NEW s \in Sessions, RecvOk(s)
      PROVE  PromptsBounded'
  BY <1>23 DEF RecvOk
<1>24. ASSUME NEW s \in Sessions, RecvTimeout(s)
      PROVE  PromptsBounded'
  BY <1>24 DEF RecvTimeout
<1>25. ASSUME NEW s \in Sessions, RecvDisconnected(s)
      PROVE  PromptsBounded'
  BY <1>25 DEF RecvDisconnected
<1>26. ASSUME NEW s \in Sessions, WriteOk(s)
      PROVE  PromptsBounded'
  BY <1>26 DEF WriteOk
<1>27. ASSUME NEW s \in Sessions, PacketWriteFails(s)
      PROVE  PromptsBounded'
  BY <1>27 DEF PacketWriteFails
<1>28. ASSUME NEW s \in Sessions, HeartbeatWriteFails(s)
      PROVE  PromptsBounded'
  BY <1>28 DEF HeartbeatWriteFails
<1>29. ASSUME NEW s \in Sessions, StrikeOut(s)
      PROVE  PromptsBounded'
  BY <1>29 DEF StrikeOut
<1>30. ASSUME NEW s \in Sessions, SopClear(s)
      PROVE  PromptsBounded'
  BY <1>30 DEF SopClear
<1>31. ASSUME NEW s \in Sessions, SopDrain(s)
      PROVE  PromptsBounded'
  BY <1>31 DEF SopDrain
<1>32. ASSUME NEW s \in Sessions, SopDrained(s)
      PROVE  PromptsBounded'
  BY <1>32 DEF SopDrained
<1>33. ASSUME NEW s \in Sessions, SopReturn(s)
      PROVE  PromptsBounded'
  BY <1>33 DEF SopReturn
<1>34. ASSUME NEW s \in Sessions, GracefulReturn(s)
      PROVE  PromptsBounded'
  BY <1>34 DEF GracefulReturn
<1>35. ASSUME NEW s \in Sessions, ReadLine(s)
      PROVE  PromptsBounded'
  BY <1>35 DEF ReadLine
<1>36. ASSUME NEW s \in Sessions, ReadError(s)
      PROVE  PromptsBounded'
  BY <1>36 DEF ReadError
<1>37. ASSUME NEW s \in Sessions, ReaderExit(s)
      PROVE  PromptsBounded'
  BY <1>37 DEF ReaderExit
<1>38. CASE UNCHANGED vars
  BY <1>38
<1>. QED
  BY <1>1, <1>2, <1>3, <1>4, <1>5, <1>6, <1>7, <1>8, <1>9, <1>10, <1>11,
     <1>12, <1>13, <1>14, <1>15, <1>16, <1>17, <1>18, <1>19, <1>20, <1>21,
     <1>22, <1>23, <1>24, <1>25, <1>26, <1>27, <1>28, <1>29, <1>30, <1>31,
     <1>32, <1>33, <1>34, <1>35, <1>36, <1>37, <1>38
     DEF Next, Supervisor, WriterStep, WriteReturns, Tick, Exited

\* A verdict added keeps the failures counted at the end of the record.
LEMMA VerdictStep ==
  ASSUME TypeOK, FailuresAreVerdicts, NEW ok \in BOOLEAN, Verdict(ok),
         inHand = "heartbeat"
  PROVE  /\ Len(verdicts') <= FailureThreshold
         /\ Len(verdicts') >= 1
         /\ ~ok => \/ failures + 1 <= Len(verdicts')
                   \/ failures = FailureThreshold
         /\ ~ok => \A i \in 1..Len(verdicts') :
                     i + failures + 1 > Len(verdicts') => ~verdicts'[i]
<1>. USE ConstantsAssumption DEF TypeOK, FailuresAreVerdicts
<1>1. CASE Len(verdicts) = FailureThreshold
  <2>1. verdicts' = Append(Tail(verdicts), ok)
    BY <1>1 DEF Verdict
  <2>2. /\ Tail(verdicts) \in Seq(BOOLEAN)
        /\ Len(Tail(verdicts)) = FailureThreshold - 1
        /\ \A i \in 1..FailureThreshold - 1 : Tail(verdicts)[i] = verdicts[i + 1]
    BY <1>1
  <2>3. /\ Len(verdicts') = FailureThreshold
        /\ verdicts'[FailureThreshold] = ok
        /\ \A i \in 1..FailureThreshold - 1 : verdicts'[i] = verdicts[i + 1]
    BY <2>1, <2>2
  <2>. QED  BY <1>1, <2>3
<1>2. CASE Len(verdicts) # FailureThreshold
  <2>1. verdicts' = Append(verdicts, ok)
    BY <1>2 DEF Verdict
  <2>2. /\ Len(verdicts') = Len(verdicts) + 1
        /\ verdicts'[Len(verdicts) + 1] = ok
        /\ \A i \in 1..Len(verdicts) : verdicts'[i] = verdicts[i]
    BY <2>1
  <2>3. /\ Len(verdicts) + 1 <= FailureThreshold
        /\ failures + 1 <= Len(verdicts')
    BY <1>2, <2>2
  <2>4. ASSUME ~ok, NEW i \in 1..Len(verdicts'),
               i + failures + 1 > Len(verdicts')
        PROVE  ~verdicts'[i]
    <3>1. CASE i = Len(verdicts) + 1
      BY <2>2, <2>4, <3>1
    <3>2. CASE i # Len(verdicts) + 1
      <4>1. i \in 1..Len(verdicts) /\ i + failures > Len(verdicts)
        BY <2>2, <2>4, <3>2
      <4>. QED  BY <2>2, <4>1
    <3>. QED  BY <3>1, <3>2
  <2>. QED  BY <2>2, <2>3, <2>4
<1>. QED  BY <1>1, <1>2

LEMMA FailuresStep ==
  ASSUME TypeOK, OneAtATime, ThreadsFollowSupervisor, FailuresAreVerdicts, [Next]_vars
  PROVE  FailuresAreVerdicts'
<1>. USE ConstantsAssumption DEF vars, supVars, writerVars, hbVars, lineVars
<1>1. CASE Send
  BY <1>1 DEF TypeOK, FailuresAreVerdicts, Send
<1>2. CASE SupCheck
  BY <1>2 DEF TypeOK, FailuresAreVerdicts, SupCheck
<1>3. CASE DiscoverNone
  BY <1>3 DEF TypeOK, FailuresAreVerdicts, DiscoverNone
<1>4. CASE Backoff
  BY <1>4 DEF TypeOK, FailuresAreVerdicts, Backoff
<1>5. CASE ConfigureFails
  BY <1>5 DEF TypeOK, FailuresAreVerdicts, ConfigureFails
<1>6. CASE PublishSender
  BY <1>6 DEF TypeOK, FailuresAreVerdicts, PublishSender
<1>7. CASE SpawnWriter
  BY <1>7 DEF TypeOK, FailuresAreVerdicts, SpawnWriter
<1>8. CASE SpawnReader
  BY <1>8 DEF TypeOK, FailuresAreVerdicts, SpawnReader
<1>9. CASE ClearHolder
  BY <1>9 DEF TypeOK, FailuresAreVerdicts, ClearHolder
<1>10. CASE StopReader
  BY <1>10 DEF TypeOK, FailuresAreVerdicts, StopReader
<1>11. CASE JoinReader
  BY <1>11 DEF TypeOK, FailuresAreVerdicts, JoinReader
<1>12. CASE TickNewSession
  BY <1>12 DEF TypeOK, FailuresAreVerdicts, TickNewSession
<1>13. CASE TickNoSession
  BY <1>13 DEF TypeOK, FailuresAreVerdicts, TickNoSession
<1>14. CASE TickAnswered
  BY <1>14 DEF TypeOK, FailuresAreVerdicts, TickAnswered
<1>15. CASE TickUnanswered
  BY <1>15 DEF TypeOK, FailuresAreVerdicts, TickUnanswered
<1>16. CASE TickPaused
  BY <1>16 DEF TypeOK, FailuresAreVerdicts, TickPaused
<1>17. CASE HeartbeatRecord
  BY <1>17 DEF TypeOK, FailuresAreVerdicts, HeartbeatRecord
<1>18. CASE HeartbeatExit
  BY <1>18 DEF TypeOK, FailuresAreVerdicts, HeartbeatExit
<1>19. CASE Shutdown
  BY <1>19 DEF TypeOK, FailuresAreVerdicts, Shutdown
<1>20. CASE MainClear
  BY <1>20 DEF TypeOK, FailuresAreVerdicts, MainClear
<1>21. CASE MainExit
  BY <1>21 DEF TypeOK, FailuresAreVerdicts, MainExit
<1>22. ASSUME NEW s \in Sessions, WriterCheck(s)
      PROVE  FailuresAreVerdicts'
  BY <1>22 DEF TypeOK, FailuresAreVerdicts, WriterCheck, WriterGoes
<1>23. ASSUME NEW s \in Sessions, RecvOk(s)
      PROVE  FailuresAreVerdicts'
  BY <1>23 DEF TypeOK, FailuresAreVerdicts, RecvOk, WriterGoes
<1>24. ASSUME NEW s \in Sessions, RecvTimeout(s)
      PROVE  FailuresAreVerdicts'
  BY <1>24 DEF TypeOK, FailuresAreVerdicts, RecvTimeout, WriterGoes
<1>25. ASSUME NEW s \in Sessions, RecvDisconnected(s)
      PROVE  FailuresAreVerdicts'
  BY <1>25 DEF TypeOK, FailuresAreVerdicts, RecvDisconnected, WriterGoes
<1>26. ASSUME NEW s \in Sessions, WriteOk(s)
      PROVE  FailuresAreVerdicts'
  <2>1. CASE inHand = "heartbeat"
    <3>1. failures' = 0 /\ Verdict(TRUE)
      BY <1>26, <2>1 DEF WriteOk
    <3>2. verdicts' \in Seq(BOOLEAN) /\ Len(verdicts') <= FailureThreshold
      BY <2>1, <3>1, VerdictStep, VerdictType
    <3>. QED  BY <3>1, <3>2 DEF FailuresAreVerdicts
  <2>2. CASE inHand # "heartbeat"
    <3>1. /\ failures' = failures /\ verdicts' = verdicts
          /\ writer[s] = "write" /\ writer' = [writer EXCEPT ![s] = "check"]
      BY <1>26, <2>2 DEF WriteOk, Verdict, WriterGoes
    <3>. QED  BY <3>1 DEF TypeOK, FailuresAreVerdicts
  <2>. QED  BY <2>1, <2>2
<1>27. ASSUME NEW s \in Sessions, PacketWriteFails(s)
      PROVE  FailuresAreVerdicts'
  BY <1>27 DEF TypeOK, FailuresAreVerdicts, PacketWriteFails, WriterGoes, Verdict
<1>28. ASSUME NEW s \in Sessions, HeartbeatWriteFails(s)
      PROVE  FailuresAreVerdicts'
  <2>1. /\ failures' = failures + 1 /\ failures + 1 < FailureThreshold
        /\ inHand = "heartbeat" /\ Verdict(FALSE)
        /\ writer[s] = "write"
    BY <1>28 DEF HeartbeatWriteFails, WriterGoes
  <2>2. verdicts' \in Seq(BOOLEAN)
    BY <2>1, VerdictType
  <2>3. failures \in Nat /\ failures < FailureThreshold
    BY <2>1 DEF TypeOK, FailuresAreVerdicts
  <2>4. /\ Len(verdicts') <= FailureThreshold
        /\ failures + 1 <= Len(verdicts')
        /\ \A i \in 1..Len(verdicts') :
             i + failures + 1 > Len(verdicts') => ~verdicts'[i]
    <3>1. /\ Len(verdicts') <= FailureThreshold
          /\ failures + 1 <= Len(verdicts') \/ failures = FailureThreshold
          /\ \A i \in 1..Len(verdicts') :
               i + failures + 1 > Len(verdicts') => ~verdicts'[i]
      BY <2>1, VerdictStep, Zenon
    <3>. QED  BY <2>3, <3>1
  <2>. QED  BY <2>1, <2>2, <2>4 DEF TypeOK, FailuresAreVerdicts
<1>29. ASSUME NEW s \in Sessions, StrikeOut(s)
      PROVE  FailuresAreVerdicts'
  <2>1. /\ failures' = failures + 1
        /\ inHand = "heartbeat" /\ Verdict(FALSE)
        /\ writer[s] = "write" /\ writer' = [writer EXCEPT ![s] = "exit"]
    BY <1>29 DEF StrikeOut, WriterGoes
  <2>2. verdicts' \in Seq(BOOLEAN)
    BY <2>1, VerdictType
  <2>3. failures \in Nat /\ failures < FailureThreshold
    BY <2>1 DEF TypeOK, FailuresAreVerdicts
  <2>4. /\ Len(verdicts') <= FailureThreshold
        /\ failures + 1 <= Len(verdicts')
        /\ \A i \in 1..Len(verdicts') :
             i + failures + 1 > Len(verdicts') => ~verdicts'[i]
    <3>1. /\ Len(verdicts') <= FailureThreshold
          /\ failures + 1 <= Len(verdicts') \/ failures = FailureThreshold
          /\ \A i \in 1..Len(verdicts') :
               i + failures + 1 > Len(verdicts') => ~verdicts'[i]
      BY <2>1, VerdictStep, Zenon
    <3>. QED  BY <2>3, <3>1
  <2>5. ASSUME NEW t \in Sessions
        PROVE  writer'[t] \notin {"check", "recv", "write"}
    <3>1. writer \in [Sessions -> WriterPcs] /\ cur \in Nat
      BY ConstantsAssumption DEF TypeOK
    <3>4. s = cur
      <4>1. ~(s > cur) /\ ~(s < cur)
        BY <2>1 DEF OneAtATime
      <4>. QED  BY <3>1, <4>1 DEF Sessions
    <3>2. CASE t = s
      BY <2>1, <3>4, <3>1, <3>2
    <3>3. CASE t # s
      <4>1. writer[t] \in {"unborn", "done"}
        BY <3>4, <3>1, <3>3 DEF OneAtATime, Sessions
      <4>. QED  BY <2>1, <3>4, <3>1, <3>3, <4>1
    <3>. QED  BY <3>2, <3>3
  <2>6. failures' <= Len(verdicts')
    BY <2>1, <2>4
  <2>7. \A i \in 1..Len(verdicts') :
          i + failures' > Len(verdicts') => ~verdicts'[i]
    BY <2>1, <2>2, <2>3, <2>4
  <2>. QED  BY <2>4, <2>5, <2>6, <2>7 DEF FailuresAreVerdicts
<1>30. ASSUME NEW s \in Sessions, SopClear(s)
      PROVE  FailuresAreVerdicts'
  BY <1>30 DEF TypeOK, FailuresAreVerdicts, SopClear, WriterGoes
<1>31. ASSUME NEW s \in Sessions, SopDrain(s)
      PROVE  FailuresAreVerdicts'
  BY <1>31 DEF TypeOK, FailuresAreVerdicts, SopDrain
<1>32. ASSUME NEW s \in Sessions, SopDrained(s)
      PROVE  FailuresAreVerdicts'
  BY <1>32 DEF TypeOK, FailuresAreVerdicts, SopDrained, WriterGoes
<1>33. ASSUME NEW s \in Sessions, SopReturn(s)
      PROVE  FailuresAreVerdicts'
  BY <1>33 DEF TypeOK, FailuresAreVerdicts, SopReturn, WriterGoes
<1>34. ASSUME NEW s \in Sessions, GracefulReturn(s)
      PROVE  FailuresAreVerdicts'
  BY <1>34 DEF TypeOK, FailuresAreVerdicts, GracefulReturn, WriterGoes
<1>35. ASSUME NEW s \in Sessions, ReadLine(s)
      PROVE  FailuresAreVerdicts'
  BY <1>35 DEF TypeOK, FailuresAreVerdicts, ReadLine
<1>36. ASSUME NEW s \in Sessions, ReadError(s)
      PROVE  FailuresAreVerdicts'
  BY <1>36 DEF TypeOK, FailuresAreVerdicts, ReadError
<1>37. ASSUME NEW s \in Sessions, ReaderExit(s)
      PROVE  FailuresAreVerdicts'
  BY <1>37 DEF TypeOK, FailuresAreVerdicts, ReaderExit
<1>38. CASE UNCHANGED vars
  BY <1>38 DEF FailuresAreVerdicts
<1>. QED
  BY <1>1, <1>2, <1>3, <1>4, <1>5, <1>6, <1>7, <1>8, <1>9, <1>10, <1>11,
     <1>12, <1>13, <1>14, <1>15, <1>16, <1>17, <1>18, <1>19, <1>20, <1>21,
     <1>22, <1>23, <1>24, <1>25, <1>26, <1>27, <1>28, <1>29, <1>30, <1>31,
     <1>32, <1>33, <1>34, <1>35, <1>36, <1>37, <1>38
     DEF Next, Supervisor, WriterStep, WriteReturns, Tick, Exited

\* Every conjunct of the invariant is preserved, given the others.
LEMMA SafetyInvStep ==
  ASSUME TypeOK, SafetyInv, [Next]_vars
  PROVE  SafetyInv'
<1>. USE DEF SafetyInv
<1>1. OneAtATime'               BY OneAtATimeStep
<1>2. ThreadsFollowSupervisor'  BY ThreadsStep
<1>3. SlotOwnership'            BY SlotStep
<1>4. PromptsBounded'           BY PromptsStep
<1>5. FailuresAreVerdicts'      BY FailuresStep
<1>. QED  BY <1>1, <1>2, <1>3, <1>4, <1>5

LEMMA InitSafetyInv == Init => SafetyInv
<1>. SUFFICES ASSUME Init  PROVE SafetyInv
  OBVIOUS
<1>. USE ConstantsAssumption DEF Init
<1>1. OneAtATime
  BY DEF OneAtATime, Sessions
<1>2. ThreadsFollowSupervisor
  BY DEF ThreadsFollowSupervisor, InSession
<1>3. SlotOwnership
  BY DEF SlotOwnership, None
<1>4. PromptsBounded
  BY DEF PromptsBounded
<1>5. FailuresAreVerdicts
  BY DEF FailuresAreVerdicts, Sessions
<1>. QED  BY <1>1, <1>2, <1>3, <1>4, <1>5 DEF SafetyInv

\* The invariant the safety theorems follow from.
THEOREM SafetyInvariant == Spec => [](TypeOK /\ SafetyInv)
<1>1. Init => TypeOK /\ SafetyInv
  BY InitSafetyInv, InitType
<1>2. TypeOK /\ SafetyInv /\ [Next]_vars => (TypeOK /\ SafetyInv)'
  BY TypeStep, SafetyInvStep
<1>. QED  BY <1>1, <1>2, PTL DEF Spec

\* Only the latest session has a writer at work.
LEMMA LatestOnly ==
  ASSUME TypeOK, SafetyInv, NEW s \in Sessions,
         writer[s] \notin {"unborn", "done"}
  PROVE  s = cur
<1>1. cur \in Nat /\ s \in Nat
  BY ConstantsAssumption DEF TypeOK, Sessions
<1>2. ~(s > cur) /\ ~(s < cur)
  BY DEF SafetyInv, OneAtATime
<1>. QED  BY <1>1, <1>2

\* writer.rs:41-46: nothing is left in, or added to, the channel of a session
\* whose disconnect procedure has drained it.
THEOREM DrainIsComplete == Spec => []DrainComplete
<1>1. TypeOK /\ SafetyInv => DrainComplete
  <2>. SUFFICES ASSUME TypeOK, SafetyInv, NEW s \in Sessions,
                       writer[s] = "drained"
                PROVE  chan[s] = <<>> /\ holder # s
    BY DEF DrainComplete
  <2>1. s = cur
    BY LatestOnly
  <2>. QED  BY <2>1 DEF SafetyInv, SlotOwnership, Sessions, None
<1>. QED  BY <1>1, SafetyInvariant, PTL

\* main.rs:463-505: in a running daemon the slot never offers a sender whose
\* receiver is gone.
THEOREM SendersHaveReceivers == Spec => []SenderHasReceiver
<1>1. TypeOK /\ SafetyInv => SenderHasReceiver
  BY DEF SafetyInv, SlotOwnership, SenderHasReceiver, ReceiverAlive, None
<1>. QED  BY <1>1, SafetyInvariant, PTL

\* Between sessions every thread is over.
LEMMA ThreadsOver ==
  ASSUME TypeOK, SafetyInv, sup \notin InSession, NEW s \in Sessions
  PROVE  /\ writer[s] \in {"unborn", "done"}
         /\ reader[s] \in {"unborn", "done"}
<1>. cur \in Nat /\ s \in Nat /\ s # 0
  BY ConstantsAssumption DEF TypeOK, Sessions
<1>1. CASE s > cur \/ s < cur
  BY <1>1 DEF SafetyInv, OneAtATime
<1>2. CASE s = cur
  BY <1>2 DEF SafetyInv, ThreadsFollowSupervisor, InSession
<1>. QED  BY <1>1, <1>2

\* main.rs:507-517: between two sessions every handle on the port is dropped.
THEOREM PortIsReleased == Spec => []PortReleased
<1>1. TypeOK /\ SafetyInv => PortReleased
  BY ThreadsOver DEF PortReleased, InSession
<1>. QED  BY <1>1, SafetyInvariant, PTL

\* writer.rs:56-58: in a running daemon no writer in its loop finds its
\* channel disconnected.
THEOREM DisconnectsAtShutdown == Spec => []DisconnectedOnlyAtShutdown
<1>1. TypeOK /\ SafetyInv => DisconnectedOnlyAtShutdown
  <2>. SUFFICES ASSUME TypeOK, SafetyInv, NEW s \in Sessions,
                       writer[s] \in {"check", "recv", "write"}, holder # s
                PROVE  ~running
    BY DEF DisconnectedOnlyAtShutdown
  <2>1. s = cur /\ s # 0
    BY LatestOnly DEF Sessions
  <2>2. sup \in {"spawnWriter", "spawnReader", "joinWriter"}
    BY <2>1 DEF SafetyInv, ThreadsFollowSupervisor
  <2>. QED  BY <2>1, <2>2 DEF SafetyInv, SlotOwnership
<1>. QED  BY <1>1, SafetyInvariant, PTL

\* heartbeat.rs:40-44: a silent device is prompted at most UnansweredThreshold
\* times.
THEOREM PromptsAreBounded == Spec => []SilentDeviceIsLeftAlone
<1>1. SafetyInv => SilentDeviceIsLeftAlone
  BY DEF SafetyInv, PromptsBounded, SilentDeviceIsLeftAlone
<1>. QED  BY <1>1, SafetyInvariant, PTL

\* main.rs:803-822: run() returns with the slot empty and every thread over.
THEOREM ExitIsClean == Spec => []ExitClean
<1>1. TypeOK /\ SafetyInv => ExitClean
  BY ThreadsOver DEF SafetyInv, SlotOwnership, InSession, ExitClean
<1>. QED  BY <1>1, SafetyInvariant, PTL

\* writer.rs:19-26: only FailureThreshold consecutive failures of this
\* session's heartbeats make the writer end it.
THEOREM StrikeOuts == Spec => StrikeOutOnlyOnHeartbeats
<1>. DEFINE Struck ==
       \A s \in Sessions :
         writer[s] = "write" /\ sessionRunning[s] /\ writer'[s] = "exit" =>
           verdicts' = [i \in 1..FailureThreshold |-> FALSE]
<1>1. ASSUME TypeOK, SafetyInv, NEW s \in Sessions, StrikeOut(s)
      PROVE  verdicts' = [i \in 1..FailureThreshold |-> FALSE]
  <2>1. FailuresAreVerdicts' /\ TypeOK'
    BY <1>1, TypeStep, SafetyInvStep DEF Next, WriteReturns, SafetyInv
  <2>2. failures' >= FailureThreshold /\ failures' \in Nat
    BY <1>1 DEF StrikeOut, TypeOK
  <2>3. verdicts' \in Seq(BOOLEAN) /\ FailureThreshold \in Nat
    BY <2>1, ConstantsAssumption DEF TypeOK
  <2>4. Len(verdicts') = FailureThreshold
    BY <2>1, <2>2, <2>3 DEF FailuresAreVerdicts
  <2>5. ASSUME NEW i \in 1..FailureThreshold
        PROVE  verdicts'[i] = FALSE
    <3>1. i + failures' > Len(verdicts')
      <4>1. i \in Nat /\ i >= 1 /\ FailureThreshold \in Nat
        BY ConstantsAssumption
      <4>2. i + failures' > FailureThreshold
        <5>1. \A n \in Nat : n >= FailureThreshold => i + n > FailureThreshold
          BY <4>1
        <5>. QED  BY <2>2, <5>1, Zenon
      <4>. QED  BY <2>4, <4>2, Zenon
    <3>2. ~verdicts'[i] /\ verdicts'[i] \in BOOLEAN
      BY <2>1, <2>3, <2>4, <3>1 DEF FailuresAreVerdicts
    <3>. QED  BY <3>2
  <2>6. verdicts' \in [1..FailureThreshold -> BOOLEAN]
    BY <2>3, <2>4, LenProperties
  <2>. QED  BY <2>5, <2>6
<1>2. TypeOK /\ SafetyInv /\ [Next]_vars => [Struck]_vars
  <2>. SUFFICES ASSUME TypeOK, SafetyInv, Next, NEW s \in Sessions,
                       writer[s] = "write", writer'[s] = "exit"
                PROVE  verdicts' = [i \in 1..FailureThreshold |-> FALSE]
    OBVIOUS
  <2>1. writer \in [Sessions -> WriterPcs] /\ cur \in Nat
    BY ConstantsAssumption DEF TypeOK
  <2>2. CASE Send \/ Tick \/ HeartbeatRecord \/ HeartbeatExit \/ Shutdown
             \/ MainClear \/ MainExit \/ Exited
    BY <2>2 DEF Send, Tick, TickNewSession, TickNoSession, TickAnswered,
                TickUnanswered, TickPaused, HeartbeatRecord, HeartbeatExit,
                Shutdown, MainClear, MainExit, Exited, vars, writerVars
  <2>3. CASE Supervisor
    BY <2>1, <2>3
       DEF Supervisor, SupCheck, DiscoverNone, Backoff, ConfigureFails,
           PublishSender, SpawnWriter, SpawnReader, ClearHolder, StopReader,
           JoinReader, writerVars
  <2>4. ASSUME NEW t \in Sessions,
               WriterStep(t) \/ ReadLine(t) \/ ReadError(t) \/ ReaderExit(t)
        PROVE  FALSE
    BY <2>1, <2>4
       DEF WriterStep, WriterCheck, RecvOk, RecvTimeout, RecvDisconnected,
           SopClear, SopDrain, SopDrained, SopReturn, GracefulReturn, ReadLine,
           ReadError, ReaderExit, WriterGoes, writerVars
  <2>5. ASSUME NEW t \in Sessions, WriteReturns(t)
        PROVE  StrikeOut(t) /\ t = s
    BY <2>1, <2>5
       DEF WriteReturns, WriteOk, PacketWriteFails, HeartbeatWriteFails,
           StrikeOut, WriterGoes
  <2>. QED  BY <1>1, <2>2, <2>3, <2>4, <2>5 DEF Next
<1>. QED  BY <1>2, SafetyInvariant, PTL DEF Spec, StrikeOutOnlyOnHeartbeats

\* What a step must keep to be invisible to a sender.
LEMMA LinkStutter ==
  ASSUME holder' = holder, cur' = cur, running' = running, chan' = chan,
         cur # 0 => (writer'[cur] = "done" <=> writer[cur] = "done")
  PROVE  UNCHANGED Link!linkVars
BY DEF Link!linkVars, Waiting, ReceiverAlive

\* A send is accepted by the link, or changes nothing in it.
LEMMA LinkSend ==
  ASSUME TypeOK, SafetyInv, NEW k \in Kinds, Enqueue(k),
         UNCHANGED <<holder, cur, running, writer>>
  PROVE  [Link!LinkNext]_(Link!linkVars)
<1>1. holder \in {None, cur} /\ cur \in 0..MaxSessions
  BY DEF SafetyInv, SlotOwnership, TypeOK
<1>2. CASE holder # None /\ ReceiverAlive(holder)
  <2>1. holder = cur /\ cur # 0 /\ cur \in Sessions
    BY <1>1, <1>2, ConstantsAssumption DEF None, Sessions
  <2>2. Waiting = chan[cur] /\ Waiting' = chan'[cur]
    BY <1>2, <2>1 DEF Waiting, ReceiverAlive
  <2>3. chan'[cur] = Append(chan[cur], k)
    BY <1>2, <2>1 DEF Enqueue, TypeOK
  <2>4. Link!Accept(k)
    BY <1>2, <2>1, <2>2, <2>3 DEF Link!Accept
  <2>. QED  BY <2>4 DEF Link!LinkNext
<1>3. CASE ~(holder # None /\ ReceiverAlive(holder))
  BY <1>3, LinkStutter DEF Enqueue
<1>. QED  BY <1>2, <1>3

\* Clearing the slot closes the link, if it was open.
LEMMA LinkClose ==
  ASSUME holder' = None,
         UNCHANGED <<cur, running, chan>>,
         cur # 0 => (writer'[cur] = "done" <=> writer[cur] = "done")
  PROVE  [Link!LinkNext]_(Link!linkVars)
<1>1. Waiting' = Waiting
  BY DEF Waiting, ReceiverAlive
<1>2. CASE holder = None
  BY <1>2, LinkStutter
<1>3. CASE holder # None
  <2>1. Link!Close
    BY <1>1, <1>3 DEF Link!Close
  <2>. QED  BY <2>1 DEF Link!LinkNext
<1>. QED  BY <1>2, <1>3

\* Taking the first packet out of the latest channel.
LEMMA LinkTake ==
  ASSUME TypeOK, NEW s \in Sessions, s = cur, chan[s] # <<>>,
         chan' = [chan EXCEPT ![s] = Tail(@)],
         writer[s] # "done", writer'[s] # "done",
         UNCHANGED <<holder, cur, running>>
  PROVE  [Link!LinkNext]_(Link!linkVars)
<1>1. cur # 0 /\ chan'[s] = Tail(chan[s])
  BY DEF TypeOK, Sessions
<1>2. Waiting = chan[s] /\ Waiting' = Tail(chan[s])
  BY <1>1 DEF Waiting, ReceiverAlive
<1>3. Link!TakeFirst
  BY <1>2 DEF Link!TakeFirst
<1>. QED  BY <1>3 DEF Link!LinkNext

\* Every step of a session is a step of the link, or invisible to it.
LEMMA LinkStep ==
  ASSUME TypeOK, SafetyInv, [Next]_vars
  PROVE  [Link!LinkNext]_(Link!linkVars)
<1>1. CASE Send
  BY <1>1, LinkSend DEF Send, Kinds, supVars, writerVars
<1>2. CASE SupCheck
  BY <1>2, LinkStutter DEF SupCheck, vars, supVars, writerVars, hbVars, lineVars
<1>3. CASE DiscoverNone
  BY <1>3, LinkStutter DEF DiscoverNone, vars, supVars, writerVars, hbVars, lineVars
<1>4. CASE Backoff
  BY <1>4, LinkStutter DEF Backoff, vars, supVars, writerVars, hbVars, lineVars
<1>5. CASE ConfigureFails
  BY <1>5, LinkStutter DEF ConfigureFails, vars, supVars, writerVars, hbVars, lineVars
<1>6. CASE PublishSender
  <2>1. cur + 1 \in Sessions /\ cur + 1 > cur /\ cur \in Nat
    BY <1>6, ConstantsAssumption DEF PublishSender, TypeOK, Sessions
  <2>2. holder = None /\ (cur # 0 => writer[cur] = "done")
    BY <1>6 DEF PublishSender, SafetyInv, SlotOwnership, ThreadsFollowSupervisor
  <2>3. chan[cur + 1] = <<>> /\ writer[cur + 1] = "unborn"
    BY <2>1 DEF SafetyInv, OneAtATime
  <2>4. /\ cur' = cur + 1 /\ cur' # 0 /\ holder' # None
        /\ UNCHANGED <<running, chan, writer>>
    BY <1>6, <2>1 DEF PublishSender, None, writerVars
  <2>5. Waiting = <<>>
    BY <2>2 DEF Waiting, ReceiverAlive
  <2>6. Waiting' = <<>>
    BY <2>3, <2>4 DEF Waiting, ReceiverAlive
  <2>7. Link!Open
    BY <2>2, <2>4, <2>5, <2>6 DEF Link!Open
  <2>. QED  BY <2>7 DEF Link!LinkNext
<1>7. CASE SpawnWriter
  <2>1. cur # 0 => writer[cur] = "unborn" /\ cur \in Sessions
    BY <1>7, ConstantsAssumption
       DEF SpawnWriter, SafetyInv, ThreadsFollowSupervisor, TypeOK, Sessions
  <2>2. cur # 0 => writer'[cur] = "check"
    BY <1>7, <2>1 DEF SpawnWriter, TypeOK
  <2>. QED  BY <1>7, <2>1, <2>2, LinkStutter DEF SpawnWriter
<1>8. CASE SpawnReader
  BY <1>8, LinkStutter DEF SpawnReader, vars, supVars, writerVars, hbVars, lineVars
<1>9. CASE ClearHolder
  BY <1>9, LinkClose DEF ClearHolder, supVars, writerVars
<1>10. CASE StopReader
  BY <1>10, LinkStutter DEF StopReader, vars, supVars, writerVars, hbVars, lineVars
<1>11. CASE JoinReader
  BY <1>11, LinkStutter DEF JoinReader, vars, supVars, writerVars, hbVars, lineVars
<1>12. CASE TickNewSession
  BY <1>12, LinkSend DEF TickNewSession, HeartbeatSend, Kinds, supVars, writerVars
<1>13. CASE TickNoSession
  BY <1>13, LinkStutter DEF TickNoSession, vars, supVars, writerVars, hbVars, lineVars
<1>14. CASE TickAnswered
  BY <1>14, LinkSend DEF TickAnswered, HeartbeatSend, Kinds, supVars, writerVars
<1>15. CASE TickUnanswered
  <2>1. CASE paused'
    BY <1>15, <2>1, LinkStutter DEF TickUnanswered, supVars, writerVars
  <2>2. CASE ~paused'
    BY <1>15, <2>2, LinkSend DEF TickUnanswered, HeartbeatSend, Kinds, supVars, writerVars
  <2>. QED  BY <2>1, <2>2
<1>16. CASE TickPaused
  BY <1>16, LinkStutter DEF TickPaused, vars, supVars, writerVars, hbVars, lineVars
<1>17. CASE HeartbeatRecord
  BY <1>17, LinkStutter DEF HeartbeatRecord, vars, supVars, writerVars, hbVars, lineVars
<1>18. CASE HeartbeatExit
  BY <1>18, LinkStutter DEF HeartbeatExit, vars, supVars, writerVars, hbVars, lineVars
<1>19. CASE Shutdown
  <2>1. UNCHANGED <<holder, cur, chan, writer>> /\ ~running'
    BY <1>19 DEF Shutdown, supVars, writerVars
  <2>2. Waiting' = Waiting
    BY <2>1 DEF Waiting, ReceiverAlive
  <2>3. Link!Stop
    BY <2>1, <2>2 DEF Link!Stop
  <2>. QED  BY <2>3 DEF Link!LinkNext
<1>20. CASE MainClear
  BY <1>20, LinkClose DEF MainClear, supVars, writerVars
<1>21. CASE MainExit
  BY <1>21, LinkStutter DEF MainExit, vars, supVars, writerVars, hbVars, lineVars
<1>22. ASSUME NEW s \in Sessions, WriterCheck(s)
      PROVE  [Link!LinkNext]_(Link!linkVars)
  BY <1>22, LinkStutter DEF WriterCheck, WriterGoes, supVars, TypeOK
<1>23. ASSUME NEW s \in Sessions, RecvOk(s)
      PROVE  [Link!LinkNext]_(Link!linkVars)
  <2>1. /\ writer[s] = "recv" /\ writer'[s] = "write"
        /\ UNCHANGED <<holder, cur, running>>
    <3>1. writer \in [Sessions -> WriterPcs]
      BY DEF TypeOK
    <3>. QED  BY <1>23, <3>1 DEF RecvOk, WriterGoes, supVars, writerVars
  <2>2. s = cur /\ s # 0
    BY <2>1, LatestOnly DEF Sessions
  <2>3. writer[s] # "done" /\ writer'[s] # "done"
    BY <2>1
  <2>. QED  BY <1>23, <2>1, <2>2, <2>3, LinkTake, Zenon DEF RecvOk
<1>24. ASSUME NEW s \in Sessions, RecvTimeout(s)
      PROVE  [Link!LinkNext]_(Link!linkVars)
  BY <1>24, LinkStutter DEF RecvTimeout, WriterGoes, supVars, TypeOK
<1>25. ASSUME NEW s \in Sessions, RecvDisconnected(s)
      PROVE  [Link!LinkNext]_(Link!linkVars)
  BY <1>25, LinkStutter DEF RecvDisconnected, WriterGoes, supVars, TypeOK
<1>26. ASSUME NEW s \in Sessions, WriteOk(s)
      PROVE  [Link!LinkNext]_(Link!linkVars)
  BY <1>26, LinkStutter DEF WriteOk, WriterGoes, supVars, TypeOK
<1>27. ASSUME NEW s \in Sessions, PacketWriteFails(s)
      PROVE  [Link!LinkNext]_(Link!linkVars)
  BY <1>27, LinkStutter DEF PacketWriteFails, WriterGoes, supVars, TypeOK
<1>28. ASSUME NEW s \in Sessions, HeartbeatWriteFails(s)
      PROVE  [Link!LinkNext]_(Link!linkVars)
  BY <1>28, LinkStutter DEF HeartbeatWriteFails, WriterGoes, supVars, TypeOK
<1>29. ASSUME NEW s \in Sessions, StrikeOut(s)
      PROVE  [Link!LinkNext]_(Link!linkVars)
  BY <1>29, LinkStutter DEF StrikeOut, WriterGoes, supVars, TypeOK
<1>30. ASSUME NEW s \in Sessions, SopClear(s)
      PROVE  [Link!LinkNext]_(Link!linkVars)
  BY <1>30, LinkClose DEF SopClear, WriterGoes, supVars, TypeOK, Sessions
<1>31. ASSUME NEW s \in Sessions, SopDrain(s)
      PROVE  [Link!LinkNext]_(Link!linkVars)
  <2>1. /\ writer[s] = "drain" /\ writer'[s] = "drain"
        /\ UNCHANGED <<holder, cur, running>>
    <3>1. writer \in [Sessions -> WriterPcs]
      BY DEF TypeOK
    <3>. QED  BY <1>31, <3>1 DEF SopDrain, WriterGoes, supVars, writerVars
  <2>2. s = cur /\ s # 0
    BY <2>1, LatestOnly DEF Sessions
  <2>3. writer[s] # "done" /\ writer'[s] # "done"
    BY <2>1
  <2>. QED  BY <1>31, <2>1, <2>2, <2>3, LinkTake, Zenon DEF SopDrain
<1>32. ASSUME NEW s \in Sessions, SopDrained(s)
      PROVE  [Link!LinkNext]_(Link!linkVars)
  BY <1>32, LinkStutter DEF SopDrained, WriterGoes, supVars, TypeOK
<1>33. ASSUME NEW s \in Sessions, SopReturn(s)
      PROVE  [Link!LinkNext]_(Link!linkVars)
  <2>1. /\ writer[s] = "drained" /\ writer'[s] = "done"
        /\ UNCHANGED <<holder, cur, running, chan>>
    BY <1>33 DEF SopReturn, WriterGoes, TypeOK, supVars
  <2>2. s = cur /\ s # 0
    BY <2>1, LatestOnly DEF Sessions
  <2>3. chan[cur] = <<>>
    BY <2>1, <2>2 DEF SafetyInv, SlotOwnership
  <2>4. Waiting' = Waiting
    BY <2>1, <2>2, <2>3 DEF Waiting, ReceiverAlive
  <2>. QED  BY <2>1, <2>4 DEF Link!linkVars
<1>34. ASSUME NEW s \in Sessions, GracefulReturn(s)
      PROVE  [Link!LinkNext]_(Link!linkVars)
  <2>1. /\ writer[s] = "exit" /\ writer'[s] = "done"
        /\ sessionRunning[s] \/ ~running
        /\ UNCHANGED <<holder, cur, running, chan>>
    BY <1>34 DEF GracefulReturn, WriterGoes, TypeOK, supVars
  <2>2. s = cur /\ s # 0
    BY <2>1, LatestOnly DEF Sessions
  <2>3. ~running
    BY <2>1, <2>2 DEF SafetyInv, SlotOwnership
  <2>4. Waiting' = <<>>
    BY <2>1, <2>2 DEF Waiting, ReceiverAlive
  <2>5. Link!ThrowAway
    BY <2>1, <2>3, <2>4 DEF Link!ThrowAway
  <2>. QED  BY <2>5 DEF Link!LinkNext
<1>35. ASSUME NEW s \in Sessions, ReadLine(s)
      PROVE  [Link!LinkNext]_(Link!linkVars)
  BY <1>35, LinkStutter DEF ReadLine, vars, supVars, writerVars, hbVars, lineVars
<1>36. ASSUME NEW s \in Sessions, ReadError(s)
      PROVE  [Link!LinkNext]_(Link!linkVars)
  BY <1>36, LinkStutter DEF ReadError, vars, supVars, writerVars, hbVars, lineVars
<1>37. ASSUME NEW s \in Sessions, ReaderExit(s)
      PROVE  [Link!LinkNext]_(Link!linkVars)
  BY <1>37, LinkStutter DEF ReaderExit, vars, supVars, writerVars, hbVars, lineVars
<1>38. CASE UNCHANGED vars
  BY <1>38, LinkStutter DEF vars, supVars, writerVars, hbVars, lineVars
<1>. QED
  BY <1>1, <1>2, <1>3, <1>4, <1>5, <1>6, <1>7, <1>8, <1>9, <1>10, <1>11,
     <1>12, <1>13, <1>14, <1>15, <1>16, <1>17, <1>18, <1>19, <1>20, <1>21,
     <1>22, <1>23, <1>24, <1>25, <1>26, <1>27, <1>28, <1>29, <1>30, <1>31,
     <1>32, <1>33, <1>34, <1>35, <1>36, <1>37, <1>38
     DEF Next, Supervisor, WriterStep, WriteReturns, Tick, Exited

\* Session implements SerialLink: packets are accepted only through an open
\* link, leave it in order, and never outlive their session.
THEOREM SessionImplementsLink == Spec => ImplementsLink
<1>1. Init => Link!LinkInit
  BY DEF Init, Link!LinkInit, Waiting, None
<1>2. TypeOK /\ SafetyInv /\ [Next]_vars => [Link!LinkNext]_(Link!linkVars)
  BY LinkStep
<1>. QED  BY <1>1, <1>2, SafetyInvariant, PTL
          DEF Spec, ImplementsLink, Link!LinkSpec

\* A session that ends, and a daemon that ends, leave nothing behind
\* (writer.rs:41-46, main.rs:463-517, 803-822).
THEOREM TeardownClean == Spec => []TeardownIsClean
<1>1. DrainComplete /\ SenderHasReceiver /\ PortReleased /\ DisconnectedOnlyAtShutdown
        /\ ExitClean => TeardownIsClean
  BY DEF TeardownIsClean
<1>. QED  BY <1>1, DrainIsComplete, SendersHaveReceivers, PortIsReleased,
             DisconnectsAtShutdown, ExitIsClean, PTL
=============================================================================
