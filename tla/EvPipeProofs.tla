---------------------------- MODULE EvPipeProofs ----------------------------
(***************************************************************************)
(* Proofs about EvPipe, for any set of senders, asyncs and signals and any *)
(* capacity of the evpipe: IInv is inductive, and it implies NoLostWakeup  *)
(* and PassDelivers.  Each conjunct of IInv has its own lemma, with one    *)
(* step per action that can disturb it and one for all the others.         *)
(***************************************************************************)
EXTENDS EvPipe, TLAPS

\* The possible steps, one disjunct per action.
LEMMA NextCases ==
    ASSUME [Next]_vars
    PROVE  \/ \E s \in Senders, x \in Sources : Raise(s, x)
           \/ \E s \in Senders : LoadFlag(s)
           \/ \E s \in Senders : SetFlag(s)
           \/ \E s \in Senders : SetSkipped(s)
           \/ \E s \in Senders : LoadWanted(s)
           \/ \E s \in Senders : ClearSkipped(s)
           \/ \E s \in Senders : WritePipe(s)
           \/ RunBlocking \/ RunNowait \/ SizeWait \/ PollReturns \/ PollSkipped
           \/ Unwant \/ TailSkipped \/ TailFlags \/ Drain
           \/ PipecbClearSkipped \/ PipecbLoadFlag \/ PipecbClearFlag
           \/ PipecbScan \/ PipecbScanned \/ Invoke \/ EndPass
           \/ \E x \in Asyncs : AsyncStart(x)
           \/ \E x \in Asyncs : AsyncStop(x)
           \/ UNCHANGED vars
BY DEF Next, LoopStep, EvpipeWrite, PollWoken, PollTimeout, PollNow

\* A sender's step keeps its program counter and target within their types.
LEMMA SenderType ==
    ASSUME TypeOK, NEW s \in Senders, NEW from, NEW to \in SenderSteps,
           SenderGoes(s, from, to)
    PROVE  /\ spc' \in [Senders -> SenderSteps]
           /\ target' \in [Senders -> Sources \cup {NoSource}]
BY DEF TypeOK, SenderGoes

\* Every operation keeps the shared variables within their types; the evpipe
\* never holds more than its capacity.
LEMMA TypeStep ==
    ASSUME TypeOK, [Next]_vars
    PROVE  TypeOK'
<1> USE PipeAssumption DEF TypeOK, Sources, Flags, FlagOf, SenderSteps, LoopSteps,
        senderVars, loopVars, history
<1>1. ASSUME NEW s \in Senders, NEW x \in Sources, Raise(s, x)
      PROVE  TypeOK'
  BY <1>1 DEF Raise
<1>2. ASSUME NEW s \in Senders, LoadFlag(s) \/ LoadWanted(s)
      PROVE  TypeOK'
  <2>1. PICK from, to \in SenderSteps : SenderGoes(s, from, to)
    BY <1>2 DEF LoadFlag, LoadWanted
  <2>2. UNCHANGED <<wanted, skipped, flag, sent, pipe, started, lpc, wait, revents,
                    cur, todo, fed, owed, promised>>
    BY <1>2 DEF LoadFlag, LoadWanted
  <2> QED
    BY <2>1, <2>2, SenderType
<1>3. ASSUME NEW s \in Senders, SetFlag(s)
      PROVE  TypeOK'
  <2>1. SenderGoes(s, "set_flag", "set_skipped")
    BY <1>3 DEF SetFlag
  <2>2. /\ spc' \in [Senders -> SenderSteps]
        /\ target' \in [Senders -> Sources \cup {NoSource}]
    BY <2>1, SenderType
  <2> QED
    BY <1>3, <2>2 DEF SetFlag
<1>4. ASSUME NEW s \in Senders, SetSkipped(s) \/ ClearSkipped(s)
      PROVE  TypeOK'
  <2>1. PICK from, to \in SenderSteps : SenderGoes(s, from, to)
    BY <1>4 DEF SetSkipped, ClearSkipped
  <2>2. /\ spc' \in [Senders -> SenderSteps]
        /\ target' \in [Senders -> Sources \cup {NoSource}]
    BY <2>1, SenderType
  <2> QED
    BY <1>4, <2>2 DEF SetSkipped, ClearSkipped
<1>5. ASSUME NEW s \in Senders, WritePipe(s)
      PROVE  TypeOK'
  <2>1. SenderGoes(s, "write", "idle")
    BY <1>5 DEF WritePipe
  <2>2. /\ spc' \in [Senders -> SenderSteps]
        /\ target' \in [Senders -> Sources \cup {NoSource}]
    BY <2>1, SenderType
  <2> QED
    BY <1>5, <2>2 DEF WritePipe
<1>6. CASE RunBlocking \/ RunNowait
  BY <1>6 DEF RunBlocking, RunNowait, LoopGoes, Due
<1>7. CASE SizeWait \/ PollReturns \/ PollSkipped \/ Unwant
  BY <1>7 DEF SizeWait, PollReturns, PollSkipped, Unwant, LoopGoes
<1>8. CASE TailSkipped \/ TailFlags
  BY <1>8 DEF TailSkipped, TailFlags, AfterTail
<1>9. CASE Drain
  BY <1>9 DEF Drain, LoopGoes
<1>10. CASE PipecbClearSkipped \/ PipecbLoadFlag
  BY <1>10 DEF PipecbClearSkipped, PipecbLoadFlag, NextFlag, LoopGoes
<1>11. CASE PipecbClearFlag
  BY <1>11 DEF PipecbClearFlag, LoopGoes
<1>12. CASE PipecbScan
  <2>1. PICK x \in todo : /\ todo' = todo \ {x}
                          /\ sent' = [sent EXCEPT ![x] = 0]
                          /\ fed' = IF sent[x] = 1 THEN fed \cup {x} ELSE fed
    BY <1>12 DEF PipecbScan
  <2> QED
    BY <1>12, <2>1 DEF PipecbScan
<1>13. CASE PipecbScanned
  BY <1>13 DEF PipecbScanned, NextFlag
<1>14. CASE Invoke \/ EndPass
  BY <1>14 DEF Invoke, EndPass, LoopGoes
<1>15. ASSUME NEW x \in Asyncs, AsyncStart(x) \/ AsyncStop(x)
       PROVE  TypeOK'
  BY <1>15 DEF AsyncStart, AsyncStop
<1>16. CASE UNCHANGED vars
  BY <1>16 DEF vars
<1> QED
  BY NextCases, <1>1, <1>2, <1>3, <1>4, <1>5, <1>6, <1>7, <1>8, <1>9, <1>10,
     <1>11, <1>12, <1>13, <1>14, <1>15, <1>16

\* Only pipecb feeds watchers, and it leaves its position reset.
LEMMA ShapeStep ==
    ASSUME TypeOK, PassShape, [Next]_vars
    PROVE  PassShape'
<1> USE DEF PassShape, senderVars, loopVars, history
<1>1. CASE TailSkipped \/ TailFlags
  BY <1>1 DEF TailSkipped, TailFlags, AfterTail
<1>2. CASE PipecbClearSkipped \/ PipecbLoadFlag \/ PipecbClearFlag
  BY <1>2 DEF PipecbClearSkipped, PipecbLoadFlag, PipecbClearFlag, NextFlag, LoopGoes
<1>3. CASE PipecbScan \/ PipecbScanned
  BY <1>3 DEF PipecbScan, PipecbScanned, NextFlag
<1>4. CASE Invoke \/ EndPass
  BY <1>4 DEF Invoke, EndPass, LoopGoes
<1>5. ASSUME NEW x \in Asyncs, AsyncStart(x) \/ AsyncStop(x)
      PROVE  PassShape'
  BY <1>5 DEF AsyncStart, AsyncStop
<1>6. CASE UNCHANGED <<lpc, cur, fed>>
  BY <1>6
<1>7. CASE /\ UNCHANGED <<cur, fed>>
           /\ lpc \notin {"tail_flags", "load_flag", "clear_flag", "scan", "invoke"}
  BY <1>7
<1> QED
  BY NextCases, <1>1, <1>2, <1>3, <1>4, <1>5, <1>6, <1>7
  DEF Raise, LoadFlag, SetFlag, SetSkipped, LoadWanted, ClearSkipped, WritePipe,
      RunBlocking, RunNowait, SizeWait, PollReturns, PollSkipped, Unwant, Drain,
      LoopGoes, vars

\* An owed callback is never forgotten: clearing `sent' and feeding the watcher
\* are one step of the scan, and only the callback or ev_async_stop ends it.
LEMMA OwedStep ==
    ASSUME TypeOK, OwedRecorded, [Next]_vars
    PROVE  OwedRecorded'
<1> USE DEF TypeOK, OwedRecorded, senderVars, loopVars, history
<1>1. ASSUME NEW s \in Senders, NEW x \in Sources, Raise(s, x)
      PROVE  OwedRecorded'
  BY <1>1 DEF Raise
<1>2. CASE PipecbScan
  BY <1>2 DEF PipecbScan
<1>3. CASE Invoke
  BY <1>3 DEF Invoke
<1>4. ASSUME NEW x \in Asyncs, AsyncStart(x) \/ AsyncStop(x)
      PROVE  OwedRecorded'
  BY <1>4 DEF AsyncStart, AsyncStop, Sources
<1>5. CASE UNCHANGED <<owed, started, sent, fed>>
  BY <1>5
<1> QED
  BY NextCases, <1>1, <1>2, <1>3, <1>4, <1>5
  DEF LoadFlag, SetFlag, SetSkipped, LoadWanted, ClearSkipped, WritePipe,
      RunBlocking, RunNowait, SizeWait, PollReturns, PollSkipped, Unwant,
      TailSkipped, TailFlags, Drain, PipecbClearSkipped, PipecbLoadFlag,
      PipecbClearFlag, PipecbScanned, EndPass, vars

\* A sender that returns early leaves its source behind the raised flag, and
\* pipecb lowers the flag before it scans.
LEMMA SentStep ==
    ASSUME TypeOK, SentFlagged, [Next]_vars
    PROVE  SentFlagged'
<1> USE DEF TypeOK, SentFlagged, Raising, Sources, Flags, FlagOf, senderVars,
        loopVars, history
<1>1. ASSUME NEW s \in Senders, NEW x \in Sources, Raise(s, x)
      PROVE  SentFlagged'
  BY <1>1 DEF Raise
<1>2. ASSUME NEW s \in Senders, LoadFlag(s)
      PROVE  SentFlagged'
  BY <1>2 DEF LoadFlag, SenderGoes
<1>3. ASSUME NEW s \in Senders, SetFlag(s)
      PROVE  SentFlagged'
  BY <1>3 DEF SetFlag, SenderGoes
<1>4. ASSUME NEW s \in Senders,
             SetSkipped(s) \/ LoadWanted(s) \/ ClearSkipped(s) \/ WritePipe(s)
      PROVE  SentFlagged'
  BY <1>4 DEF SetSkipped, LoadWanted, ClearSkipped, WritePipe, SenderGoes
<1>5. CASE PipecbClearFlag
  BY <1>5 DEF PipecbClearFlag, LoopGoes
<1>6. CASE PipecbScan \/ PipecbScanned
  BY <1>6 DEF PipecbScan, PipecbScanned
<1>7. ASSUME NEW x \in Asyncs, AsyncStart(x) \/ AsyncStop(x)
      PROVE  SentFlagged'
  BY <1>7 DEF AsyncStart, AsyncStop
<1>8. CASE UNCHANGED <<sent, started, flag, spc, target>> /\ lpc # "scan"
  BY <1>8
<1>9. CASE UNCHANGED vars
  BY <1>9 DEF vars
<1> QED
  BY NextCases, <1>1, <1>2, <1>3, <1>4, <1>5, <1>6, <1>7, <1>8, <1>9
  DEF RunBlocking, RunNowait, SizeWait, PollReturns, PollSkipped, Unwant,
      TailSkipped, TailFlags, Drain, PipecbClearSkipped, PipecbLoadFlag, Invoke,
      EndPass, LoopGoes

\* Whoever erases the skip note is a sender about to write a byte, or pipecb,
\* which reads the flags afterwards; whoever takes the byte is pipecb too.
LEMMA FlagStep ==
    ASSUME TypeOK, PassShape, FlagTraced, [Next]_vars
    PROVE  FlagTraced'
<1> USE PipeAssumption DEF TypeOK, FlagTraced, PipecbWillLoad, Flags, FlagOf,
        senderVars, loopVars, history
<1>1. ASSUME NEW s \in Senders, NEW x \in Sources, Raise(s, x)
      PROVE  FlagTraced'
  BY <1>1 DEF Raise
<1>2. ASSUME NEW s \in Senders, LoadFlag(s) \/ LoadWanted(s)
      PROVE  FlagTraced'
  BY <1>2 DEF LoadFlag, LoadWanted, SenderGoes
<1>3. ASSUME NEW s \in Senders, SetFlag(s)
      PROVE  FlagTraced'
  BY <1>3 DEF SetFlag, SenderGoes
<1>4. ASSUME NEW s \in Senders, SetSkipped(s) \/ ClearSkipped(s)
      PROVE  FlagTraced'
  BY <1>4 DEF SetSkipped, ClearSkipped, SenderGoes
<1>5. ASSUME NEW s \in Senders, WritePipe(s)
      PROVE  FlagTraced'
  BY <1>5 DEF WritePipe, SenderGoes
<1>6. CASE Drain
  BY <1>6 DEF Drain, LoopGoes
<1>7. CASE PipecbClearSkipped
  BY <1>7 DEF PipecbClearSkipped, LoopGoes, PassShape
<1>8. CASE PipecbLoadFlag
  BY <1>8 DEF PipecbLoadFlag, NextFlag
<1>9. CASE PipecbClearFlag
  BY <1>9 DEF PipecbClearFlag, LoopGoes
<1>10. CASE PipecbScan \/ PipecbScanned
  BY <1>10 DEF PipecbScan, PipecbScanned, NextFlag
<1>11. CASE /\ UNCHANGED <<flag, skipped, pipe, spc>>
            /\ lpc \notin {"clear_skipped", "load_flag", "clear_flag", "scan"}
  BY <1>11
<1>12. CASE UNCHANGED vars
  BY <1>12 DEF vars
<1> QED
  BY NextCases, <1>1, <1>2, <1>3, <1>4, <1>5, <1>6, <1>7, <1>8, <1>9, <1>10,
     <1>11, <1>12
  DEF RunBlocking, RunNowait, SizeWait, PollReturns, PollSkipped, Unwant,
      TailSkipped, TailFlags, Invoke, EndPass, AsyncStart, AsyncStop, LoopGoes

\* ev_run stores pipe_write_wanted before it reads pipe_write_skipped, and the
\* sender stores pipe_write_skipped before it reads pipe_write_wanted.
LEMMA SleepStep ==
    ASSUME TypeOK, SleepSeen, [Next]_vars
    PROVE  SleepSeen'
<1> USE DEF TypeOK, SleepSeen, senderVars, loopVars, history
<1>1. ASSUME NEW s \in Senders, NEW x \in Sources, Raise(s, x)
      PROVE  SleepSeen'
  BY <1>1 DEF Raise
<1>2. ASSUME NEW s \in Senders, LoadFlag(s) \/ SetFlag(s) \/ WritePipe(s)
      PROVE  SleepSeen'
  BY <1>2 DEF LoadFlag, SetFlag, WritePipe, SenderGoes
<1>3. ASSUME NEW s \in Senders, SetSkipped(s) \/ LoadWanted(s) \/ ClearSkipped(s)
      PROVE  SleepSeen'
  BY <1>3 DEF SetSkipped, LoadWanted, ClearSkipped, SenderGoes
<1>4. CASE RunBlocking \/ RunNowait
  BY <1>4 DEF RunBlocking, RunNowait, LoopGoes
<1>5. CASE SizeWait
  BY <1>5 DEF SizeWait, LoopGoes
<1>6. CASE lpc' \notin {"size", "poll"}
  BY <1>6
<1>7. CASE UNCHANGED vars
  BY <1>7 DEF vars
<1> QED
  BY NextCases, <1>1, <1>2, <1>3, <1>4, <1>5, <1>6, <1>7
  DEF PollReturns, PollSkipped, Unwant, TailSkipped, TailFlags, AfterTail, Drain,
      PipecbClearSkipped, PipecbLoadFlag, PipecbClearFlag, PipecbScan,
      PipecbScanned, NextFlag, Invoke, EndPass, AsyncStart, AsyncStop, LoopGoes

\* A promised source waits behind its flag until the tail, which reads the flags,
\* sends the pass into pipecb; there the scan feeds it and the pass invokes it.
LEMMA PromiseStep ==
    ASSUME TypeOK, PassShape, OwedRecorded, SentFlagged, PromiseHeld, [Next]_vars
    PROVE  PromiseHeld'
<1> USE DEF TypeOK, PromiseHeld, Sources, Flags, FlagOf, senderVars, loopVars,
        history
<1>1. ASSUME NEW s \in Senders, NEW x \in Sources, Raise(s, x)
      PROVE  PromiseHeld'
  BY <1>1 DEF Raise
<1>2. ASSUME NEW s \in Senders, SetFlag(s)
      PROVE  PromiseHeld'
  BY <1>2 DEF SetFlag
<1>3. CASE RunBlocking \/ RunNowait
  BY <1>3 DEF RunBlocking, RunNowait, LoopGoes, Due, PassShape, OwedRecorded,
              SentFlagged, Raising
<1>4. CASE SizeWait \/ PollReturns \/ PollSkipped \/ Unwant
  BY <1>4 DEF SizeWait, PollReturns, PollSkipped, Unwant, LoopGoes
<1>5. CASE TailSkipped
  BY <1>5 DEF TailSkipped, AfterTail, PassShape
<1>6. CASE TailFlags
  BY <1>6 DEF TailFlags, AfterTail, PassShape
<1>7. CASE Drain \/ PipecbClearSkipped
  BY <1>7 DEF Drain, PipecbClearSkipped, LoopGoes, PassShape
<1>8. CASE PipecbLoadFlag
  BY <1>8 DEF PipecbLoadFlag, NextFlag
<1>9. CASE PipecbClearFlag
  BY <1>9 DEF PipecbClearFlag, LoopGoes, OwedRecorded
<1>10. CASE PipecbScan
  BY <1>10 DEF PipecbScan
<1>11. CASE PipecbScanned
  BY <1>11 DEF PipecbScanned, NextFlag
<1>12. CASE Invoke \/ EndPass
  BY <1>12 DEF Invoke, EndPass, LoopGoes
<1>13. ASSUME NEW x \in Asyncs, AsyncStart(x) \/ AsyncStop(x)
       PROVE  PromiseHeld'
  BY <1>13 DEF AsyncStart, AsyncStop, OwedRecorded
<1>14. CASE UNCHANGED <<sent, flag, fed, owed, promised, loopVars>>
  BY <1>14
<1> QED
  BY NextCases, <1>1, <1>2, <1>3, <1>4, <1>5, <1>6, <1>7, <1>8, <1>9, <1>10,
     <1>11, <1>12, <1>13, <1>14
  DEF LoadFlag, SetSkipped, LoadWanted, ClearSkipped, WritePipe, vars

\* IInv holds when the loop is created.
LEMMA InitIInv == Init => IInv
BY PipeAssumption
DEF Init, IInv, TypeOK, PassShape, OwedRecorded, SentFlagged, FlagTraced, SleepSeen,
    PromiseHeld, PipecbWillLoad, Raising, Sources, Flags, FlagOf, SenderSteps,
    LoopSteps

\* IInv is an invariant: every conjunct is preserved by every step of a sender,
\* of a pass and of the application.
THEOREM Inductive == Spec => []IInv
<1>1. IInv /\ [Next]_vars => IInv'
  BY TypeStep, ShapeStep, OwedStep, SentStep, FlagStep, SleepStep, PromiseStep
  DEF IInv
<1> QED
  BY InitIInv, <1>1, PTL DEF Spec

\* A loop that sleeps with an empty evpipe owes nobody a callback, once the
\* senders have returned from evpipe_write.
THEOREM WakeupNotLost == Spec => []NoLostWakeup
<1>1. IInv => NoLostWakeup
  <2> SUFFICES ASSUME IInv, Asleep, Quiescent, NEW x \in started
               PROVE  sent[x] = 0 /\ x \notin owed
    BY DEF NoLostWakeup
  <2>1. flag[FlagOf(x)] = 0
    BY DEF IInv, TypeOK, Asleep, Quiescent, SleepSeen, FlagTraced, PipecbWillLoad,
           FlagOf, Flags
  <2>2. sent[x] = 0
    BY <2>1 DEF IInv, TypeOK, Asleep, Quiescent, SentFlagged, Raising
  <2>3. x \notin owed
    BY <2>2 DEF IInv, TypeOK, Asleep, PassShape, OwedRecorded
  <2> QED
    BY <2>2, <2>3
<1> QED
  BY Inductive, <1>1, PTL

\* The callbacks of all sends a pass found raised have run when the pass ends.
THEOREM EveryPassDelivers == Spec => []PassDelivers
<1>1. IInv => PassDelivers
  BY DEF IInv, PromiseHeld, PassDelivers
<1> QED
  BY Inductive, <1>1, PTL
=============================================================================
