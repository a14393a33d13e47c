-------------------------- MODULE SupervisorProofs --------------------------
(***************************************************************************)
(* The safety of process supervision for any number of calls, processes    *)
(* and crashes. IInv is inductive; each part of it is preserved by a lemma *)
(* of its own, with one step per action that can disturb the part.         *)
(***************************************************************************)
EXTENDS Supervisor, TLAPS

\* Every next-state step is one of these.
LEMMA Cases ==
  ASSUME Next
  PROVE  \/ \E t \in Threads : Step(t)
         \/ \E c \in Calls, o \in CallOps : Begin(c, o)
         \/ \E c \in Calls : ReloadOk(c) \/ ReloadFail(c) \/ CtxExpire(c)
         \/ \E p \in Pids : \/ Crash(p) \/ CtxKill(p) \/ IgnoreExit(p)
                            \/ UnexpectedExit(p) \/ TimerFire(p) \/ StableRun(p)
         \/ RootCancel
         \/ UNCHANGED vars
  BY DEF Next, Terminated

LEMMA Subsets == Calls \subseteq Threads /\ Pids \subseteq Threads /\ Main \in Threads
  BY DEF Threads

-----------------------------------------------------------------------------
(* Type correctness.                                                       *)

LEMMA TypeInit == Init => TypeOK
<1> SUFFICES ASSUME Init PROVE TypeOK
  OBVIOUS
<1>1. pc \in [Threads -> Stages] /\ op \in [Threads -> Ops]
  BY DEF Init, Stages, Ops
<1>2. kind \in [Threads -> Kinds] /\ kindOf \in [Pids -> Kinds]
  BY DEF Init, Kinds
<1>3. backoff \in [Kinds -> Delays]
  BY DEF Init, Delays
<1>4. QED
  BY <1>1, <1>2, <1>3 DEF Init, TypeOK, Threads

\* The timer Record sets is that of a process, by Children.
LEMMA TypeStep ==
  ASSUME TypeOK, Children, NEW t \in Threads, Step(t)
  PROVE  TypeOK'
<1> USE DEF TypeOK, At, Goto
<1>1. CASE Mark(t)
  BY <1>1 DEF Mark, Forget, Kinds, Stages, Delays, osVars, history
<1>2. CASE StopLock(t)
  BY <1>2 DEF StopLock, Tracked, Kinds, Stages, osVars, history
<1>3. CASE Kill(t)
  BY <1>3 DEF Kill, mgrVars, history
<1>4. CASE Killed(t)
  BY <1>4 DEF Killed, Move, Stages, mgrVars, osVars, history
<1>5. CASE SetBinary(t)
  BY <1>5 DEF SetBinary, Stages, osVars, history
<1>6. CASE StartLock(t)
  BY <1>6 DEF StartLock, Stages, osVars, history
<1>6a. CASE Prepared(t)
  BY <1>6a DEF Prepared, Move, Stages, mgrVars, osVars, history
<1>6b. CASE StartFails(t)
  BY <1>6b DEF StartFails, Stages, mgrVars, osVars
<1>7. CASE Ensure(t)
  BY <1>7 DEF Ensure, Advance, Stages, Kinds, mgrVars, osVars, history
<1>8. CASE Check(t)
  BY <1>8 DEF Check, Advance, Stages, Kinds, mgrVars, osVars, history
<1>9. CASE ExecOk(t)
  BY <1>9 DEF ExecOk, Stages, mgrVars, history
<1>10. CASE ExecFail(t)
  BY <1>10 DEF ExecFail, Abandoned, Stages, Kinds, mgrVars, osVars
<1>11. CASE Record(t)
  <2>1. child[t] \in Pids
    BY <1>11 DEF Children, Record
  <2>2. /\ cmd' \in [Kinds -> Pids \cup {None}]
        /\ watch' \in [Pids -> {"none", "waiting", "done"}]
        /\ timers' \subseteq Pids
        /\ child' \in [Threads -> Pids \cup {None}]
        /\ lost' \subseteq Kinds
    BY <1>11, <2>1 DEF Record
  <2>3. pc' \in [Threads -> Stages] /\ kind' \in [Threads -> Kinds]
    BY <1>11 DEF Record, Advance, Stages, Kinds
  <2>4. QED
    BY <1>11, <2>2, <2>3 DEF Record
<1>12. CASE Return(t)
  BY <1>12 DEF Return, Stages, Kinds, mgrVars, osVars
<1>13. QED
  BY <1>1, <1>2, <1>3, <1>4, <1>5, <1>6, <1>6a, <1>6b, <1>7, <1>8, <1>9, <1>10, <1>11, <1>12
  DEF Step

LEMMA TypeOther ==
  ASSUME TypeOK, Next, \A t \in Threads : ~Step(t)
  PROVE  TypeOK'
<1> USE Subsets DEF TypeOK, At, Goto
<1>1. ASSUME NEW c \in Calls, NEW o \in CallOps, Begin(c, o) PROVE TypeOK'
  BY <1>1, ThreadsAssumption DEF Begin, Stages, Kinds, Ops, mgrVars, osVars, history
<1>2. ASSUME NEW c \in Calls, ReloadOk(c) \/ ReloadFail(c) \/ CtxExpire(c) PROVE TypeOK'
  BY <1>2 DEF ReloadOk, ReloadFail, CtxExpire, Move, Stages, mgrVars, osVars,
              threadVars, history
<1>3. ASSUME NEW p \in Pids, Crash(p) \/ CtxKill(p) PROVE TypeOK'
  <2>1. proc' \in [Pids -> {"unused", "running", "exited"}]
    BY <1>3 DEF Crash, CtxKill
  <2>2. crashes' \in Nat /\ expired' = expired /\ lost' = lost
    BY <1>3 DEF Crash, CtxKill, history
  <2>3. QED
    BY <1>3, <2>1, <2>2 DEF Crash, CtxKill, mgrVars, threadVars
<1>4. ASSUME NEW p \in Pids, IgnoreExit(p) PROVE TypeOK'
  BY <1>4 DEF IgnoreExit, Consume, threadVars, history
<1>5. ASSUME NEW p \in Pids, UnexpectedExit(p) PROVE TypeOK'
  <2>1. Bumped(backoff[kindOf[p]]) \in Delays
    BY DEF Bumped, Delays
  <2>2. CASE stopping
    BY <1>5, <2>2 DEF UnexpectedExit, Forget, history
  <2>3. CASE ~stopping
    <3>1. backoff' \in [Kinds -> Delays]
      BY <1>5, <2>1, <2>3 DEF UnexpectedExit
    <3>2. QED
      BY ZenonT(30), <1>5, <2>3, <3>1 DEF UnexpectedExit, Forget, Stages, Ops, history
  <2>4. QED
    BY <2>2, <2>3
<1>6. ASSUME NEW p \in Pids, TimerFire(p) \/ StableRun(p) PROVE TypeOK'
  <2>1. CASE TimerFire(p)
    BY <2>1 DEF TimerFire, Move, Stages, mgrVars, osVars, history
  <2>2. CASE StableRun(p)
    <3>1. backoff' \in [Kinds -> Delays] /\ timers' \subseteq Pids
      BY <2>2 DEF StableRun, Delays
    <3>2. QED
      BY <2>2, <3>1 DEF StableRun, threadVars, history
  <2>3. QED
    BY <1>6, <2>1, <2>2
<1>7. CASE RootCancel
  BY <1>7 DEF RootCancel, Stages, Ops, mgrVars, osVars, history
<1>8. CASE UNCHANGED vars
  BY <1>8 DEF vars, mgrVars, osVars, threadVars, history
<1>9. QED
  BY Cases, <1>1, <1>2, <1>3, <1>4, <1>5, <1>6, <1>7, <1>8

LEMMA ChildrenStep ==
  ASSUME IInv, TypeOK', Next
  PROVE  Children'
<1> USE Subsets, ThreadsAssumption DEF Children, Incarnations, IInv, TypeOK, At, Goto, mgrVars, osVars, threadVars, history
<1>1. ASSUME NEW t \in Threads, Mark(t) PROVE Children'
  BY <1>1 DEF Mark, Forget
<1>2. ASSUME NEW t \in Threads, StopLock(t) PROVE Children'
  BY <1>2 DEF StopLock
<1>3. ASSUME NEW t \in Threads, Kill(t) PROVE Children'
  BY <1>3 DEF Kill
<1>4. ASSUME NEW t \in Threads, Killed(t) PROVE Children'
  BY <1>4 DEF Killed, Move
<1>5. ASSUME NEW t \in Threads, SetBinary(t) PROVE Children'
  BY <1>5 DEF SetBinary
<1>6. ASSUME NEW t \in Threads, StartLock(t) PROVE Children'
  BY <1>6 DEF StartLock
<1>6a. ASSUME NEW t \in Threads, Prepared(t) PROVE Children'
  BY <1>6a DEF Prepared, Move
<1>6b. ASSUME NEW t \in Threads, StartFails(t) PROVE Children'
  BY <1>6b DEF StartFails
<1>7. ASSUME NEW t \in Threads, Ensure(t) PROVE Children'
  BY <1>7 DEF Ensure, Advance, BothKinds
<1>8. ASSUME NEW t \in Threads, Check(t) PROVE Children'
  BY <1>8 DEF Check, Advance, BothKinds
<1>9. ASSUME NEW t \in Threads, ExecOk(t) PROVE Children'
  BY <1>9 DEF ExecOk
<1>10. ASSUME NEW t \in Threads, ExecFail(t) PROVE Children'
  BY <1>10 DEF ExecFail
<1>11. ASSUME NEW t \in Threads, Record(t) PROVE Children'
  BY <1>11 DEF Record, Advance, BothKinds
<1>12. ASSUME NEW t \in Threads, Return(t) PROVE Children'
  BY <1>12 DEF Return
<1>13. ASSUME NEW c \in Calls, NEW o \in CallOps, Begin(c, o) PROVE Children'
  BY <1>13 DEF Begin
<1>14. ASSUME NEW c \in Calls, ReloadOk(c) PROVE Children'
  BY <1>14 DEF ReloadOk, Move
<1>15. ASSUME NEW c \in Calls, ReloadFail(c) PROVE Children'
  BY <1>15 DEF ReloadFail, Move
<1>16. ASSUME NEW c \in Calls, CtxExpire(c) PROVE Children'
  BY <1>16 DEF CtxExpire
<1>17. ASSUME NEW p \in Pids, Crash(p) PROVE Children'
  BY <1>17 DEF Crash
<1>18. ASSUME NEW p \in Pids, CtxKill(p) PROVE Children'
  BY <1>18 DEF CtxKill
<1>19. ASSUME NEW p \in Pids, IgnoreExit(p) PROVE Children'
  BY <1>19 DEF IgnoreExit, Consume, Exited
<1>20. ASSUME NEW p \in Pids, UnexpectedExit(p) PROVE Children'
  BY <1>20 DEF UnexpectedExit, Forget, Exited
<1>21. ASSUME NEW p \in Pids, TimerFire(p) PROVE Children'
  BY <1>21 DEF TimerFire, Move
<1>22. ASSUME NEW p \in Pids, StableRun(p) PROVE Children'
  BY <1>22 DEF StableRun
<1>23. CASE RootCancel
  BY <1>23 DEF RootCancel
<1>24. CASE UNCHANGED vars
  BY <1>24 DEF vars
<1>25. QED
  BY Cases, <1>1, <1>2, <1>3, <1>4, <1>5, <1>6, <1>6a, <1>6b, <1>7, <1>8, <1>9, <1>10, <1>11, <1>12, <1>13, <1>14, <1>15, <1>16, <1>17, <1>18, <1>19, <1>20, <1>21, <1>22, <1>23, <1>24 DEF Step


LEMMA IncarnationsStep ==
  ASSUME IInv, TypeOK', Next
  PROVE  Incarnations'
<1> USE Subsets, ThreadsAssumption DEF Children, Incarnations, Exited, IInv, TypeOK, At, Goto, mgrVars, osVars, threadVars, history
<1>1. ASSUME NEW t \in Threads, Mark(t) PROVE Incarnations'
  BY <1>1 DEF Mark, Forget
<1>2. ASSUME NEW t \in Threads, StopLock(t) PROVE Incarnations'
  BY <1>2 DEF StopLock
<1>3. ASSUME NEW t \in Threads, Kill(t) PROVE Incarnations'
  BY <1>3 DEF Kill
<1>4. ASSUME NEW t \in Threads, Killed(t) PROVE Incarnations'
  BY <1>4 DEF Killed, Move
<1>5. ASSUME NEW t \in Threads, SetBinary(t) PROVE Incarnations'
  BY <1>5 DEF SetBinary
<1>6. ASSUME NEW t \in Threads, StartLock(t) PROVE Incarnations'
  BY <1>6 DEF StartLock
<1>6a. ASSUME NEW t \in Threads, Prepared(t) PROVE Incarnations'
  BY <1>6a DEF Prepared, Move
<1>6b. ASSUME NEW t \in Threads, StartFails(t) PROVE Incarnations'
  BY <1>6b DEF StartFails
<1>7. ASSUME NEW t \in Threads, Ensure(t) PROVE Incarnations'
  BY <1>7 DEF Ensure, Advance, BothKinds
<1>8. ASSUME NEW t \in Threads, Check(t) PROVE Incarnations'
  BY <1>8 DEF Check, Advance, BothKinds
<1>9. ASSUME NEW t \in Threads, ExecOk(t) PROVE Incarnations'
  BY <1>9 DEF ExecOk
<1>10. ASSUME NEW t \in Threads, ExecFail(t) PROVE Incarnations'
  BY <1>10 DEF ExecFail
<1>11. ASSUME NEW t \in Threads, Record(t) PROVE Incarnations'
  BY <1>11 DEF Record, Advance, BothKinds
<1>12. ASSUME NEW t \in Threads, Return(t) PROVE Incarnations'
  BY <1>12 DEF Return
<1>13. ASSUME NEW c \in Calls, NEW o \in CallOps, Begin(c, o) PROVE Incarnations'
  BY <1>13 DEF Begin
<1>14. ASSUME NEW c \in Calls, ReloadOk(c) PROVE Incarnations'
  BY <1>14 DEF ReloadOk, Move
<1>15. ASSUME NEW c \in Calls, ReloadFail(c) PROVE Incarnations'
  BY <1>15 DEF ReloadFail, Move
<1>16. ASSUME NEW c \in Calls, CtxExpire(c) PROVE Incarnations'
  BY <1>16 DEF CtxExpire
<1>17. ASSUME NEW p \in Pids, Crash(p) PROVE Incarnations'
  BY <1>17 DEF Crash
<1>18. ASSUME NEW p \in Pids, CtxKill(p) PROVE Incarnations'
  BY <1>18 DEF CtxKill
<1>19. ASSUME NEW p \in Pids, IgnoreExit(p) PROVE Incarnations'
  BY <1>19 DEF IgnoreExit, Consume
<1>20. ASSUME NEW p \in Pids, UnexpectedExit(p) PROVE Incarnations'
  BY <1>20 DEF UnexpectedExit, Forget
<1>21. ASSUME NEW p \in Pids, TimerFire(p) PROVE Incarnations'
  BY <1>21 DEF TimerFire, Move
<1>22. ASSUME NEW p \in Pids, StableRun(p) PROVE Incarnations'
  BY <1>22 DEF StableRun
<1>23. CASE RootCancel
  BY <1>23 DEF RootCancel
<1>24. CASE UNCHANGED vars
  BY <1>24 DEF vars
<1>25. QED
  BY Cases, <1>1, <1>2, <1>3, <1>4, <1>5, <1>6, <1>6a, <1>6b, <1>7, <1>8, <1>9, <1>10, <1>11, <1>12, <1>13, <1>14, <1>15, <1>16, <1>17, <1>18, <1>19, <1>20, <1>21, <1>22, <1>23, <1>24 DEF Step


LEMMA ShapeStep ==
  ASSUME IInv, TypeOK', Next
  PROVE  Shape'
<1> USE Subsets, ThreadsAssumption DEF Shape, Incarnations, Exited, IInv, TypeOK, At, Goto, mgrVars, osVars, threadVars, history
<1>1. ASSUME NEW t \in Threads, Mark(t) PROVE Shape'
  BY <1>1 DEF Mark, Forget
<1>2. ASSUME NEW t \in Threads, StopLock(t) PROVE Shape'
  BY <1>2 DEF StopLock
<1>3. ASSUME NEW t \in Threads, Kill(t) PROVE Shape'
  BY <1>3 DEF Kill
<1>4. ASSUME NEW t \in Threads, Killed(t) PROVE Shape'
  BY <1>4 DEF Killed, Move
<1>5. ASSUME NEW t \in Threads, SetBinary(t) PROVE Shape'
  BY <1>5 DEF SetBinary
<1>6. ASSUME NEW t \in Threads, StartLock(t) PROVE Shape'
  BY <1>6 DEF StartLock
<1>6a. ASSUME NEW t \in Threads, Prepared(t) PROVE Shape'
  BY <1>6a DEF Prepared, Move
<1>6b. ASSUME NEW t \in Threads, StartFails(t) PROVE Shape'
  BY <1>6b DEF StartFails
<1>7. ASSUME NEW t \in Threads, Ensure(t) PROVE Shape'
  BY <1>7 DEF Ensure, Advance, BothKinds
<1>8. ASSUME NEW t \in Threads, Check(t) PROVE Shape'
  BY <1>8 DEF Check, Advance, BothKinds
<1>9. ASSUME NEW t \in Threads, ExecOk(t) PROVE Shape'
  BY <1>9 DEF ExecOk
<1>10. ASSUME NEW t \in Threads, ExecFail(t) PROVE Shape'
  BY <1>10 DEF ExecFail
<1>11. ASSUME NEW t \in Threads, Record(t) PROVE Shape'
  BY <1>11 DEF Record, Advance, BothKinds
<1>12. ASSUME NEW t \in Threads, Return(t) PROVE Shape'
  BY <1>12 DEF Return
<1>13. ASSUME NEW c \in Calls, NEW o \in CallOps, Begin(c, o) PROVE Shape'
  BY <1>13 DEF Begin
<1>14. ASSUME NEW c \in Calls, ReloadOk(c) PROVE Shape'
  BY <1>14 DEF ReloadOk, Move
<1>15. ASSUME NEW c \in Calls, ReloadFail(c) PROVE Shape'
  BY <1>15 DEF ReloadFail, Move
<1>16. ASSUME NEW c \in Calls, CtxExpire(c) PROVE Shape'
  BY <1>16 DEF CtxExpire
<1>17. ASSUME NEW p \in Pids, Crash(p) PROVE Shape'
  BY <1>17 DEF Crash
<1>18. ASSUME NEW p \in Pids, CtxKill(p) PROVE Shape'
  BY <1>18 DEF CtxKill
<1>19. ASSUME NEW p \in Pids, IgnoreExit(p) PROVE Shape'
  BY <1>19 DEF IgnoreExit, Consume
<1>20. ASSUME NEW p \in Pids, UnexpectedExit(p) PROVE Shape'
  BY <1>20 DEF UnexpectedExit, Forget
<1>21. ASSUME NEW p \in Pids, TimerFire(p) PROVE Shape'
  BY <1>21 DEF TimerFire, Move
<1>22. ASSUME NEW p \in Pids, StableRun(p) PROVE Shape'
  BY <1>22 DEF StableRun
<1>23. CASE RootCancel
  BY <1>23 DEF RootCancel
<1>24. CASE UNCHANGED vars
  BY <1>24 DEF vars
<1>25. QED
  BY Cases, <1>1, <1>2, <1>3, <1>4, <1>5, <1>6, <1>6a, <1>6b, <1>7, <1>8, <1>9, <1>10, <1>11, <1>12, <1>13, <1>14, <1>15, <1>16, <1>17, <1>18, <1>19, <1>20, <1>21, <1>22, <1>23, <1>24 DEF Step


LEMMA TrackedStep ==
  ASSUME IInv, TypeOK', Next
  PROVE  TrackedWatched'
<1> USE Subsets, ThreadsAssumption DEF IInv, Children, Incarnations, TrackedWatched, Exited, IsCurrent, Tracked, TypeOK, At, Goto, mgrVars, osVars, threadVars, history
<1>1. ASSUME NEW t \in Threads, Mark(t) PROVE TrackedWatched'
  BY <1>1 DEF Mark, Forget
<1>2. ASSUME NEW t \in Threads, StopLock(t) PROVE TrackedWatched'
  BY <1>2 DEF StopLock
<1>3. ASSUME NEW t \in Threads, Kill(t) PROVE TrackedWatched'
  BY <1>3 DEF Kill
<1>4. ASSUME NEW t \in Threads, Killed(t) PROVE TrackedWatched'
  BY <1>4 DEF Killed, Move
<1>5. ASSUME NEW t \in Threads, SetBinary(t) PROVE TrackedWatched'
  BY <1>5 DEF SetBinary
<1>6. ASSUME NEW t \in Threads, StartLock(t) PROVE TrackedWatched'
  BY <1>6 DEF StartLock
<1>6a. ASSUME NEW t \in Threads, Prepared(t) PROVE TrackedWatched'
  BY <1>6a DEF Prepared, Move
<1>6b. ASSUME NEW t \in Threads, StartFails(t) PROVE TrackedWatched'
  BY <1>6b DEF StartFails
<1>7. ASSUME NEW t \in Threads, Ensure(t) PROVE TrackedWatched'
  BY <1>7 DEF Ensure, Advance, BothKinds
<1>8. ASSUME NEW t \in Threads, Check(t) PROVE TrackedWatched'
  BY <1>8 DEF Check, Advance, BothKinds
<1>9. ASSUME NEW t \in Threads, ExecOk(t) PROVE TrackedWatched'
  BY <1>9 DEF ExecOk
<1>10. ASSUME NEW t \in Threads, ExecFail(t) PROVE TrackedWatched'
  BY <1>10 DEF ExecFail
<1>11. ASSUME NEW t \in Threads, Record(t) PROVE TrackedWatched'
  <2>1. /\ child[t] \in Pids /\ watch[child[t]] = "none"
        /\ kindOf[child[t]] = kind[t] /\ child[t] \notin expectedExit
    BY <1>11 DEF Record, AnnouncedDoomed
  <2>2. \A k \in Kinds : cmd[k] # None => cmd[k] # child[t] /\ cmd[k] \in Pids
    BY <2>1
  <2>3. /\ cmd' = [cmd EXCEPT ![kind[t]] = child[t]]
        /\ watch' = [watch EXCEPT ![child[t]] = "waiting"]
        /\ UNCHANGED <<kindOf, expectedExit>>
    BY <1>11 DEF Record
  <2>4. QED
    BY <2>1, <2>2, <2>3
<1>12. ASSUME NEW t \in Threads, Return(t) PROVE TrackedWatched'
  BY <1>12 DEF Return
<1>13. ASSUME NEW c \in Calls, NEW o \in CallOps, Begin(c, o) PROVE TrackedWatched'
  BY <1>13 DEF Begin
<1>14. ASSUME NEW c \in Calls, ReloadOk(c) PROVE TrackedWatched'
  BY <1>14 DEF ReloadOk, Move
<1>15. ASSUME NEW c \in Calls, ReloadFail(c) PROVE TrackedWatched'
  BY <1>15 DEF ReloadFail, Move
<1>16. ASSUME NEW c \in Calls, CtxExpire(c) PROVE TrackedWatched'
  BY <1>16 DEF CtxExpire
<1>17. ASSUME NEW p \in Pids, Crash(p) PROVE TrackedWatched'
  BY <1>17 DEF Crash
<1>18. ASSUME NEW p \in Pids, CtxKill(p) PROVE TrackedWatched'
  BY <1>18 DEF CtxKill
<1>19. ASSUME NEW p \in Pids, IgnoreExit(p) PROVE TrackedWatched'
  BY <1>19 DEF IgnoreExit, Consume
<1>20. ASSUME NEW p \in Pids, UnexpectedExit(p) PROVE TrackedWatched'
  BY <1>20 DEF UnexpectedExit, Forget
<1>21. ASSUME NEW p \in Pids, TimerFire(p) PROVE TrackedWatched'
  BY <1>21 DEF TimerFire, Move
<1>22. ASSUME NEW p \in Pids, StableRun(p) PROVE TrackedWatched'
  BY <1>22 DEF StableRun
<1>23. CASE RootCancel
  BY <1>23 DEF RootCancel
<1>24. CASE UNCHANGED vars
  BY <1>24 DEF vars
<1>25. QED
  BY Cases, <1>1, <1>2, <1>3, <1>4, <1>5, <1>6, <1>6a, <1>6b, <1>7, <1>8, <1>9, <1>10, <1>11, <1>12, <1>13, <1>14, <1>15, <1>16, <1>17, <1>18, <1>19, <1>20, <1>21, <1>22, <1>23, <1>24 DEF Step


LEMMA AnnouncedStep ==
  ASSUME IInv, TypeOK', Next
  PROVE  AnnouncedDoomed'
<1> USE Subsets, ThreadsAssumption DEF IInv, Incarnations, Shape, Children, TrackedWatched, AnnouncedDoomed, Exited, IsCurrent, Tracked, TypeOK, At, Goto, mgrVars, osVars, threadVars, history
<1>1. ASSUME NEW t \in Threads, Mark(t) PROVE AnnouncedDoomed'
  BY <1>1 DEF Mark, Forget
<1>2. ASSUME NEW t \in Threads, StopLock(t) PROVE AnnouncedDoomed'
  BY <1>2 DEF StopLock
<1>3. ASSUME NEW t \in Threads, Kill(t) PROVE AnnouncedDoomed'
  BY <1>3 DEF Kill
<1>4. ASSUME NEW t \in Threads, Killed(t) PROVE AnnouncedDoomed'
  BY <1>4 DEF Killed, Move
<1>5. ASSUME NEW t \in Threads, SetBinary(t) PROVE AnnouncedDoomed'
  BY <1>5 DEF SetBinary
<1>6. ASSUME NEW t \in Threads, StartLock(t) PROVE AnnouncedDoomed'
  BY <1>6 DEF StartLock
<1>6a. ASSUME NEW t \in Threads, Prepared(t) PROVE AnnouncedDoomed'
  BY <1>6a DEF Prepared, Move
<1>6b. ASSUME NEW t \in Threads, StartFails(t) PROVE AnnouncedDoomed'
  BY <1>6b DEF StartFails
<1>7. ASSUME NEW t \in Threads, Ensure(t) PROVE AnnouncedDoomed'
  BY <1>7 DEF Ensure, Advance, BothKinds
<1>8. ASSUME NEW t \in Threads, Check(t) PROVE AnnouncedDoomed'
  BY <1>8 DEF Check, Advance, BothKinds
<1>9. ASSUME NEW t \in Threads, ExecOk(t) PROVE AnnouncedDoomed'
  BY <1>9 DEF ExecOk
<1>10. ASSUME NEW t \in Threads, ExecFail(t) PROVE AnnouncedDoomed'
  BY <1>10 DEF ExecFail
<1>11. ASSUME NEW t \in Threads, Record(t) PROVE AnnouncedDoomed'
  BY <1>11 DEF Record, Advance, BothKinds
<1>12. ASSUME NEW t \in Threads, Return(t) PROVE AnnouncedDoomed'
  BY <1>12 DEF Return
<1>13. ASSUME NEW c \in Calls, NEW o \in CallOps, Begin(c, o) PROVE AnnouncedDoomed'
  BY <1>13 DEF Begin
<1>14. ASSUME NEW c \in Calls, ReloadOk(c) PROVE AnnouncedDoomed'
  BY <1>14 DEF ReloadOk, Move
<1>15. ASSUME NEW c \in Calls, ReloadFail(c) PROVE AnnouncedDoomed'
  BY <1>15 DEF ReloadFail, Move
<1>16. ASSUME NEW c \in Calls, CtxExpire(c) PROVE AnnouncedDoomed'
  BY <1>16 DEF CtxExpire
<1>17. ASSUME NEW p \in Pids, Crash(p) PROVE AnnouncedDoomed'
  BY <1>17 DEF Crash
<1>18. ASSUME NEW p \in Pids, CtxKill(p) PROVE AnnouncedDoomed'
  BY <1>18 DEF CtxKill
<1>19. ASSUME NEW p \in Pids, IgnoreExit(p) PROVE AnnouncedDoomed'
  BY <1>19 DEF IgnoreExit, Consume
<1>20. ASSUME NEW p \in Pids, UnexpectedExit(p) PROVE AnnouncedDoomed'
  BY <1>20 DEF UnexpectedExit, Forget
<1>21. ASSUME NEW p \in Pids, TimerFire(p) PROVE AnnouncedDoomed'
  BY <1>21 DEF TimerFire, Move
<1>22. ASSUME NEW p \in Pids, StableRun(p) PROVE AnnouncedDoomed'
  BY <1>22 DEF StableRun
<1>23. CASE RootCancel
  BY <1>23 DEF RootCancel
<1>24. CASE UNCHANGED vars
  BY <1>24 DEF vars
<1>25. QED
  BY Cases, <1>1, <1>2, <1>3, <1>4, <1>5, <1>6, <1>6a, <1>6b, <1>7, <1>8, <1>9, <1>10, <1>11, <1>12, <1>13, <1>14, <1>15, <1>16, <1>17, <1>18, <1>19, <1>20, <1>21, <1>22, <1>23, <1>24 DEF Step


LEMMA NoSilentStep ==
  ASSUME IInv, TypeOK', Next
  PROVE  NoSilentDeath'
<1> USE Subsets, ThreadsAssumption DEF IInv, Incarnations, Shape, Children, NoSilentDeath, NoNeed, Abandoned, BothKinds, Exited, IsCurrent, TypeOK, At, Goto, mgrVars, osVars, threadVars, history
<1>1. ASSUME NEW t \in Threads, Mark(t) PROVE NoSilentDeath'
  BY <1>1 DEF Mark, Forget, Restores
<1>2. ASSUME NEW t \in Threads, StopLock(t) PROVE NoSilentDeath'
  BY <1>2 DEF StopLock, Restores
<1>3. ASSUME NEW t \in Threads, Kill(t) PROVE NoSilentDeath'
  BY <1>3 DEF Kill, Restores
<1>4. ASSUME NEW t \in Threads, Killed(t) PROVE NoSilentDeath'
  BY <1>4 DEF Killed, Move, Restores
<1>5. ASSUME NEW t \in Threads, SetBinary(t) PROVE NoSilentDeath'
  BY <1>5 DEF SetBinary, Restores
<1>6. ASSUME NEW t \in Threads, StartLock(t) PROVE NoSilentDeath'
  BY <1>6 DEF StartLock, Restores
<1>6a. ASSUME NEW t \in Threads, Prepared(t) PROVE NoSilentDeath'
  BY <1>6a DEF Prepared, Move, Restores
<1>6b. ASSUME NEW t \in Threads, StartFails(t) PROVE NoSilentDeath'
  BY <1>6b DEF StartFails, Restores
<1>7. ASSUME NEW t \in Threads, Ensure(t) PROVE NoSilentDeath'
  <2>1. /\ UNCHANGED <<binary, stopping, cmd, lost, op>>
        /\ \A u \in Threads \ {t} : pc'[u] = pc[u] /\ kind'[u] = kind[u]
    BY <1>7 DEF Ensure, Advance, BothKinds, Restores
  <2>2. \A k \in Kinds : Restores(t, k) => Restores(t, k)' \/ cmd[k] # None \/ stopping
    BY <1>7 DEF Ensure, Advance, BothKinds, Kinds, Restores
  <2>3. \A k \in Kinds, u \in Threads \ {t} : Restores(u, k) => Restores(u, k)'
    BY <2>1 DEF Restores
  <2>4. QED
    BY <2>1, <2>2, <2>3
<1>8. ASSUME NEW t \in Threads, Check(t) PROVE NoSilentDeath'
  <2>1. /\ UNCHANGED <<binary, stopping, cmd, lost, op>>
        /\ \A u \in Threads \ {t} : pc'[u] = pc[u] /\ kind'[u] = kind[u]
    BY <1>8 DEF Check, Advance, BothKinds, Restores
  <2>2. \A k \in Kinds : Restores(t, k) => Restores(t, k)' \/ cmd[k] # None \/ stopping
    BY <1>8 DEF Check, Advance, BothKinds, Kinds, Restores
  <2>3. \A k \in Kinds, u \in Threads \ {t} : Restores(u, k) => Restores(u, k)'
    BY <2>1 DEF Restores
  <2>4. QED
    BY <2>1, <2>2, <2>3
<1>9. ASSUME NEW t \in Threads, ExecOk(t) PROVE NoSilentDeath'
  BY <1>9 DEF ExecOk, Restores
<1>10. ASSUME NEW t \in Threads, ExecFail(t) PROVE NoSilentDeath'
  BY <1>10 DEF ExecFail, Restores
<1>11. ASSUME NEW t \in Threads, Record(t) PROVE NoSilentDeath'
  <2>1. /\ UNCHANGED <<binary, stopping, op>>
        /\ \A u \in Threads \ {t} : pc'[u] = pc[u] /\ kind'[u] = kind[u]
        /\ cmd' = [cmd EXCEPT ![kind[t]] = child[t]] /\ child[t] # None
        /\ lost' = lost \ {kind[t]}
    BY <1>11 DEF Record, Advance, BothKinds, Restores
  <2>2. \A k \in Kinds : Restores(t, k) => Restores(t, k)' \/ k = kind[t]
    BY <1>11 DEF Record, Advance, BothKinds, Kinds, Restores
  <2>3. \A k \in Kinds, u \in Threads \ {t} : Restores(u, k) => Restores(u, k)'
    BY <2>1 DEF Restores
  <2>4. QED
    BY <2>1, <2>2, <2>3
<1>12. ASSUME NEW t \in Threads, Return(t) PROVE NoSilentDeath'
  BY <1>12 DEF Return, Restores
<1>13. ASSUME NEW c \in Calls, NEW o \in CallOps, Begin(c, o) PROVE NoSilentDeath'
  BY <1>13 DEF Begin, Restores
<1>14. ASSUME NEW c \in Calls, ReloadOk(c) PROVE NoSilentDeath'
  <2>1. /\ UNCHANGED <<binary, stopping, cmd, lost, op, kind>>
        /\ pc[c] = "reload" /\ \A u \in Threads \ {c} : pc'[u] = pc[u]
    BY <1>14 DEF ReloadOk, Move
  <2>2. \A k \in Kinds, u \in Threads : Restores(u, k) => Restores(u, k)'
    BY <2>1 DEF Restores
  <2>3. QED
    BY <2>1, <2>2
<1>15. ASSUME NEW c \in Calls, ReloadFail(c) PROVE NoSilentDeath'
  BY <1>15 DEF ReloadFail, Move, Restores
<1>16. ASSUME NEW c \in Calls, CtxExpire(c) PROVE NoSilentDeath'
  BY <1>16 DEF CtxExpire, Restores
<1>17. ASSUME NEW p \in Pids, Crash(p) PROVE NoSilentDeath'
  BY <1>17 DEF Crash, Restores
<1>18. ASSUME NEW p \in Pids, CtxKill(p) PROVE NoSilentDeath'
  BY <1>18 DEF CtxKill, Restores
<1>19. ASSUME NEW p \in Pids, IgnoreExit(p) PROVE NoSilentDeath'
  BY <1>19 DEF IgnoreExit, Consume, Restores
<1>20. ASSUME NEW p \in Pids, UnexpectedExit(p) PROVE NoSilentDeath'
  <2>1. CASE stopping
    BY <1>20, <2>1 DEF UnexpectedExit, Forget
  <2>2. CASE ~stopping
    <3>1. /\ UNCHANGED <<binary, stopping, lost, kindOf>> /\ p \in Threads
          /\ cmd' = [cmd EXCEPT ![kindOf[p]] = None]
          /\ pc[p] = "idle" /\ pc' = [pc EXCEPT ![p] = "sleep"]
          /\ op' = [op EXCEPT ![p] = "timer"]
          /\ kind' = [kind EXCEPT ![p] = kindOf[p]]
      BY <1>20, <2>2 DEF UnexpectedExit, Forget
    <3>2. Restores(p, kindOf[p])'
      BY <3>1 DEF Restores
    <3>3. \A k \in Kinds, u \in Threads : Restores(u, k) => Restores(u, k)'
      BY <3>1 DEF Restores
    <3>4. QED
      BY <3>1, <3>2, <3>3
  <2>3. QED
    BY <2>1, <2>2
<1>21. ASSUME NEW p \in Pids, TimerFire(p) PROVE NoSilentDeath'
  BY <1>21 DEF TimerFire, Move, Restores
<1>22. ASSUME NEW p \in Pids, StableRun(p) PROVE NoSilentDeath'
  BY <1>22 DEF StableRun, Restores
<1>23. CASE RootCancel
  BY <1>23 DEF RootCancel, Restores
<1>24. CASE UNCHANGED vars
  BY <1>24 DEF vars, Restores
<1>25. QED
  BY Cases, <1>1, <1>2, <1>3, <1>4, <1>5, <1>6, <1>6a, <1>6b, <1>7, <1>8, <1>9, <1>10, <1>11, <1>12, <1>13, <1>14, <1>15, <1>16, <1>17, <1>18, <1>19, <1>20, <1>21, <1>22, <1>23, <1>24 DEF Step


-----------------------------------------------------------------------------
(* The theorems.                                                           *)

LEMMA IInvInit == Init => IInv
<1> SUFFICES ASSUME Init PROVE IInv
  OBVIOUS
<1> USE Subsets, ThreadsAssumption DEF Init
<1>1. TypeOK
  BY TypeInit
<1>2. Children /\ Incarnations /\ Shape
  BY DEF Children, Incarnations, Shape, Threads
<1>3. TrackedWatched /\ AnnouncedDoomed
  BY DEF TrackedWatched, AnnouncedDoomed
<1>4. NoSilentDeath
  BY DEF NoSilentDeath, Restores, Kinds
<1>5. QED
  BY <1>1, <1>2, <1>3, <1>4 DEF IInv

\* IInv is inductive.
LEMMA IInvStep == IInv /\ [Next]_vars => IInv'
<1>1. ASSUME IInv, Next PROVE IInv'
  <2>1. TypeOK'
    BY <1>1, TypeStep, TypeOther DEF IInv
  <2>2. QED
    BY <1>1, <2>1, ChildrenStep, IncarnationsStep, ShapeStep, TrackedStep,
       AnnouncedStep, NoSilentStep DEF IInv
<1>2. ASSUME IInv, UNCHANGED vars PROVE IInv'
  BY <1>2 DEF vars, mgrVars, osVars, threadVars, history, IInv, TypeOK, Children,
     Incarnations, Shape, TrackedWatched, AnnouncedDoomed, NoSilentDeath, Restores
<1>3. QED
  BY <1>1, <1>2

LEMMA Inductive == Spec => []IInv
  BY IInvInit, IInvStep, PTL DEF Spec

\* Type correctness, with the range of the back-off delays.
THEOREM Typed == Spec => []TypeOK
<1>1. IInv => TypeOK
  BY DEF IInv
<1>2. QED
  BY <1>1, Inductive, PTL

\* The exit of a tracked process is never taken for an announced one and never
\* goes unnoticed.
THEOREM Watched == Spec => []TrackedWatched
<1>1. IInv => TrackedWatched
  BY DEF IInv
<1>2. QED
  BY <1>1, Inductive, PTL

\* Every entry of expectedExit stands for a process that is dying and whose exit
\* is still to be handled.
THEOREM Announced == Spec => []AnnouncedDoomed
<1>1. IInv => AnnouncedDoomed
  BY DEF IInv
<1>2. QED
  BY <1>1, Inductive, PTL

\* Outside a stop, a kind without a process is being restored or had a start
\* that failed.
THEOREM Recovering == Spec => []NoSilentDeath
<1>1. IInv => NoSilentDeath
  BY DEF IInv
<1>2. QED
  BY <1>1, Inductive, PTL

\* The delay of a kind shrinks only in a deliberate restart of the kind or when
\* the timer of its tracked process fires: no timer of a replaced process ever
\* resets the delay of its successor's crash loop.
THEOREM Backoff == Spec => BackoffHeld
<1> DEFINE Held == \A k \in Kinds : backoff'[k] < backoff[k] =>
                     \/ cmd[k] \in timers \ timers'
                     \/ \E t \in Threads : kind[t] = k /\ pc[t] = "mark" /\ pc'[t] = "kill"
<1>1. IInv /\ [Next]_vars => [Held]_vars
  <2> SUFFICES ASSUME IInv, Next PROVE Held
    OBVIOUS
  <2>1. CASE UNCHANGED backoff
    BY <2>1 DEF IInv, TypeOK, Delays
  <2>2. ASSUME NEW t \in Threads, Mark(t) PROVE Held
    BY <2>2 DEF Mark, At, Goto, IInv, TypeOK, Delays
  <2>3. ASSUME NEW p \in Pids, UnexpectedExit(p) PROVE Held
    <3>1. CASE stopping
      BY <2>1, <2>3, <3>1 DEF UnexpectedExit
    <3>2. CASE ~stopping
      <4>1. backoff' = [backoff EXCEPT ![kindOf[p]] = Bumped(@)]
        BY <2>3, <3>2 DEF UnexpectedExit
      <4>2. \A k \in Kinds : backoff[k] \in Delays /\ ~(Bumped(backoff[k]) < backoff[k])
        BY DEF IInv, TypeOK, Delays, Bumped
      <4>3. \A k \in Kinds : ~(backoff'[k] < backoff[k])
        BY <4>1, <4>2 DEF IInv, TypeOK, Delays
      <4>4. QED
        BY <4>3
    <3>3. QED
      BY <3>1, <3>2
  <2>4. ASSUME NEW p \in Pids, StableRun(p) PROVE Held
    <3>1. CASE ~Outlasted(p)
      <4>1. UNCHANGED backoff
        BY <2>4, <3>1 DEF StableRun, IInv, TypeOK
      <4>2. QED
        BY <2>1, <4>1
    <3>2. CASE Outlasted(p)
      <4>1. /\ backoff' = [backoff EXCEPT ![kindOf[p]] = 0]
            /\ cmd[kindOf[p]] = p /\ p \in timers \ timers'
        BY <2>4, <3>2 DEF StableRun, Outlasted
      <4>2. QED
        BY <4>1 DEF IInv, TypeOK, Delays
    <3>3. QED
      BY <3>1, <3>2
  <2>5. ASSUME NEW t \in Threads, Step(t), ~Mark(t) PROVE UNCHANGED backoff
    BY <2>5 DEF Step, StopLock, Kill, Killed, Move, SetBinary, StartLock,
       Prepared, StartFails, Ensure, Check, ExecOk, ExecFail, Record, Return, mgrVars
  <2>6. ASSUME NEW c \in Calls, NEW o \in CallOps, Begin(c, o) PROVE UNCHANGED backoff
    BY <2>6 DEF Begin, mgrVars
  <2>7. ASSUME NEW c \in Calls, ReloadOk(c) \/ ReloadFail(c) \/ CtxExpire(c)
        PROVE  UNCHANGED backoff
    BY <2>7 DEF ReloadOk, ReloadFail, CtxExpire, Move, mgrVars
  <2>8. ASSUME NEW p \in Pids, Crash(p) \/ CtxKill(p) \/ IgnoreExit(p) \/ TimerFire(p)
        PROVE  UNCHANGED backoff
    BY <2>8 DEF Crash, CtxKill, IgnoreExit, TimerFire, Move, mgrVars
  <2>9. ASSUME RootCancel \/ UNCHANGED vars PROVE UNCHANGED backoff
    BY <2>9 DEF RootCancel, vars, mgrVars
  <2>10. QED
    BY Cases, <2>1, <2>2, <2>3, <2>4, <2>5, <2>6, <2>7, <2>8, <2>9
<1>2. QED
  BY <1>1, Inductive, PTL DEF Spec, BackoffHeld

=============================================================================
