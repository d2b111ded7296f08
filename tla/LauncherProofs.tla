--------------------------- MODULE LauncherProofs ---------------------------
(***************************************************************************)
(* Proofs about Launcher for any set of Syncs, any interval, timeout and   *)
(* grace period.                                                           *)
(***************************************************************************)
EXTENDS Launcher, TLAPS

USE LauncherAssumption

-----------------------------------------------------------------------------
(* Type correctness.                                                       *)

(***************************************************************************)
(* TypeOK is not inductive: that a deadline is a number rests on a child   *)
(* having a start time, and that an action belongs to the pass in progress *)
(* rests on cur being set only during update().                            *)
(***************************************************************************)
Shape ==
  /\ TypeOK
  /\ \A s \in Syncs : child[s] # "none" => startTime[s] # None
  /\ cur # None => pc = "update"

LEMMA NextActionType ==
  ASSUME Shape, NEW s \in Syncs, NEW t \in Int
  PROVE  /\ NextAction(s, t).act \in {"nothing", "start", "sigterm", "sigkill"}
         /\ NextAction(s, t).act # "nothing" => NextAction(s, t).at \in Int
  BY DEF Shape, TypeOK, NextAction, ChildlessAction, ChildAction, Nothing,
         Start, Terminate, Kill, Time

LEMMA SelectType ==
  ASSUME Shape, Select
  PROVE  wakeAt' \in Time
<1>1. now \in Int
  BY DEF Shape, TypeOK
<1>2. ActionTimes(now) \subseteq Int
  BY <1>1, NextActionType DEF ActionTimes, Finished
<1>3. PICK t \in ActionTimes(now) \cup {None} : wakeAt' = t
  BY DEF Select
<1>4. QED BY <1>2, <1>3 DEF Time

LEMMA ShapeInit == Init => Shape
  BY DEF Init, Shape, TypeOK, Time, Byte, Over

LEMMA ShapeStep == Shape /\ [Next]_vars => Shape'
<1> SUFFICES ASSUME Shape, [Next]_vars PROVE Shape'
  OBVIOUS
<1> USE DEF Shape, TypeOK, Time, Byte, Over, syncVars, loopVars, envVars
<1>1. CASE Select
  BY <1>1, SelectType DEF Select
<1>2. CASE WakeOnByte
  BY <1>2 DEF WakeOnByte, BeginPass
<1>3. CASE WakeOnTimeout
  BY <1>3 DEF WakeOnTimeout, BeginPass
<1>4. CASE EndPass
  BY <1>4 DEF EndPass
<1>5. ASSUME NEW s \in Syncs, UpdateStep(s) PROVE Shape'
  <2>1. CASE Poll(s)
    BY <2>1 DEF Poll, ChildExited, NoteTermination
  <2>2. CASE StartChild(s)
    BY <2>2 DEF StartChild, ForgetSigterm, Updated
  <2>3. CASE StartFails(s)
    BY <2>3 DEF StartFails, Updated
  <2>4. CASE SendSigterm(s)
    BY <2>4 DEF SendSigterm, Updated
  <2>5. CASE SendSigkill(s)
    <3>1. child[s] # "none"
      BY <2>5 DEF SendSigkill, Due, NextAction, ChildlessAction, Nothing, Start
    <3>2. QED BY <2>5, <3>1 DEF SendSigkill, Updated
  <2>6. CASE NothingDue(s)
    BY <2>6 DEF NothingDue, Updated
  <2>7. QED BY <1>5, <2>1, <2>2, <2>3, <2>4, <2>5, <2>6 DEF UpdateStep
<1>6. ASSUME NEW s \in Syncs, NEW ok \in BOOLEAN, ChildExits(s, ok) PROVE Shape'
  BY <1>6 DEF ChildExits
<1>7. CASE TerminationSignal
  BY <1>7 DEF TerminationSignal
<1>8. CASE Tick
  BY <1>8 DEF Tick
<1>9. CASE CrashStep
  BY <1>9 DEF CrashStep, SelectFails, Killed
<1>10. CASE UNCHANGED vars
  BY <1>10 DEF vars
<1>11. QED
  BY <1>1, <1>2, <1>3, <1>4, <1>5, <1>6, <1>7, <1>8, <1>9, <1>10
  DEF Next, LoopStep, ChildStep

LEMMA ShapeInvariant == Spec => []Shape
  BY ShapeInit, ShapeStep, PTL DEF Spec

(***************************************************************************)
(* The state of the run loop and every field of a Sync keep the types      *)
(* launcher.py gives them; in particular no deadline is ever computed from *)
(* a None start time, which Python would answer with a TypeError.          *)
(***************************************************************************)
THEOREM TypeCorrect == Spec => []TypeOK
<1>1. Shape => TypeOK
  BY DEF Shape
<1>2. QED BY <1>1, ShapeInvariant, PTL

-----------------------------------------------------------------------------
(* What a due action says about its Sync.                                  *)

LEMMA DueStart ==
  ASSUME NEW s \in Syncs, NEW t, Due(s, t, "start")
  PROVE  child[s] = "none" /\ ~terminating[s]
  BY DEF Due, NextAction, ChildlessAction, ChildAction, Nothing, Start,
         Terminate, Kill

LEMMA DueSigterm ==
  ASSUME NEW s \in Syncs, NEW t, Due(s, t, "sigterm")
  PROVE  /\ child[s] # "none" /\ sentSigterm[s] = None
         /\ terminating[s] \/ t >= startTime[s] + Timeout
  BY DEF Due, NextAction, ChildlessAction, ChildAction, Nothing, Start,
         Terminate, Kill

LEMMA DueSigkill ==
  ASSUME NEW s \in Syncs, NEW t, Due(s, t, "sigkill")
  PROVE  /\ child[s] # "none"
         /\ sentSigterm[s] # None
         /\ t >= sentSigterm[s] + GracePeriod
  BY DEF Due, NextAction, ChildlessAction, ChildAction, Nothing, Start,
         Terminate, Kill

LEMMA FinishedMeans ==
  ASSUME NEW s \in Syncs, NEW t, Finished(s, t)
  PROVE  /\ child[s] = "none"
         /\ terminating[s] \/ (Once /\ succeeded[s])
  BY DEF Finished, NextAction, ChildlessAction, ChildAction, Nothing, Start,
         Terminate, Kill

-----------------------------------------------------------------------------
(* A clean exit.                                                           *)

LEMMA CleanExitStep == Shape /\ CleanExit /\ [Next]_vars => CleanExit'
<1> SUFFICES ASSUME Shape, CleanExit, [Next]_vars PROVE CleanExit'
  OBVIOUS
<1> USE DEF CleanExit, syncVars, loopVars, envVars
<1>1. CASE Select
  BY <1>1 DEF Select
<1>2. CASE WakeOnByte
  BY <1>2 DEF WakeOnByte, BeginPass
<1>3. CASE WakeOnTimeout
  BY <1>3 DEF WakeOnTimeout, BeginPass
<1>4. CASE EndPass
  <2>1. pc' = "exited" => \A s \in Syncs : Finished(s, tnow)
    BY <1>4 DEF EndPass
  <2>2. QED BY <1>4, <2>1, FinishedMeans DEF EndPass
<1>5. ASSUME NEW s \in Syncs, UpdateStep(s) PROVE CleanExit'
  <2>1. pc = "update" /\ pc' \in {"update", "crashed"}
    BY <1>5 DEF UpdateStep, Shape, TypeOK, Poll, ChildExited, StartChild, StartFails,
                SendSigterm, SendSigkill, NothingDue
  <2>2. QED BY <2>1
<1>6. ASSUME NEW s \in Syncs, NEW ok \in BOOLEAN, ChildExits(s, ok)
      PROVE  CleanExit'
  BY <1>6 DEF ChildExits
<1>7. CASE TerminationSignal
  BY <1>7 DEF TerminationSignal
<1>8. CASE Tick
  BY <1>8 DEF Tick
<1>9. CASE CrashStep
  BY <1>9 DEF CrashStep, SelectFails, Killed
<1>10. CASE UNCHANGED vars
  BY <1>10 DEF vars
<1>11. QED
  BY <1>1, <1>2, <1>3, <1>4, <1>5, <1>6, <1>7, <1>8, <1>9, <1>10
  DEF Next, LoopStep, ChildStep

(***************************************************************************)
(* When run()'s loop ends, no Sync has a sync-client left and each was told*)
(* to terminate or, with --once, has succeeded.                            *)
(***************************************************************************)
THEOREM ExitIsClean == Spec => []CleanExit
<1>1. Init => CleanExit
  BY DEF Init, CleanExit
<1>2. QED BY <1>1, CleanExitStep, ShapeInvariant, PTL DEF Spec

-----------------------------------------------------------------------------
(* Signals to the children.                                                *)

(***************************************************************************)
(* What the daemon notes of a start or a SIGTERM is the time its pass      *)
(* began: not later than the moment itself, and Lag earlier at most.       *)
(***************************************************************************)
Notes(noted, real) ==
  IF noted = None THEN real = None
  ELSE real # None /\ noted <= real /\ real <= noted + Lag

(***************************************************************************)
(* The Sync's record of its child is true of that very process, not of a   *)
(* predecessor, and a pass has the time it started at.                     *)
(***************************************************************************)
RecordsAreTrue ==
  /\ \A s \in Syncs : Notes(startTime[s], proc[s].since) /\ Notes(sentSigterm[s], proc[s].termed)
  /\ tnow <= now
  /\ pc = "update" => now <= tnow + Lag

SignalInv == RecordsAreTrue /\ SigtermIsEarned

LEMMA SignalStep == Shape /\ SignalInv /\ [Next]_vars => SignalInv'
<1> SUFFICES ASSUME Shape, SignalInv, [Next]_vars PROVE SignalInv'
  OBVIOUS
<1> USE DEF SignalInv, RecordsAreTrue, SigtermIsEarned,
            syncVars, loopVars, envVars, Shape, TypeOK, Updated
<1>1. CASE Select \/ WakeOnByte \/ WakeOnTimeout \/ EndPass \/ CrashStep
  BY <1>1 DEF Select, WakeOnByte, WakeOnTimeout, BeginPass, EndPass, CrashStep, SelectFails,
              Killed, Over
<1>2. ASSUME NEW s \in Syncs, UpdateStep(s) PROVE SignalInv'
  <2>1. CASE Poll(s)
    BY <2>1 DEF Poll, ChildExited, NoteTermination
  <2>2. CASE StartChild(s)
    BY <2>2 DEF StartChild, ForgetSigterm, Notes
  <2>3. CASE StartFails(s)
    BY <2>3 DEF StartFails
  <2>4. CASE SendSigterm(s)
    <3>1. /\ terminating[s] \/ tnow >= startTime[s] + Timeout
          /\ startTime[s] \in Int /\ tnow <= now /\ now <= tnow + Lag
          /\ proc[s].since \in Int /\ proc[s].since <= startTime[s] + Lag
      BY <2>4, DueSigterm DEF SendSigterm, Notes, Time
    <3>2. terminating[s] \/ now >= proc[s].since + Timeout - Lag
      BY <3>1
    <3>3. Notes(tnow, now)
      BY <3>1 DEF Notes
    <3>4. QED BY <2>4, <3>2, <3>3 DEF SendSigterm
  <2>5. CASE SendSigkill(s)
    BY <2>5 DEF SendSigkill
  <2>6. CASE NothingDue(s)
    BY <2>6 DEF NothingDue
  <2>7. QED BY <1>2, <2>1, <2>2, <2>3, <2>4, <2>5, <2>6 DEF UpdateStep
<1>3. ASSUME NEW s \in Syncs, NEW ok \in BOOLEAN, ChildExits(s, ok)
      PROVE  SignalInv'
  BY <1>3 DEF ChildExits
<1>4. CASE TerminationSignal \/ Tick
  BY <1>4 DEF TerminationSignal, Tick
<1>5. CASE UNCHANGED vars
  BY <1>5 DEF vars
<1>6. QED BY <1>1, <1>2, <1>3, <1>4, <1>5 DEF Next, LoopStep, ChildStep

LEMMA SignalInvariant == Spec => []SignalInv
<1>1. Init => SignalInv
  BY DEF Init, SignalInv, RecordsAreTrue, Notes, SigtermIsEarned
<1>2. QED BY <1>1, SignalStep, ShapeInvariant, PTL DEF Spec

(***************************************************************************)
(* A running sync-client was sent SIGTERM only when the daemon is stopping *)
(* or after that very process had Timeout seconds.                         *)
(***************************************************************************)
THEOREM SigtermEarned == Spec => []SigtermIsEarned
<1>1. SignalInv => SigtermIsEarned
  BY DEF SignalInv
<1>2. QED BY <1>1, SignalInvariant, PTL

LEMMA SigkillStepIsLate ==
  Shape /\ SignalInv /\ [Next]_vars =>
    \A s \in Syncs : SigkillStep(s) =>
      proc[s].termed # None /\ now >= proc[s].termed + GracePeriod - Lag
<1> SUFFICES ASSUME Shape, SignalInv, [Next]_vars,
                    NEW s \in Syncs, SigkillStep(s)
             PROVE  proc[s].termed # None /\ now >= proc[s].termed + GracePeriod - Lag
  OBVIOUS
<1> USE DEF SigkillStep, Shape, TypeOK, syncVars, loopVars, envVars
<1>1. SendSigkill(s)
  <2>1. ~(Select \/ WakeOnByte \/ WakeOnTimeout \/ EndPass)
    BY DEF Select, WakeOnByte, WakeOnTimeout, BeginPass, EndPass
  <2>2. ~(CrashStep \/ ChildStep \/ TerminationSignal \/ Tick \/ UNCHANGED vars)
    BY DEF CrashStep, SelectFails, Killed, ChildStep, ChildExits, TerminationSignal, Tick, vars
  <2>3. PICK x \in Syncs : UpdateStep(x)
    BY <2>1, <2>2 DEF Next, LoopStep
  <2>4. SendSigkill(x)
    BY <2>3 DEF UpdateStep, Poll, ChildExited, StartChild, StartFails, SendSigterm, NothingDue
  <2>5. x = s
    BY <2>4 DEF SendSigkill
  <2>6. QED BY <2>4, <2>5
<1>2. /\ sentSigterm[s] # None /\ tnow >= sentSigterm[s] + GracePeriod /\ tnow <= now
      /\ proc[s].termed # None /\ proc[s].termed <= sentSigterm[s] + Lag
  BY <1>1, DueSigkill DEF SendSigkill, SignalInv, RecordsAreTrue, Notes
<1>3. QED BY <1>2 DEF Time

(***************************************************************************)
(* The process that SIGKILL ends had a SIGTERM GracePeriod earlier.        *)
(***************************************************************************)
THEOREM SigkillLate == Spec => SigkillIsLastResort
  BY SigkillStepIsLate, ShapeInvariant, SignalInvariant, PTL
  DEF Spec, SigkillIsLastResort

-----------------------------------------------------------------------------
(* The refinement of ChildLife by each Sync.                               *)

LEMMA LifeUpdate ==
  ASSUME Shape, SignalInv, NEW s \in Syncs, UpdateStep(s)
  PROVE  [Life(s)!Next]_(Life(s)!vars)
<1> USE DEF Life!Next, Life!vars, Life!process, Life!Start, Life!Ask, Life!End,
            Life!Kill, Life!Poll, syncVars, envVars, SignalInv, RecordsAreTrue,
            Shape, TypeOK, Time
<1>1. CASE Poll(s)
  <2>1. Life(s)!Poll
    BY <1>1 DEF Poll, ChildExited, NoteTermination
  <2>2. QED BY <2>1
<1>2. CASE StartChild(s)
  <2>1. /\ child[s] = "none" /\ ~terminating[s]
        /\ startTime[s] # None => tnow >= startTime[s] + Interval /\ ~(Once /\ succeeded[s])
    BY <1>2 DEF StartChild, Due, NextAction, ChildlessAction, ChildAction, Nothing, Start,
                Terminate, Kill
  <2>2. proc[s].since # None =>
          now >= proc[s].since + (Interval - Lag) /\ ~(Once /\ succeeded[s])
    BY <2>1 DEF Notes
  <2>3. Life(s)!Start
    BY <1>2, <2>1, <2>2 DEF StartChild, ForgetSigterm, Updated
  <2>4. QED BY <2>3
<1>3. CASE StartFails(s) \/ NothingDue(s)
  BY <1>3 DEF StartFails, NothingDue, Updated
<1>4. CASE SendSigterm(s)
  <2>1. /\ child[s] # "none" /\ sentSigterm[s] = None
        /\ terminating[s] \/ tnow >= startTime[s] + Timeout
    BY <1>4 DEF SendSigterm, Due, NextAction, ChildlessAction, ChildAction, Nothing, Start,
                Terminate, Kill
  <2>2. proc[s].termed = None /\ (terminating[s] \/ now >= proc[s].since + (Timeout - Lag))
    BY <2>1 DEF Notes
  <2>3. Life(s)!Ask
    BY <1>4, <2>1, <2>2 DEF SendSigterm, Updated
  <2>4. QED BY <2>3
<1>5. CASE SendSigkill(s)
  <2>1. /\ child[s] # "none" /\ sentSigterm[s] # None
        /\ tnow >= sentSigterm[s] + GracePeriod
        /\ proc[s].termed # None /\ now >= proc[s].termed + (GracePeriod - Lag)
    BY <1>5, DueSigkill DEF SendSigkill, Notes
  <2>2. CASE child[s] = "running"
    <3>1. Life(s)!Kill
      BY <1>5, <2>1, <2>2 DEF SendSigkill, Updated
    <3>2. QED BY <3>1
  <2>3. CASE child[s] # "running"
    BY <1>5, <2>1, <2>3 DEF SendSigkill, Updated
  <2>4. QED BY <2>2, <2>3
<1>6. QED BY <1>1, <1>2, <1>3, <1>4, <1>5 DEF UpdateStep

LEMMA LifeStep ==
  ASSUME NEW s \in Syncs
  PROVE  Shape /\ SignalInv /\ [Next]_vars => [Life(s)!Next]_(Life(s)!vars)
<1> SUFFICES ASSUME Shape, SignalInv, [Next]_vars
             PROVE  [Life(s)!Next]_(Life(s)!vars)
  OBVIOUS
<1> USE DEF Life!Next, Life!vars, Life!process, Life!TimePasses, Life!End, syncVars, loopVars,
            envVars, Shape, TypeOK
<1>1. CASE Tick
  <2>1. Life(s)!TimePasses
    BY <1>1 DEF Tick
  <2>2. QED BY <2>1
<1>2. CASE Select \/ WakeOnByte \/ WakeOnTimeout \/ EndPass \/ CrashStep \/ TerminationSignal
           \/ UNCHANGED vars
  BY <1>2 DEF Select, WakeOnByte, WakeOnTimeout, BeginPass, EndPass, CrashStep, SelectFails,
              Killed, TerminationSignal, vars
<1>3. ASSUME NEW x \in Syncs, UpdateStep(x) PROVE [Life(s)!Next]_(Life(s)!vars)
  <2>1. CASE x = s
    BY <1>3, <2>1, LifeUpdate
  <2>2. CASE x # s
    BY <1>3, <2>2
    DEF UpdateStep, Poll, ChildExited, NoteTermination, StartChild, ForgetSigterm,
        StartFails, SendSigterm, SendSigkill, NothingDue, Updated
  <2>3. QED BY <2>1, <2>2
<1>4. ASSUME NEW x \in Syncs, NEW good \in BOOLEAN, ChildExits(x, good)
      PROVE  [Life(s)!Next]_(Life(s)!vars)
  <2>1. CASE x = s
    <3>1. Life(s)!End(good)
      BY <1>4, <2>1 DEF ChildExits
    <3>2. QED BY <3>1
  <2>2. CASE x # s
    BY <1>4, <2>2 DEF ChildExits
  <2>3. QED BY <2>1, <2>2
<1>5. QED BY <1>1, <1>2, <1>3, <1>4 DEF Next, LoopStep, ChildStep

LEMMA LifeInit ==
  ASSUME NEW s \in Syncs PROVE Init => Life(s)!Init
  BY DEF Init, Life!Init

(***************************************************************************)
(* Whatever the order of exits, signals and clock ticks, each Sync leads   *)
(* its sync-client processes through the life ChildLife describes.         *)
(***************************************************************************)
THEOREM EachChildLives ==
  ASSUME NEW s \in Syncs
  PROVE  Spec => Life(s)!Spec
<1>1. Init => Life(s)!Init
  BY LifeInit
<1>2. Shape /\ SignalInv /\ [Next]_vars => [Life(s)!Next]_(Life(s)!vars)
  BY LifeStep
<1>3. QED BY <1>1, <1>2, ShapeInvariant, SignalInvariant, PTL DEF Spec, Life!Spec

(***************************************************************************)
(* The same for all Syncs at once, as the runs check it.                   *)
(***************************************************************************)
THEOREM ChildrenLive == Spec => ChildLives
<1>1. Init => \A s \in Syncs : Life(s)!Init
  BY LifeInit
<1>2. Shape /\ SignalInv /\ [Next]_vars =>
        [\A s \in Syncs : [Life(s)!Next]_(Life(s)!vars)]_vars
  BY LifeStep
<1>3. QED BY <1>1, <1>2, ShapeInvariant, SignalInvariant, PTL DEF Spec, ChildLives

-----------------------------------------------------------------------------
(* The termination byte.                                                   *)

(***************************************************************************)
(* Between passes all Syncs know of the termination or none does; within   *)
(* the pass that read the byte, those already polled do.                   *)
(***************************************************************************)
ToldTogether ==
  /\ pc \in {"top", "select"} \/ (pc = "update" /\ woke # "TERM") =>
       \A x, y \in Syncs : terminating[x] => terminating[y]
  /\ pc = "update" /\ woke = "TERM" =>
       \A x \in Syncs : x \notin todo \/ x = cur => terminating[x]

LEMMA ToldStep == Shape /\ ToldTogether /\ [Next]_vars => ToldTogether'
<1> SUFFICES ASSUME Shape, ToldTogether, [Next]_vars PROVE ToldTogether'
  OBVIOUS
<1> USE DEF ToldTogether, Shape, TypeOK, Over, syncVars, loopVars, envVars
<1>1. CASE Select
  BY <1>1 DEF Select
<1>2. CASE WakeOnByte \/ WakeOnTimeout
  BY <1>2 DEF WakeOnByte, WakeOnTimeout, BeginPass
<1>3. CASE EndPass
  BY <1>3 DEF EndPass
<1>4. ASSUME NEW s \in Syncs, UpdateStep(s) PROVE ToldTogether'
  <2>1. CASE Poll(s)
    BY <2>1 DEF Poll, ChildExited, NoteTermination
  <2>2. CASE ~Poll(s)
    <3>1. /\ cur = s /\ cur' = None /\ todo' = todo \ {s}
          /\ pc' \in {"update", "crashed"}
          /\ UNCHANGED <<woke, terminating>>
      BY <1>4, <2>2 DEF UpdateStep, StartChild, StartFails, SendSigterm,
                        SendSigkill, NothingDue, Updated
    <3>2. QED BY <3>1
  <2>3. QED BY <2>1, <2>2
<1>5. ASSUME NEW s \in Syncs, NEW ok \in BOOLEAN, ChildExits(s, ok)
      PROVE  ToldTogether'
  BY <1>5 DEF ChildExits
<1>6. CASE TerminationSignal \/ Tick
  BY <1>6 DEF TerminationSignal, Tick
<1>7. CASE CrashStep
  BY <1>7 DEF CrashStep, SelectFails, Killed
<1>8. CASE UNCHANGED vars
  BY <1>8 DEF vars
<1>9. QED
  BY <1>1, <1>2, <1>3, <1>4, <1>5, <1>6, <1>7, <1>8 DEF Next, LoopStep, ChildStep

LEMMA StartStepIsEarly ==
  Shape /\ ToldTogether /\ [Next]_vars =>
    \A s \in Syncs : StartStep(s) =>
      woke # "TERM" /\ \A x \in Syncs : ~terminating[x]
<1> SUFFICES ASSUME Shape, ToldTogether, [Next]_vars,
                    NEW s \in Syncs, StartStep(s)
             PROVE  woke # "TERM" /\ \A x \in Syncs : ~terminating[x]
  OBVIOUS
<1> USE DEF StartStep, Shape, TypeOK, syncVars, loopVars, envVars
<1>1. StartChild(s)
  <2>1. ~(Select \/ WakeOnByte \/ WakeOnTimeout \/ EndPass)
    BY DEF Select, WakeOnByte, WakeOnTimeout, BeginPass, EndPass
  <2>2. ~(CrashStep \/ ChildStep \/ TerminationSignal \/ Tick \/ UNCHANGED vars)
    BY DEF CrashStep, SelectFails, Killed, ChildStep, ChildExits, TerminationSignal, Tick, vars
  <2>3. PICK x \in Syncs : UpdateStep(x)
    BY <2>1, <2>2 DEF Next, LoopStep
  <2>4. StartChild(x)
    BY <2>3 DEF UpdateStep, Poll, ChildExited, StartFails, SendSigterm, SendSigkill, NothingDue
  <2>5. x = s
    BY <2>4 DEF StartChild
  <2>6. QED BY <2>4, <2>5
<1>2. cur = s /\ ~terminating[s] /\ pc = "update"
  BY <1>1, DueStart DEF StartChild
<1>3. QED BY <1>2 DEF ToldTogether

(***************************************************************************)
(* No sync-client is started from the pass on that reads SIGTERM's byte.   *)
(***************************************************************************)
THEOREM NoLateStart == Spec => NoStartWhenTerminating
<1>1. Init => ToldTogether
  BY DEF Init, ToldTogether
<1>2. QED
  BY <1>1, ToldStep, StartStepIsEarly, ShapeInvariant, PTL
  DEF Spec, NoStartWhenTerminating

-----------------------------------------------------------------------------
(* The timeout of select.                                                  *)

\* What a Sync does next does not depend on the time, only when it does it.
LEMMA ActionLater ==
  ASSUME Shape, NEW s \in Syncs, NEW t \in Int, NEW u \in Int, t <= u,
         ~Finished(s, t)
  PROVE  /\ ~Finished(s, u)
         /\ NextAction(s, t).at <= NextAction(s, u).at
         /\ NextAction(s, u).at = NextAction(s, t).at \/ NextAction(s, u).at <= u
  BY DEF Shape, TypeOK, Finished, NextAction, ChildlessAction, ChildAction,
         Nothing, Start, Terminate, Kill, Time

LEMMA FinishedLater ==
  ASSUME NEW s \in Syncs, NEW t, NEW u, Finished(s, t)
  PROVE  Finished(s, u)
  BY DEF Finished, NextAction, ChildlessAction, ChildAction,
         Nothing, Start, Terminate, Kill

\* A child that ends does not change what is due: that needs a poll.
LEMMA ActionKept ==
  ASSUME UNCHANGED <<terminating, succeeded, startTime, sentSigterm>>,
         NEW s \in Syncs, NEW t,
         child'[s] = "none" <=> child[s] = "none"
  PROVE  NextAction(s, t)' = NextAction(s, t)
  BY DEF NextAction, ChildlessAction, ChildAction, Nothing, Start, Terminate, Kill

(***************************************************************************)
(* A select with a timeout has it from some Sync's action.                 *)
(***************************************************************************)
WakesForSomeone ==
  pc = "select" /\ wakeAt # None =>
    \E s \in Syncs : /\ ~Finished(s, now)
                     /\ \/ NextAction(s, now).at <= wakeAt
                        \/ NextAction(s, now).at <= now

SleepInv == NoOversleep /\ WakesForSomeone

LEMMA SelectEstablishes == Shape /\ Select => SleepInv'
<1> SUFFICES ASSUME Shape, Select PROVE SleepInv'
  OBVIOUS
<1>1. now' = now /\ now \in Int
  BY DEF Select, envVars, Shape, TypeOK
<1>2. \A s \in Syncs : NextAction(s, now)' = NextAction(s, now)
  BY DEF Select, syncVars, envVars, NextAction, ChildlessAction, ChildAction
<1>3. \A s \in Syncs : Finished(s, now)' <=> Finished(s, now)
  BY <1>2 DEF Finished
<1>4. ActionTimes(now) \subseteq Int
  BY <1>1, NextActionType DEF ActionTimes, Finished
<1>5. EarliestOf(ActionTimes(now), wakeAt')
  BY DEF Select
<1>6. NoOversleep'
  <2> SUFFICES ASSUME NEW s \in Syncs, ~Finished(s, now)
               PROVE  wakeAt' # None /\ wakeAt' <= NextAction(s, now).at
    BY <1>2, <1>3 DEF NoOversleep
  <2>1. NextAction(s, now).at \in ActionTimes(now)
    BY DEF ActionTimes
  <2>2. QED BY <2>1, <1>4, <1>5 DEF EarliestOf
<1>7. WakesForSomeone'
  <2> SUFFICES ASSUME wakeAt' # None
               PROVE  \E s \in Syncs : ~Finished(s, now) /\ NextAction(s, now).at <= wakeAt'
    BY <1>2, <1>3 DEF WakesForSomeone
  <2>1. wakeAt' \in ActionTimes(now)
    BY <1>5 DEF EarliestOf
  <2>2. QED BY <2>1, <1>4 DEF ActionTimes
<1>8. QED BY <1>6, <1>7 DEF SleepInv

LEMMA SleepStep == Shape /\ SleepInv /\ [Next]_vars => SleepInv'
<1> SUFFICES ASSUME Shape, SleepInv, [Next]_vars PROVE SleepInv'
  OBVIOUS
<1> USE DEF syncVars, loopVars, envVars
<1>1. CASE Select
  BY <1>1, SelectEstablishes
<1>2. CASE pc' # "select"
  BY <1>2 DEF SleepInv, NoOversleep, WakesForSomeone
<1>3. CASE ~Select /\ pc' = "select"
  <2>1. /\ UNCHANGED <<pc, wakeAt, terminating, succeeded, startTime, sentSigterm>>
        /\ \A s \in Syncs : child'[s] = "none" <=> child[s] = "none"
        /\ now' = now \/ now' = now + 1
    <3>1. ~(WakeOnByte \/ WakeOnTimeout \/ EndPass \/ CrashStep)
      BY <1>3 DEF WakeOnByte, WakeOnTimeout, BeginPass, EndPass, CrashStep, SelectFails, Killed
    <3>2. ~\E s \in Syncs : UpdateStep(s)
      BY <1>3 DEF UpdateStep, Poll, ChildExited, StartChild, StartFails, SendSigterm,
                  SendSigkill, NothingDue, Shape, TypeOK
    <3>3. CASE ChildStep
      BY <3>3 DEF ChildStep, ChildExits, Shape, TypeOK
    <3>4. CASE TerminationSignal \/ Tick \/ UNCHANGED vars
      BY <3>4 DEF TerminationSignal, Tick, vars
    <3>5. QED BY <1>3, <3>1, <3>2, <3>3, <3>4 DEF Next, LoopStep
  <2>2. now \in Int /\ now' \in Int /\ now <= now'
    BY <2>1 DEF Shape, TypeOK
  <2>3. \A s \in Syncs, t \in Int : NextAction(s, t)' = NextAction(s, t)
    BY <2>1, ActionKept
  <2>4. \A s \in Syncs, t \in Int : Finished(s, t)' <=> Finished(s, t)
    BY <2>3 DEF Finished
  <2>5. wakeAt \in Time
    BY DEF Shape, TypeOK
  <2>6. NoOversleep'
    <3> SUFFICES ASSUME NEW s \in Syncs, ~Finished(s, now')
                 PROVE  wakeAt' # None /\ wakeAt' <= NextAction(s, now').at
      BY <2>2, <2>3, <2>4 DEF NoOversleep, Finished, NextAction, ChildAction, ChildlessAction
    <3>1. ~Finished(s, now)
      BY <2>2, FinishedLater
    <3>2. wakeAt # None /\ wakeAt <= NextAction(s, now).at
      BY <1>3, <2>1, <3>1 DEF SleepInv, NoOversleep
    <3>3. NextAction(s, now).at <= NextAction(s, now').at
      BY <2>2, <3>1, ActionLater
    <3>4. NextAction(s, now).at \in Int /\ NextAction(s, now').at \in Int
      BY <2>2, <3>1, ActionLater, NextActionType DEF Finished
    <3>5. QED BY <2>1, <2>5, <3>2, <3>3, <3>4 DEF Time
  <2>7. WakesForSomeone'
    <3> SUFFICES ASSUME wakeAt' # None
                 PROVE  \E s \in Syncs : /\ ~Finished(s, now')
                                         /\ \/ NextAction(s, now').at <= wakeAt'
                                            \/ NextAction(s, now').at <= now'
      BY <2>2, <2>3, <2>4 DEF WakesForSomeone, Finished, NextAction, ChildAction, ChildlessAction
    <3>1. PICK s \in Syncs : /\ ~Finished(s, now)
                             /\ \/ NextAction(s, now).at <= wakeAt
                                \/ NextAction(s, now).at <= now
      BY <1>3, <2>1 DEF SleepInv, WakesForSomeone
    <3>2. /\ ~Finished(s, now')
          /\ \/ NextAction(s, now').at = NextAction(s, now).at
             \/ NextAction(s, now').at <= now'
      BY <2>2, <3>1, ActionLater
    <3>3. NextAction(s, now).at \in Int
      BY <2>2, <3>1, NextActionType DEF Finished
    <3>4. QED BY <2>1, <2>2, <3>1, <3>2, <3>3
  <2>8. QED BY <2>6, <2>7 DEF SleepInv
<1>4. QED BY <1>1, <1>2, <1>3

LEMMA SleepInvariant == Spec => []SleepInv
<1>1. Init => SleepInv
  BY DEF Init, SleepInv, NoOversleep, WakesForSomeone
<1>2. QED BY <1>1, SleepStep, ShapeInvariant, PTL DEF Spec

(***************************************************************************)
(* select's timeout never lies behind an action a Sync is to take.         *)
(***************************************************************************)
THEOREM NeverOversleeps == Spec => []NoOversleep
<1>1. SleepInv => NoOversleep
  BY DEF SleepInv
<1>2. QED BY <1>1, SleepInvariant, PTL

LEMMA SpinStep == Shape /\ SleepInv /\ NoSpin /\ [Next]_vars => NoSpin'
<1> SUFFICES ASSUME Shape, SleepInv, NoSpin, [Next]_vars,
                    pc' = "update", woke' = "timeout", cur' = None, todo' = Syncs
             PROVE  \E s \in Syncs : /\ ~Finished(s, tnow)'
                                     /\ tnow' >= NextAction(s, tnow)'.at
  BY DEF NoSpin
<1> USE DEF syncVars, loopVars, envVars
<1>1. CASE WakeOnTimeout
  <2>1. /\ wakeAt # None /\ now >= wakeAt /\ pc = "select" /\ tnow' = now
        /\ UNCHANGED <<child, terminating, succeeded, startTime, sentSigterm>>
    BY <1>1 DEF WakeOnTimeout, BeginPass
  <2>2. now \in Int /\ wakeAt \in Int
    BY <2>1 DEF Shape, TypeOK, Time
  <2>3. PICK s \in Syncs : /\ ~Finished(s, now)
                           /\ \/ NextAction(s, now).at <= wakeAt
                              \/ NextAction(s, now).at <= now
    BY <2>1 DEF SleepInv, WakesForSomeone
  <2>4. NextAction(s, now).at \in Int
    BY <2>2, <2>3, NextActionType DEF Finished
  <2>5. NextAction(s, now).at <= now
    BY <2>1, <2>2, <2>3, <2>4
  <2>6. NextAction(s, tnow)' = NextAction(s, now)
    BY <2>1 DEF NextAction, ChildlessAction, ChildAction
  <2>7. QED BY <2>1, <2>3, <2>5, <2>6 DEF Finished
<1>2. CASE ~WakeOnTimeout
  <2>1. ~(Select \/ WakeOnByte \/ EndPass \/ CrashStep)
    <3>1. pipe \in Seq(Byte)
      BY DEF Shape, TypeOK
    <3>2. WakeOnByte => woke' \in Byte
      BY <3>1 DEF WakeOnByte, BeginPass
    <3>3. "timeout" \notin Byte
      BY DEF Byte
    <3>4. QED BY <3>2, <3>3 DEF Select, EndPass, CrashStep, SelectFails, Killed
  <2>2. ~\E s \in Syncs : UpdateStep(s)
    BY DEF UpdateStep, Poll, ChildExited, StartChild, StartFails, SendSigterm,
           SendSigkill, NothingDue, Updated
  <2>3. /\ UNCHANGED <<pc, woke, cur, todo, tnow, terminating, succeeded,
                       startTime, sentSigterm>>
        /\ \A s \in Syncs : child'[s] = "none" <=> child[s] = "none"
    <3>1. CASE ChildStep
      BY <3>1 DEF ChildStep, ChildExits, Shape, TypeOK
    <3>2. CASE TerminationSignal \/ Tick \/ UNCHANGED vars
      BY <3>2 DEF TerminationSignal, Tick, vars
    <3>3. QED BY <1>2, <2>1, <2>2, <3>1, <3>2 DEF Next, LoopStep
  <2>4. \A s \in Syncs : NextAction(s, tnow)' = NextAction(s, tnow)
    BY <2>3 DEF NextAction, ChildlessAction, ChildAction
  <2>5. QED BY <2>3, <2>4 DEF NoSpin, Finished
<1>3. QED BY <1>1, <1>2

(***************************************************************************)
(* A select that times out is followed by a pass with an action to take.   *)
(***************************************************************************)
THEOREM NeverSpins == Spec => []NoSpin
<1>1. Init => NoSpin
  BY DEF Init, NoSpin
<1>2. QED
  BY <1>1, SpinStep, ShapeInvariant, SleepInvariant, PTL DEF Spec

-----------------------------------------------------------------------------
(* Punctuality, for a loop that takes no time.                             *)

\* When a Sync with a child has to act next, unless told to terminate.
Deadline(s) ==
  IF sentSigterm[s] # None THEN sentSigterm[s] + GracePeriod ELSE startTime[s] + Timeout

\* No deadline has passed, and who was told has acted.
DeadlineInv ==
  pc \notin Over =>
    \A s \in Syncs : child[s] # "none" =>
      /\ now <= Deadline(s)
      /\ sentSigterm[s] # None => sentSigterm[s] <= startTime[s] + Timeout
      /\ terminating[s] /\ cur # s => sentSigterm[s] # None

\* A Sync without a child whose turn this pass is over has none to start yet.
PollInv ==
  \A s \in Syncs :
    child[s] = "none" /\ (pc \in {"top", "select"} \/ (pc = "update" /\ s \notin todo)) =>
      \/ terminating[s] \/ (Once /\ succeeded[s])
      \/ now <= IF startTime[s] = None THEN 0 ELSE startTime[s] + Interval

\* A SIGTERM is on its way, or those whose turn has come were told.
HeardInv ==
  signals > 0 /\ pc \notin Over =>
    \/ \E i \in 1 .. Len(pipe) : pipe[i] = "TERM"
    \/ \A s \in Syncs :
         terminating[s] \/ (pc = "update" /\ woke = "TERM" /\ s \in todo /\ s # cur)

\* A pass that takes no time notes the moment itself.
ExactInv ==
  /\ pc = "update" => tnow = now
  /\ \A s \in Syncs : proc[s].since = startTime[s] /\ proc[s].termed = sentSigterm[s]

LEMMA ExactStep == Shape /\ ExactInv /\ [PromptNext]_vars => ExactInv'
<1> SUFFICES ASSUME Shape, ExactInv, [PromptNext]_vars PROVE ExactInv'
  OBVIOUS
<1> USE DEF ExactInv, Shape, TypeOK, Over, syncVars, loopVars, envVars
<1>1. CASE Select \/ WakeOnByte \/ WakeOnTimeout \/ EndPass \/ CrashStep \/ TerminationSignal
           \/ UNCHANGED vars
  BY <1>1 DEF Select, WakeOnByte, WakeOnTimeout, BeginPass, EndPass, CrashStep, SelectFails,
              Killed, TerminationSignal, vars
<1>2. ASSUME NEW s \in Syncs, UpdateStep(s) PROVE ExactInv'
  <2>1. CASE StartChild(s)
    BY <2>1 DEF StartChild, ForgetSigterm, Updated
  <2>2. CASE SendSigterm(s)
    BY <2>2 DEF SendSigterm, Updated
  <2>3. CASE Poll(s) \/ StartFails(s) \/ SendSigkill(s) \/ NothingDue(s)
    BY <2>3 DEF Poll, StartFails, SendSigkill, NothingDue, Updated
  <2>4. QED BY <1>2, <2>1, <2>2, <2>3 DEF UpdateStep
<1>3. CASE ChildStep
  BY <1>3 DEF ChildStep, ChildExits
<1>4. CASE PromptTick
  BY <1>4 DEF PromptTick, Asleep, Tick
<1>5. QED BY <1>1, <1>2, <1>3, <1>4 DEF PromptNext, LoopStep

\* What the steps of a pass and of the environment do not know of each other.
PunctualInv ==
  /\ pc = "update" => tnow = now
  /\ DeadlineInv /\ PollInv /\ HeardInv

LEMMA PromptIsNext == [PromptNext]_vars => [Next]_vars
  BY DEF PromptNext, PromptTick, Next

\* In its turn a Sync does what is due, and what is not due has time.
LEMMA TurnKeeps ==
  ASSUME Shape, PunctualInv, Timeout >= 0, NEW s \in Syncs, UpdateStep(s), ~Poll(s)
  PROVE  PunctualInv'
<1> USE DEF Shape, TypeOK, Time, Over, syncVars, envVars
<1>1. /\ pc = "update" /\ cur = s /\ tnow = now /\ now \in Int
      /\ cur' = None /\ todo' = todo \ {s} /\ UNCHANGED <<woke, tnow, now, signals, terminating>>
      /\ pc' = "update" \/ pc' = "crashed"
      /\ pipe' = pipe \/ pipe' = Append(pipe, "CHLD")
  BY DEF UpdateStep, StartChild, StartFails, SendSigterm, SendSigkill, NothingDue, Updated,
         PunctualInv
<1>2. SUFFICES ASSUME pc' = "update" PROVE PunctualInv'
  BY <1>1 DEF PunctualInv, DeadlineInv, PollInv, HeardInv
<1>3. \A x \in Syncs \ {s} : /\ child'[x] = child[x] /\ startTime'[x] = startTime[x]
                             /\ sentSigterm'[x] = sentSigterm[x]
  BY DEF UpdateStep, StartChild, ForgetSigterm, StartFails, SendSigterm, SendSigkill, NothingDue
<1>4. succeeded' = succeeded
  BY DEF UpdateStep, StartChild, StartFails, SendSigterm, SendSigkill, NothingDue
<1>5. /\ child'[s] # "none" =>
           /\ now <= Deadline(s)'
           /\ sentSigterm'[s] # None => sentSigterm'[s] <= startTime'[s] + Timeout
           /\ terminating[s] => sentSigterm'[s] # None
      /\ child'[s] = "none" =>
           \/ terminating[s] \/ (Once /\ succeeded[s])
           \/ now <= IF startTime'[s] = None THEN 0 ELSE startTime'[s] + Interval
  <2> USE DEF PunctualInv, DeadlineInv, Deadline
  <2>1. CASE StartChild(s)
    BY <1>1, <2>1, DueStart DEF StartChild, ForgetSigterm
  <2>2. CASE SendSigterm(s)
    BY <1>1, <2>2, DueSigterm DEF SendSigterm
  <2>3. CASE SendSigkill(s)
    BY <1>1, <2>3, DueSigkill DEF SendSigkill
  <2>4. CASE NothingDue(s)
    <3>1. Idle(s, now) /\ UNCHANGED <<child, startTime, sentSigterm>>
      BY <1>1, <2>4 DEF NothingDue
    <3>2. QED
      BY <1>1, <3>1
      DEF Idle, NextAction, ChildlessAction, ChildAction, Nothing, Start, Terminate, Kill
  <2>5. ~StartFails(s)
    BY <1>2 DEF StartFails
  <2>6. QED BY <2>1, <2>2, <2>3, <2>4, <2>5 DEF UpdateStep
<1>6. DeadlineInv'
  BY <1>1, <1>3, <1>5 DEF PunctualInv, DeadlineInv, Deadline
<1>7. PollInv'
  BY <1>1, <1>2, <1>3, <1>4, <1>5 DEF PunctualInv, PollInv
<1>8. HeardInv'
  <2>1. ASSUME NEW i \in 1 .. Len(pipe), pipe[i] = "TERM"
        PROVE  i \in 1 .. Len(pipe') /\ pipe'[i] = "TERM"
    BY <1>1, <2>1
  <2>2. QED BY <1>1, <1>2, <2>1 DEF PunctualInv, HeardInv
<1>9. QED BY <1>1, <1>6, <1>7, <1>8 DEF PunctualInv

LEMMA PunctualStep ==
  ASSUME Timeout >= 0
  PROVE  Shape /\ SleepInv /\ PunctualInv /\ [PromptNext]_vars => PunctualInv'
<1> SUFFICES ASSUME Shape, SleepInv, PunctualInv, [PromptNext]_vars PROVE PunctualInv'
  OBVIOUS
<1> USE DEF PunctualInv, DeadlineInv, Deadline, PollInv, HeardInv, Shape, TypeOK, Time, Over,
            syncVars, loopVars, envVars
<1>1. CASE Select
  BY <1>1 DEF Select
<1>2. CASE WakeOnByte
  <2>1. /\ pipe # <<>> /\ pipe' = Tail(pipe) /\ woke' = pipe[1] /\ pc = "select"
        /\ todo' = Syncs /\ tnow' = now /\ pc' = "update" /\ cur = None /\ cur' = None
        /\ UNCHANGED <<syncVars, now, signals>>
    BY <1>2 DEF WakeOnByte, BeginPass
  <2>2. ASSUME NEW i \in 1 .. Len(pipe), pipe[i] = "TERM"
        PROVE  woke' = "TERM" \/ \E j \in 1 .. Len(pipe') : pipe'[j] = "TERM"
    <3>1. CASE i = 1
      BY <2>1, <2>2, <3>1
    <3>2. CASE i # 1
      <4>1. i - 1 \in 1 .. Len(pipe') /\ pipe'[i - 1] = "TERM"
        BY <2>1, <2>2, <3>2
      <4>2. QED BY <4>1
    <3>3. QED BY <3>1, <3>2
  <2>3. HeardInv'
    BY <2>1, <2>2
  <2>4. DeadlineInv' /\ PollInv'
    BY <2>1
  <2>5. QED BY <2>1, <2>3, <2>4
<1>3. CASE WakeOnTimeout
  BY <1>3 DEF WakeOnTimeout, BeginPass
<1>4. CASE EndPass
  BY <1>4 DEF EndPass
<1>5. ASSUME NEW s \in Syncs, Poll(s) PROVE PunctualInv'
  <2>1. /\ pc = "update" /\ cur = None /\ s \in todo /\ cur' = s
        /\ terminating' = [terminating EXCEPT ![s] = @ \/ woke = "TERM"]
        /\ child' = child \/ child' = [child EXCEPT ![s] = "none"]
        /\ \A x \in Syncs \ {s} : succeeded'[x] = succeeded[x]
        /\ UNCHANGED <<startTime, sentSigterm, pc, woke, tnow, todo, envVars>>
    BY <1>5 DEF Poll, NoteTermination, ChildExited
  <2>2. DeadlineInv'
    BY <2>1
  <2>3. PollInv'
    BY <2>1
  <2>4. HeardInv'
    BY <2>1
  <2>5. QED BY <2>1, <2>2, <2>3, <2>4
<1>6. ASSUME NEW s \in Syncs, UpdateStep(s), ~Poll(s) PROVE PunctualInv'
  BY <1>6, TurnKeeps
<1>7. ASSUME NEW s \in Syncs, NEW ok \in BOOLEAN, ChildExits(s, ok) PROVE PunctualInv'
  <2>1. ASSUME NEW i \in 1 .. Len(pipe), pipe[i] = "TERM"
        PROVE  i \in 1 .. Len(pipe') /\ pipe'[i] = "TERM"
    BY <1>7, <2>1 DEF ChildExits
  <2>2. \A x \in Syncs : child'[x] = "none" <=> child[x] = "none"
    BY <1>7 DEF ChildExits
  <2>3. QED BY <1>7, <2>1, <2>2 DEF ChildExits
<1>8. CASE TerminationSignal
  <2>1. Len(pipe') \in 1 .. Len(pipe') /\ pipe'[Len(pipe')] = "TERM"
    BY <1>8 DEF TerminationSignal
  <2>2. HeardInv'
    BY <2>1
  <2>3. DeadlineInv' /\ PollInv' /\ (pc' = "update" => tnow' = now')
    BY <1>8 DEF TerminationSignal
  <2>4. QED BY <2>2, <2>3
<1>9. CASE PromptTick
  <2>1. /\ pc = "select" /\ (wakeAt = None \/ now < wakeAt)
        /\ now' = now + 1 /\ UNCHANGED <<syncVars, loopVars, pipe, signals>>
    BY <1>9 DEF PromptTick, Asleep, Tick
  <2>2. now \in Int /\ \A s \in Syncs : ~Finished(s, now) => now + 1 <= NextAction(s, now).at
    BY <2>1, NextActionType DEF SleepInv, NoOversleep, Finished
  <2>3. ASSUME NEW s \in Syncs, child[s] # "none"
        PROVE  now + 1 <= Deadline(s)
    BY <2>2, <2>3 DEF Finished, NextAction, ChildAction, Terminate, Kill, Nothing
  <2>4. ASSUME NEW s \in Syncs, child[s] = "none", ~terminating[s], ~(Once /\ succeeded[s])
        PROVE  startTime[s] # None /\ now + 1 <= startTime[s] + Interval
    BY <2>2, <2>4 DEF Finished, NextAction, ChildlessAction, Start, Nothing
  <2>5. DeadlineInv'
    BY <2>1, <2>3
  <2>6. PollInv'
    BY <2>1, <2>4
  <2>7. HeardInv'
    BY <2>1
  <2>8. QED BY <2>1, <2>5, <2>6, <2>7
<1>10. CASE CrashStep
  BY <1>10 DEF CrashStep, SelectFails, Killed
<1>11. CASE UNCHANGED vars
  BY <1>11 DEF vars
<1>12. QED
  BY <1>1, <1>2, <1>3, <1>4, <1>5, <1>6, <1>7, <1>8, <1>9, <1>10, <1>11
  DEF PromptNext, LoopStep, ChildStep, UpdateStep

LEMMA PunctualFollows ==
  ASSUME Shape, ExactInv, PunctualInv PROVE Punctual
<1> SUFFICES ASSUME pc \notin Over, NEW s \in Syncs
             PROVE  /\ child[s] = "running" =>
                         /\ now <= proc[s].since + Timeout + GracePeriod
                         /\ proc[s].termed # None => now <= proc[s].termed + GracePeriod
                         /\ signals > 0 /\ Asleep => proc[s].termed # None
                    /\ child[s] = "none" /\ pc = "select" =>
                         \/ terminating[s] \/ (Once /\ succeeded[s])
                         \/ now <= IF proc[s].since = None THEN 0 ELSE proc[s].since + Interval
  BY DEF Punctual
<1>1. proc[s].since = startTime[s] /\ proc[s].termed = sentSigterm[s]
  BY DEF ExactInv
<1>2. ASSUME child[s] = "running"
      PROVE  /\ now <= startTime[s] + Timeout + GracePeriod
             /\ sentSigterm[s] # None => now <= sentSigterm[s] + GracePeriod
  BY <1>2 DEF PunctualInv, DeadlineInv, Deadline, Shape, TypeOK, Time
<1>3. ASSUME child[s] = "running", signals > 0, Asleep PROVE sentSigterm[s] # None
  <2>1. pc = "select" /\ pipe = <<>> /\ cur = None
    BY <1>3 DEF Asleep, Shape
  <2>2. terminating[s]
    BY <1>3, <2>1 DEF PunctualInv, HeardInv, Over
  <2>3. QED BY <1>3, <2>1, <2>2 DEF PunctualInv, DeadlineInv, Over
<1>4. QED BY <1>1, <1>2, <1>3 DEF PunctualInv, PollInv

(***************************************************************************)
(* With a loop that takes no time, no sync-client outlives its timeout and *)
(* the grace period, a SIGTERM to the daemon reaches the running one at    *)
(* once and ends it within the grace period, and polling is never late:    *)
(* for any number of Syncs and any times, but a timeout in the past.       *)
(***************************************************************************)
THEOREM NothingIsLate ==
  ASSUME Timeout >= 0
  PROVE  PromptSpec => []Punctual
<1>1. Init => Shape /\ ExactInv /\ SleepInv /\ PunctualInv
  <2>1. Init => ExactInv /\ SleepInv
    BY DEF Init, ExactInv, SleepInv, NoOversleep, WakesForSomeone
  <2>2. Init => PunctualInv
    BY DEF Init, PunctualInv, DeadlineInv, PollInv, HeardInv, Over
  <2>3. QED BY <2>1, <2>2, ShapeInit
<1>2. Shape /\ ExactInv /\ SleepInv /\ PunctualInv /\ [PromptNext]_vars =>
        (Shape /\ ExactInv /\ SleepInv /\ PunctualInv)'
  BY PromptIsNext, ShapeStep, ExactStep, SleepStep, PunctualStep
<1>3. Shape /\ ExactInv /\ PunctualInv => Punctual
  BY PunctualFollows
<1>4. QED BY <1>1, <1>2, <1>3, PTL DEF PromptSpec
=============================================================================
