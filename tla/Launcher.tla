------------------------------ MODULE Launcher ------------------------------
(***************************************************************************)
(* The sync-client-daemon (sync_client/launcher.py): one single-threaded   *)
(* loop that starts sync-client as a child process, sleeps in select on a  *)
(* pipe its signal handlers write to, ends a child that runs too long with *)
(* SIGTERM and then SIGKILL, and starts the next one Interval after the    *)
(* last start.  The loop, the children, the clock and whoever sends the    *)
(* daemon a SIGTERM run concurrently; each call that another party can     *)
(* overtake is a step of its own.                                          *)
(***************************************************************************)
EXTENDS Integers, Sequences, FiniteSets

CONSTANTS
  Syncs,        \* the Sync objects of run(); Config.__init__ makes exactly one
  Once,         \* the --once flag, Sync.run_once
  Interval,     \* SyncConfig.interval, the same domstore key for every Sync
  Timeout,      \* SyncConfig.timeout
  GracePeriod,  \* GRACE_PERIOD
  None,         \* Python's None
  Lag,          \* bound: how long a pass of run() may take
  MaxTime,      \* bound: the clock stops here
  MaxSignals    \* bound: how often somebody sends SIGTERM or SIGINT

ASSUME LauncherAssumption ==
  /\ Once \in BOOLEAN
  /\ Interval \in Int /\ Timeout \in Int
  /\ GracePeriod \in Nat
  /\ Lag \in Nat /\ MaxTime \in Nat /\ MaxSignals \in Nat
  /\ None \notin Int /\ None \notin Syncs

VARIABLES
  now,          \* the wall clock, time.time()
  pc,           \* where run() is
  wakeAt,       \* when the select in progress times out, None for never
  woke,         \* why the last do_select returned
  tnow,         \* run()'s local "now", read once per pass
  todo,         \* the Syncs this pass has still to update
  cur,          \* the Sync between its poll and its action, None between Syncs
  child,        \* Sync.child: "none", or the state of the process behind it
  exitOk,       \* does the process, once it has ended, report exit status 0?
  startTime,    \* Sync.start_time
  sentSigterm,  \* Sync.sent_sigterm_time
  terminating,  \* Sync.daemon_terminating
  succeeded,    \* Sync.succeeded
  pipe,         \* the bytes in the signal pipe, oldest first
  signals,      \* how many SIGTERM/SIGINT the daemon was sent
  proc          \* when the current child process really was started and sent SIGTERM

syncVars == <<child, exitOk, startTime, sentSigterm, terminating, succeeded, proc>>
loopVars == <<pc, wakeAt, woke, tnow, todo, cur>>
envVars  == <<now, pipe, signals>>
vars     == <<syncVars, loopVars, envVars>>

Time == Int \cup {None}
Byte == {"CHLD", "TERM"}     \* SIGINT is treated like SIGTERM throughout
Over == {"exited", "crashed"}

TypeOK ==
  /\ now \in 0 .. MaxTime
  /\ pc \in {"top", "select", "update"} \cup Over
  /\ wakeAt \in Time
  /\ woke \in {"CHLD", "TERM", "timeout"}
  /\ tnow \in 0 .. MaxTime
  /\ todo \subseteq Syncs
  /\ cur \in Syncs \cup {None}
  /\ child \in [Syncs -> {"none", "running", "zombie", "reaped"}]
  /\ exitOk \in [Syncs -> BOOLEAN]
  /\ startTime \in [Syncs -> Time]
  /\ sentSigterm \in [Syncs -> Time]
  /\ terminating \in [Syncs -> BOOLEAN]
  /\ succeeded \in [Syncs -> BOOLEAN]
  /\ pipe \in Seq(Byte)
  /\ signals \in 0 .. MaxSignals
  /\ proc \in [Syncs -> [since : Time, termed : Time]]

Init ==
  /\ now = 0 /\ tnow = 0 /\ signals = 0
  /\ pc = "top" /\ wakeAt = None /\ woke = "timeout"
  /\ todo = {} /\ cur = None
  /\ child = [s \in Syncs |-> "none"]
  /\ exitOk = [s \in Syncs |-> FALSE]
  /\ startTime = [s \in Syncs |-> None]
  /\ sentSigterm = [s \in Syncs |-> None]
  /\ terminating = [s \in Syncs |-> FALSE]
  /\ succeeded = [s \in Syncs |-> FALSE]
  /\ pipe = <<>>
  /\ proc = [s \in Syncs |-> [since |-> None, termed |-> None]]

-----------------------------------------------------------------------------
(* What a Sync wants to do next, and when.                                 *)

Nothing        == [act |-> "nothing", at |-> None]
Start(t)       == [act |-> "start",   at |-> t]
Terminate(t)   == [act |-> "sigterm", at |-> t]
Kill(t)        == [act |-> "sigkill", at |-> t]

\* Faulty: one success ends the polling.
ChildlessActionDone(s, t) ==
  IF terminating[s] \/ succeeded[s] THEN Nothing
  ELSE IF startTime[s] = None THEN Start(t)
  ELSE Start(startTime[s] + Interval)

ChildlessAction(s, t) ==
  IF terminating[s] THEN Nothing
  ELSE IF startTime[s] = None THEN Start(t)
  ELSE IF Once /\ succeeded[s] THEN Nothing
  ELSE Start(startTime[s] + Interval)

\* Faulty: SIGTERM is sent again instead of SIGKILL.
ChildActionNoKill(s, t) ==
  IF terminating[s] THEN Terminate(t) ELSE Terminate(startTime[s] + Timeout)

ChildAction(s, t) ==
  IF sentSigterm[s] # None THEN Kill(sentSigterm[s] + GracePeriod)
  ELSE IF terminating[s] THEN Terminate(t)
  ELSE Terminate(startTime[s] + Timeout)

NextAction(s, t) ==
  IF child[s] = "none" THEN ChildlessAction(s, t) ELSE ChildAction(s, t)

\* Faulty: a Sync that was told to terminate counts as finished.
FinishedWhenTold(s, t) == terminating[s] \/ NextAction(s, t).act = "nothing"

Finished(s, t) == NextAction(s, t).act = "nothing"

Due(s, t, what) ==
  LET a == NextAction(s, t) IN a.act = what /\ t >= a.at

Idle(s, t) ==
  LET a == NextAction(s, t) IN a.act # "nothing" => t < a.at

-----------------------------------------------------------------------------
(* do_select: sleep until the earliest action or a byte in the pipe.       *)

\* Faulty: no timer is set for the SIGKILL.
ActionTimesNoKill(t) ==
  {NextAction(s, t).at : s \in {x \in Syncs : NextAction(x, t).act \in {"start", "sigterm"}}}

ActionTimes(t) == {NextAction(s, t).at : s \in {x \in Syncs : ~Finished(x, t)}}

EarliestOf(times, t) ==
  IF times = {} THEN t = None ELSE t \in times /\ \A u \in times : t <= u

\* Faulty: select is called with timeout 0.
SelectPolls ==
  /\ pc = "top"
  /\ wakeAt' = now
  /\ pc' = "select"
  /\ UNCHANGED <<woke, tnow, todo, cur, syncVars, envVars>>

Select ==
  /\ pc = "top"
  /\ \E t \in ActionTimes(now) \cup {None} :
       EarliestOf(ActionTimes(now), t) /\ wakeAt' = t
  /\ pc' = "select"
  /\ UNCHANGED <<woke, tnow, todo, cur, syncVars, envVars>>

BeginPass(cause) ==
  /\ woke' = cause
  /\ tnow' = now
  /\ todo' = Syncs
  /\ pc' = "update"
  /\ UNCHANGED <<wakeAt, cur, syncVars, now, signals>>

WakeOnByte ==
  /\ pc = "select"
  /\ pipe # <<>>
  /\ pipe' = Tail(pipe)
  /\ BeginPass(Head(pipe))

WakeOnTimeout ==
  /\ pc = "select"
  /\ pipe = <<>>
  /\ wakeAt # None /\ now >= wakeAt
  /\ UNCHANGED pipe
  /\ BeginPass("timeout")

\* select fails with another error than EINTR: do_select raises it again.
SelectFails ==
  /\ pc = "select"
  /\ pc' = "crashed"
  /\ UNCHANGED <<wakeAt, woke, tnow, todo, cur, syncVars, envVars>>

-----------------------------------------------------------------------------
(* Sync.update: note the termination, poll the child, then act if due.     *)

\* Faulty: what do_select returned is stored unconditionally, None included;
\* the flag is lost on the next pass; the flag is never set.
NoteTerminationAny(s) ==
  terminating' = [terminating EXCEPT ![s] = IF woke = "TERM" THEN TRUE ELSE None]
NoteTerminationOnce(s) == terminating' = [terminating EXCEPT ![s] = woke = "TERM"]
NoteTerminationNever(s) == UNCHANGED terminating

NoteTermination(s) ==
  terminating' = [terminating EXCEPT ![s] = @ \/ woke = "TERM"]

ChildExited(s) ==
  /\ child' = [child EXCEPT ![s] = "none"]
  /\ succeeded' = [succeeded EXCEPT ![s] = @ \/ exitOk[s]]

Poll(s) ==
  /\ pc = "update" /\ cur = None /\ s \in todo
  /\ cur' = s
  /\ NoteTermination(s)
  /\ IF child[s] \in {"zombie", "reaped"}
     THEN ChildExited(s)
     ELSE UNCHANGED <<child, succeeded>>
  /\ UNCHANGED <<exitOk, startTime, sentSigterm, proc,
                 pc, wakeAt, woke, tnow, todo, envVars>>

Updated(s) ==
  /\ cur' = None
  /\ todo' = todo \ {s}
  /\ UNCHANGED <<wakeAt, woke, tnow>>

\* Faulty: the time of the predecessor's SIGTERM survives.
KeepSigterm(s) == UNCHANGED sentSigterm

ForgetSigterm(s) == sentSigterm' = [sentSigterm EXCEPT ![s] = None]

\* Faulty: start_time keeps the time of the very first start.
StartChildKeepsTime(s) ==
  /\ cur = s /\ Due(s, tnow, "start")
  /\ child' = [child EXCEPT ![s] = "running"]
  /\ startTime' = [startTime EXCEPT ![s] = IF @ = None THEN tnow ELSE @]
  /\ ForgetSigterm(s)
  /\ proc' = [proc EXCEPT ![s] = [since |-> now, termed |-> None]]
  /\ Updated(s)
  /\ UNCHANGED <<pc, exitOk, terminating, succeeded, envVars>>

StartChild(s) ==
  /\ cur = s /\ Due(s, tnow, "start")
  /\ child' = [child EXCEPT ![s] = "running"]
  /\ startTime' = [startTime EXCEPT ![s] = tnow]
  /\ ForgetSigterm(s)
  /\ proc' = [proc EXCEPT ![s] = [since |-> now, termed |-> None]]
  /\ Updated(s)
  /\ UNCHANGED <<pc, exitOk, terminating, succeeded, envVars>>

\* subprocess.Popen raises: the exception leaves run() and main() exits 1.
StartFails(s) ==
  /\ cur = s /\ Due(s, tnow, "start")
  /\ pc' = "crashed"
  /\ Updated(s)
  /\ UNCHANGED <<syncVars, envVars>>

\* Signalling a child that has just ended reaches only its zombie.
SendSigterm(s) ==
  /\ cur = s /\ Due(s, tnow, "sigterm")
  /\ sentSigterm' = [sentSigterm EXCEPT ![s] = tnow]
  /\ proc' = [proc EXCEPT ![s] = [since |-> @.since, termed |-> now]]
  /\ Updated(s)
  /\ UNCHANGED <<pc, child, exitOk, startTime, terminating, succeeded, envVars>>

\* kill() and wait(): a zombie keeps the status it ended with.
SendSigkill(s) ==
  /\ cur = s /\ Due(s, tnow, "sigkill")
  /\ child' = [child EXCEPT ![s] = "reaped"]
  /\ exitOk' = [exitOk EXCEPT ![s] = @ /\ child[s] # "running"]
  /\ pipe' = IF child[s] = "running" THEN Append(pipe, "CHLD") ELSE pipe
  /\ Updated(s)
  /\ UNCHANGED <<pc, startTime, sentSigterm, terminating, succeeded, proc, now, signals>>

NothingDue(s) ==
  /\ cur = s /\ Idle(s, tnow)
  /\ Updated(s)
  /\ UNCHANGED <<pc, syncVars, envVars>>

\* The end of one pass of run(): leave the loop or sleep again.
EndPass ==
  /\ pc = "update" /\ cur = None /\ todo = {}
  /\ LET done  == Syncs # {} /\ \A s \in Syncs : Finished(s, tnow)
         empty == Syncs = {} /\ (woke = "TERM" \/ Once)
     IN  pc' = IF done \/ empty THEN "exited" ELSE "top"
  /\ UNCHANGED <<wakeAt, woke, tnow, todo, cur, syncVars, envVars>>

-----------------------------------------------------------------------------
(* The children, the users of the daemon, and time.                        *)

\* sync-client ends, by itself or by a signal; SIGCHLD's handler, as long as
\* there is a daemon, writes a byte.
ChildExits(s, ok) ==
  /\ child[s] = "running"
  /\ child' = [child EXCEPT ![s] = "zombie"]
  /\ exitOk' = [exitOk EXCEPT ![s] = ok]
  /\ pipe' = IF pc \in Over THEN pipe ELSE Append(pipe, "CHLD")
  /\ UNCHANGED <<startTime, sentSigterm, terminating, succeeded, proc, loopVars, now, signals>>

TerminationSignal ==
  /\ pc \notin Over
  /\ signals < MaxSignals
  /\ signals' = signals + 1
  /\ pipe' = Append(pipe, "TERM")
  /\ UNCHANGED <<syncVars, loopVars, now>>

\* The daemon gets SIGKILL, or its signal handler finds the pipe full and
\* raises, wherever run() is; a child it has lives on.
Killed ==
  /\ pc \notin Over
  /\ pc' = "crashed" /\ cur' = None
  /\ UNCHANGED <<wakeAt, woke, tnow, todo, syncVars, envVars>>

Tick ==
  /\ now < MaxTime
  /\ pc = "update" => now < tnow + Lag
  /\ now' = now + 1
  /\ UNCHANGED <<syncVars, loopVars, pipe, signals>>

UpdateStep(s) ==
  \/ Poll(s)
  \/ StartChild(s)
  \/ StartFails(s)
  \/ SendSigterm(s)
  \/ SendSigkill(s)
  \/ NothingDue(s)

LoopStep ==
  \/ Select
  \/ WakeOnByte
  \/ WakeOnTimeout
  \/ EndPass
  \/ \E s \in Syncs : UpdateStep(s)

ChildStep == \E s \in Syncs, ok \in BOOLEAN : ChildExits(s, ok)

CrashStep == SelectFails \/ Killed

Next == LoopStep \/ CrashStep \/ ChildStep \/ TerminationSignal \/ Tick

Spec == Init /\ [][Next]_vars

(***************************************************************************)
(* For liveness: the loop itself takes no time worth counting, that is, a  *)
(* pass that can run does so before the clock moves on.                    *)
(***************************************************************************)
Asleep == pc = "select" /\ pipe = <<>> /\ (wakeAt = None \/ now < wakeAt)

PromptTick == Asleep /\ Tick

PromptNext == LoopStep \/ CrashStep \/ ChildStep \/ TerminationSignal \/ PromptTick

PromptSpec ==
  Init /\ [][PromptNext]_vars /\ WF_vars(LoopStep) /\ WF_vars(PromptTick)

-----------------------------------------------------------------------------
(* Properties.                                                             *)

(***************************************************************************)
(* When the loop of run() ends by itself no sync-client is left behind,    *)
(* running or unreaped, and there was a reason to end: every Sync was told *)
(* to terminate or, with --once, has succeeded.                            *)
(***************************************************************************)
CleanExit ==
  pc = "exited" =>
    \A s \in Syncs : /\ child[s] = "none"
                     /\ terminating[s] \/ (Once /\ succeeded[s])

(***************************************************************************)
(* A sync-client process is asked to stop only if the daemon is stopping   *)
(* or the process itself, not a predecessor, has had Timeout seconds, less *)
(* what the pass that started it had taken before the start.               *)
(***************************************************************************)
SigtermIsEarned ==
  \A s \in Syncs :
    child[s] = "running" /\ proc[s].termed # None =>
      terminating[s] \/ proc[s].termed >= proc[s].since + Timeout - Lag

(***************************************************************************)
(* SIGKILL is the last resort: the very process that is killed was sent a  *)
(* SIGTERM at least GracePeriod before, less what the pass that sent it    *)
(* had taken by then.                                                      *)
(***************************************************************************)
SigkillStep(s) == child[s] = "running" /\ child'[s] = "reaped"

SigkillIsLastResort ==
  [][\A s \in Syncs : SigkillStep(s) =>
       proc[s].termed # None /\ now >= proc[s].termed + GracePeriod - Lag]_vars

(***************************************************************************)
(* Every Sync leads its processes through the life that ChildLife sets     *)
(* out, whenever they end, the signals come and the clock moves, also in   *)
(* the middle of a pass.  All times are real: the daemon goes by the time  *)
(* its pass began, so a process may be given less than it measures out, by *)
(* what a pass takes at most.                                              *)
(***************************************************************************)
Life(s) == INSTANCE ChildLife WITH
  Interval    <- Interval - Lag,
  Timeout     <- Timeout - Lag,
  GracePeriod <- GracePeriod - Lag,
  clock   <- now,
  told    <- terminating[s],
  state   <- CASE child[s] = "zombie" -> "over"
               [] child[s] = "reaped" -> "killed"
               [] OTHER -> child[s],
  since   <- proc[s].since,
  asked   <- proc[s].termed,
  ok      <- exitOk[s],
  success <- succeeded[s]

ChildLives ==
  /\ \A s \in Syncs : Life(s)!Init
  /\ [][\A s \in Syncs : [Life(s)!Next]_(Life(s)!vars)]_vars

(***************************************************************************)
(* From the pass that reads the termination byte on, no Sync starts        *)
(* another sync-client, also not one whose own flag is still to be set.    *)
(***************************************************************************)
StartStep(s) == child[s] = "none" /\ child'[s] = "running"

NoStartWhenTerminating ==
  [][\A s \in Syncs : StartStep(s) =>
       woke # "TERM" /\ \A x \in Syncs : ~terminating[x]]_vars

(***************************************************************************)
(* The daemon never sleeps past a moment at which a Sync has something to  *)
(* do: nothing that happens while it is in select makes an action due      *)
(* before the timeout it computed, unless it also wrote to the pipe.       *)
(***************************************************************************)
NoOversleep ==
  pc = "select" =>
    \A s \in Syncs :
      Finished(s, now) \/ (wakeAt # None /\ wakeAt <= NextAction(s, now).at)

(***************************************************************************)
(* The daemon does not spin: a select that timed out leads to a pass in    *)
(* which some Sync has an action that is due.                              *)
(***************************************************************************)
NoSpin ==
  pc = "update" /\ woke = "timeout" /\ cur = None /\ todo = Syncs =>
    \E s \in Syncs : ~Finished(s, tnow) /\ tnow >= NextAction(s, tnow).at

(***************************************************************************)
(* Nothing comes late, if the loop takes no time: a sync-client process    *)
(* runs for Timeout + GracePeriod at most and survives its SIGTERM by      *)
(* GracePeriod at most; a SIGTERM to the daemon reaches it before the      *)
(* clock moves on, behind however many SIGCHLD bytes; and while no process *)
(* runs the last start is Interval ago at most, unless no more are to run. *)
(***************************************************************************)
Punctual ==
  pc \notin Over =>
    \A s \in Syncs :
      /\ child[s] = "running" =>
           /\ now <= proc[s].since + Timeout + GracePeriod
           /\ proc[s].termed # None => now <= proc[s].termed + GracePeriod
           /\ signals > 0 /\ Asleep => proc[s].termed # None
      /\ child[s] = "none" /\ pc = "select" =>
           \/ terminating[s] \/ (Once /\ succeeded[s])
           \/ now <= IF proc[s].since = None THEN 0 ELSE proc[s].since + Interval

(***************************************************************************)
(* A hung sync-client does not block the device: one that neither finishes *)
(* nor obeys SIGTERM is gone Timeout + GracePeriod after its start, unless *)
(* the daemon itself is: nobody else looks after the child.                *)
(***************************************************************************)
HungChildIsRemoved ==
  \A s \in Syncs, t \in 0 .. MaxTime :
    child[s] = "running" /\ proc[s].since = t /\ t + Timeout + GracePeriod <= MaxTime
      ~> child[s] # "running" \/ proc[s].since # t \/ pc = "crashed"

(***************************************************************************)
(* A SIGTERM ends the daemon within GracePeriod, whatever the child does   *)
(* and however many SIGCHLD bytes are queued before it.                    *)
(***************************************************************************)
TerminationEndsDaemon ==
  (signals > 0 /\ now + GracePeriod <= MaxTime) ~> pc \in Over

(***************************************************************************)
(* Polling goes on: once a sync-client ended, the next one starts Interval *)
(* after the last start, unless the daemon is to stop or --once is done.   *)
(***************************************************************************)
PollingGoesOn ==
  \A s \in Syncs, t \in 0 .. MaxTime :
    child[s] = "none" /\ startTime[s] = t /\ t + Interval <= MaxTime
      ~> \/ startTime[s] # t
         \/ signals > 0
         \/ Once /\ succeeded[s]
         \/ pc = "crashed"
=============================================================================
