------------------------------ MODULE ChildLife -----------------------------
(***************************************************************************)
(* The sync-client processes of one Sync, one after the other, as these    *)
(* and the administrator see them: one at a time, Interval apart, asked to *)
(* stop once and not without reason, killed only if they did not, and a    *)
(* success only if they ended by themselves with exit status 0.            *)
(***************************************************************************)
EXTENDS Integers

CONSTANTS
  Once,         \* no further process after a success
  Interval,     \* the least time between two starts
  Timeout,      \* the least time before a process is asked to stop for taking long
  GracePeriod,  \* the least time between being asked to stop and being killed
  None

VARIABLES
  clock,    \* the time
  told,     \* was this Sync told to terminate?
  state,    \* of the process: "none", "running", "over" or "killed" until polled
  since,    \* when it, or the last one, was started
  asked,    \* when it was sent SIGTERM
  ok,       \* did it end with exit status 0?
  success   \* did one of them, as far as the daemon has seen?

process == <<state, since, asked, ok>>
vars    == <<clock, told, process, success>>

Init ==
  /\ clock = 0 /\ ~told
  /\ state = "none" /\ since = None /\ asked = None
  /\ ok = FALSE /\ success = FALSE

TimePasses ==
  /\ clock' \in Int /\ clock' >= clock
  /\ UNCHANGED <<told, process, success>>

Start ==
  /\ state = "none" /\ ~told
  /\ since # None => clock >= since + Interval /\ ~(Once /\ success)
  /\ state' = "running" /\ since' = clock /\ asked' = None
  /\ UNCHANGED <<clock, told, ok, success>>

Ask ==
  /\ state # "none" /\ asked = None
  /\ told \/ clock >= since + Timeout
  /\ asked' = clock
  /\ UNCHANGED <<clock, told, state, since, ok, success>>

End(good) ==
  /\ state = "running"
  /\ state' = "over" /\ ok' = good
  /\ UNCHANGED <<clock, told, since, asked, success>>

\* One that ended just before keeps its exit status.
Kill ==
  /\ state \in {"running", "over"}
  /\ asked # None /\ clock >= asked + GracePeriod
  /\ state' = "killed" /\ ok' = (ok /\ state = "over")
  /\ UNCHANGED <<clock, told, since, asked, success>>

\* The daemon reads why it woke up and polls the process.
Poll ==
  /\ told' \in {told, TRUE}
  /\ IF state \in {"over", "killed"} THEN state' = "none" /\ success' = (success \/ ok)
     ELSE UNCHANGED <<state, success>>
  /\ UNCHANGED <<clock, since, asked, ok>>

Next ==
  \/ TimePasses
  \/ Start
  \/ Ask
  \/ \E good \in BOOLEAN : End(good)
  \/ Kill
  \/ Poll

Spec == Init /\ [][Next]_vars
=============================================================================
