------------------------------ MODULE MeshLink ------------------------------
(***************************************************************************)
(* GodoxMeshLink (mesh.py): everything that takes the link's lock.  The    *)
(* lock is an asyncio.Lock, so its waiters are served in the order of      *)
(* their calls: queue holds the callers, its head holds the lock.  The     *)
(* holder suspends at the awaits that stage names; other callers, the idle *)
(* timer, the radio and cancellations act in between.                      *)
(*                                                                         *)
(* The gateway loop behind "connecting" is GatewaySelection, the numbers   *)
(* behind "operating" are MeshSequence.                                    *)
(***************************************************************************)
EXTENDS Integers, Sequences, SequencesExt

CONSTANTS
  MaxFailures,   \* MAX_CONSECUTIVE_FAILURES
  MaxCalls       \* bound on the calls a run explores

ASSUME LinkAssumption == MaxFailures \in Nat \ {0} /\ MaxCalls \in Nat

NoTimer == -1   \* no idle disconnect is scheduled

VARIABLES
  queue,      \* callers of the lock, oldest first; an idle one carries the activity it captured
  stage,      \* where the holder is suspended
  connected,  \* controller.is_connected
  timer,      \* activity captured by the armed idle timer, or NoTimer
  activity,   \* _activity
  failures,   \* _consecutive_failures
  shutdown,   \* _shutdown
  calls,      \* calls made so far
  quiet,      \* history: an idle period has passed since the last success
  strikes,    \* history: commands failed in a row on this connection
  last        \* history: how the last command to use a connection ended

session == <<activity, failures, quiet, strikes, last>>
vars == <<queue, stage, connected, timer, shutdown, calls, session>>

Kind   == {"command", "provision", "idle", "release", "shutdown"}
Caller == [kind : Kind, at : Nat]
Stage  == {"waiting", "connecting", "operating", "provisioning", "closing"}

TypeOK == /\ queue \in Seq(Caller)
          /\ stage \in Stage
          /\ queue = <<>> => stage = "waiting"
          /\ connected \in BOOLEAN
          /\ timer \in Nat \cup {NoTimer}
          /\ activity \in Nat
          /\ failures \in Nat
          /\ shutdown \in BOOLEAN
          /\ calls \in 0 .. MaxCalls
          /\ quiet \in BOOLEAN
          /\ strikes \in Nat
          /\ last \in {"success", "failed", "cancelled"}

Init == /\ queue = <<>> /\ stage = "waiting"
        /\ connected = FALSE /\ timer = NoTimer
        /\ activity = 0 /\ failures = 0
        /\ shutdown = FALSE /\ calls = 0
        /\ quiet = TRUE /\ strikes = 0 /\ last = "success"

Holds(kind) == queue # <<>> /\ Head(queue).kind = kind

\* The holder releases the lock and the next caller is woken.
Leave == queue' = Tail(queue) /\ stage' = "waiting"

-----------------------------------------------------------------------------
\* A coroutine reaches the lock.  release and shutdown cancel the idle timer
\* before they wait; a command does so only once it holds the lock.
Call(kind) ==
  /\ calls < MaxCalls
  /\ calls' = calls + 1
  /\ queue' = Append(queue, [kind |-> kind, at |-> 0])
  /\ timer' = IF kind \in {"release", "shutdown"} THEN NoTimer ELSE timer
  /\ UNCHANGED <<stage, connected, shutdown, session>>

\* async_call_later starts the coroutine at once, and the first thing it does
\* is cancel its own handle.  Next to an idle period, handing the lock to the
\* next caller takes no time.
TimerFires ==
  /\ timer # NoTimer
  /\ queue = <<>> \/ stage # "waiting"
  /\ timer' = NoTimer
  /\ queue' = Append(queue, [kind |-> "idle", at |-> timer])
  /\ quiet' = TRUE
  /\ UNCHANGED <<stage, connected, activity, failures, shutdown, calls, strikes, last>>

-----------------------------------------------------------------------------
\* The holder's first step.
Refuse == /\ stage = "waiting"
          /\ Holds("command") \/ Holds("provision")
          /\ shutdown
          /\ Leave
          /\ UNCHANGED <<connected, timer, shutdown, calls, session>>

\* Mutant: the shutdown check is made before waiting for the lock.
StartCommandUnchecked ==
  /\ stage = "waiting" /\ Holds("command")
  /\ timer' = NoTimer
  /\ stage' = IF connected THEN "operating" ELSE "connecting"
  /\ UNCHANGED <<queue, connected, shutdown, calls, session>>

StartCommand == /\ stage = "waiting" /\ Holds("command")
                /\ ~shutdown
                /\ timer' = NoTimer
                /\ stage' = IF connected THEN "operating" ELSE "connecting"
                /\ UNCHANGED <<queue, connected, shutdown, calls, session>>

\* A provisioning session talks to the new light over a connection of its own.
StartProvision == /\ stage = "waiting" /\ Holds("provision")
                  /\ ~shutdown
                  /\ stage' = "provisioning"
                  /\ UNCHANGED <<queue, connected, timer, shutdown, calls, session>>

\* Mutant: the idle callback trusts the timer.
StartIdleTrusting == /\ stage = "waiting" /\ Holds("idle")
                     /\ stage' = "closing"
                     /\ UNCHANGED <<queue, connected, timer, shutdown, calls, session>>

\* A command ran while the timer waited for the lock: arm it afresh.
StartIdle == /\ stage = "waiting" /\ Holds("idle")
             /\ IF Head(queue).at # activity
                THEN timer' = activity /\ Leave
                ELSE stage' = "closing" /\ UNCHANGED <<queue, timer>>
             /\ UNCHANGED <<connected, shutdown, calls, session>>

StartRelease == /\ stage = "waiting" /\ Holds("release")
                /\ stage' = "closing"
                /\ UNCHANGED <<queue, connected, timer, shutdown, calls, session>>

\* Mutant: nothing to do when no connection is open.
StartShutdownLazily == /\ stage = "waiting" /\ Holds("shutdown")
                       /\ IF connected THEN shutdown' = TRUE /\ stage' = "closing" /\ UNCHANGED queue
                                       ELSE Leave /\ UNCHANGED shutdown
                       /\ UNCHANGED <<connected, timer, calls, session>>

StartShutdown == /\ stage = "waiting" /\ Holds("shutdown")
                 /\ shutdown' = TRUE
                 /\ stage' = "closing"
                 /\ UNCHANGED <<queue, connected, timer, calls, session>>

-----------------------------------------------------------------------------
\* _async_connect returns, or raises with the half-open session closed: the
\* path of DeviceNotFound does not count as a failure, but both end in a close.
Connects == /\ stage = "connecting"
            /\ connected' = TRUE
            /\ strikes' = 0
            /\ stage' = "operating"
            /\ UNCHANGED <<queue, timer, activity, failures, shutdown, calls, quiet, last>>

ConnectFails == /\ stage = "connecting"
                /\ failures' \in {failures, failures + 1}
                /\ stage' = "closing"
                /\ UNCHANGED <<queue, connected, timer, activity, shutdown, calls,
                               quiet, strikes, last>>

\* Mutant: a success that does not arm the idle timer.
SucceedsUnscheduled == /\ stage = "operating"
                       /\ activity' = activity + 1
                       /\ failures' = 0 /\ strikes' = 0
                       /\ quiet' = FALSE /\ last' = "success"
                       /\ Leave
                       /\ UNCHANGED <<connected, timer, shutdown, calls>>

\* The operation returned; the connection may have dropped meanwhile.
Succeeds == /\ stage = "operating"
            /\ activity' = activity + 1
            /\ failures' = 0 /\ strikes' = 0
            /\ quiet' = FALSE /\ last' = "success"
            /\ timer' = activity'
            /\ Leave
            /\ UNCHANGED <<connected, shutdown, calls>>

\* Mutant: one failure too many is tolerated.
FailsLate == /\ stage = "operating"
             /\ failures' = failures + 1
             /\ strikes' = strikes + 1 /\ last' = "failed"
             /\ IF connected /\ failures' <= MaxFailures
                THEN Leave
                ELSE stage' = "closing" /\ UNCHANGED queue
             /\ UNCHANGED <<connected, timer, activity, shutdown, calls, quiet>>

\* The operation raised.  A live connection survives until failures run up.
Fails == /\ stage = "operating"
         /\ failures' = failures + 1
         /\ strikes' = strikes + 1 /\ last' = "failed"
         /\ IF connected /\ failures' < MaxFailures
            THEN Leave
            ELSE stage' = "closing" /\ UNCHANGED queue
         /\ UNCHANGED <<connected, timer, activity, shutdown, calls, quiet>>

ProvisionEnds == /\ stage = "provisioning"
                 /\ Leave
                 /\ UNCHANGED <<connected, timer, shutdown, calls, session>>

\* Mutant: a disconnect that raises keeps the old client.
ClosedLeaky == /\ stage = "closing"
               /\ connected' \in {connected, FALSE}
               /\ strikes' = 0
               /\ failures' = IF Holds("command") THEN 0 ELSE failures
               /\ Leave
               /\ UNCHANGED <<timer, activity, shutdown, calls, quiet, last>>

\* _async_close swallows what disconnect raises; the client is gone either way.
Closed == /\ stage = "closing"
          /\ connected' = FALSE
          /\ strikes' = 0
          /\ failures' = IF Holds("command") THEN 0 ELSE failures
          /\ Leave
          /\ UNCHANGED <<timer, activity, shutdown, calls, quiet, last>>

-----------------------------------------------------------------------------
\* CancelledError is not an Exception: no branch of _async_run sees it, only
\* the lock is released.  connect tears a half-open session down; a close that
\* is cancelled while a control write settles leaves the connection open.
CancelHolder ==
  /\ Holds("command") \/ Holds("provision")
  /\ stage # "waiting"
  /\ connected' \in IF stage = "closing" THEN {connected, FALSE} ELSE {connected}
  /\ last' = IF stage \in {"operating", "closing"} THEN "cancelled" ELSE last
  /\ Leave
  /\ UNCHANGED <<timer, activity, failures, shutdown, calls, quiet, strikes>>

CancelWaiter ==
  \E i \in 1 .. Len(queue) :
    /\ queue[i].kind \in {"command", "provision"}
    /\ i = 1 => stage = "waiting"
    /\ queue' = RemoveAt(queue, i)
    /\ UNCHANGED <<stage, connected, timer, shutdown, calls, session>>

\* The light, the radio or the adapter ends the connection.
Drop == /\ connected
        /\ connected' = FALSE
        /\ UNCHANGED <<queue, stage, timer, shutdown, calls, session>>

-----------------------------------------------------------------------------
Holder == \/ Refuse \/ StartCommand \/ StartProvision
          \/ StartIdle \/ StartRelease \/ StartShutdown
          \/ Connects \/ ConnectFails \/ Succeeds \/ Fails
          \/ ProvisionEnds \/ Closed

Next == \/ \E kind \in Kind \ {"idle"} : Call(kind)
        \/ TimerFires
        \/ Holder
        \/ CancelHolder \/ CancelWaiter
        \/ Drop

Spec == Init /\ [][Next]_vars

\* Every await of a holder is bounded by a timeout of the library or of the
\* Bluetooth stack, and an armed timer fires.
FairSpec == Spec /\ WF_vars(Holder) /\ WF_vars(TimerFires)

-----------------------------------------------------------------------------
\* The idle timer never closes a connection that a command used after the timer
\* was armed, however long either of them waited for the lock.
IdleCloseIsIdle == stage = "closing" /\ Holds("idle") => quiet

\* Once shutdown has taken the lock nothing opens a connection or uses one
\* again, whoever was already queued behind it.
ShutDownStaysDown == shutdown => /\ stage \in {"waiting", "closing"}
                                 /\ connected => stage = "closing"

\* A wedged proxy is let go of: no MaxFailures commands in a row fail on one
\* connection that is then offered to the next.  Only a cancellation that hits
\* the close itself leaves it to the failure after that one.
WedgeIsCut == connected /\ last = "failed" /\ stage # "closing" => strikes < MaxFailures

\* A connection nobody is using, last used with success, always has someone
\* coming to close it.
SomeoneWillClose ==
  queue = <<>> /\ connected /\ last = "success" => timer = activity

\* ... and it is closed, unless a command that did not succeed takes it over.
IdleConnectionIsReleased == 
  (connected /\ last = "success") ~> (~connected \/ last # "success")

\* Unload and Home Assistant's stop event get through: whatever is queued, the
\* link ends up shut down with no connection.
ShutdownCompletes ==
  (\E i \in 1 .. Len(queue) : queue[i].kind = "shutdown") ~> (shutdown /\ ~connected)

-----------------------------------------------------------------------------
\* A statement of the repository that the code does not keep.  README.md:183: "The
\* connection is held for five minutes of idle time, then released".
HeldThenReleased == connected ~> ~connected
=============================================================================
