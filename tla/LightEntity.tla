---------------------------- MODULE LightEntity ----------------------------
(***************************************************************************)
(* GodoxLight (light.py) over one light: the commands and polls that share *)
(* _command_poll_lock, the sliders that write past it, and the link, which *)
(* serves one write or request at a time in the order of the calls.        *)
(*                                                                         *)
(* Between two awaits of a command nothing else runs, so the end of one    *)
(* link call and the start of the command's next are one step.  A write is *)
(* not acknowledged: it may be lost although the call returns.             *)
(***************************************************************************)
EXTENDS Integers, Sequences

CONSTANTS
  Effects,      \* effects of the model
  NoEffect,
  Controls,     \* which of "tint", "speed", "range", "coordinates", "gel" the model has
  Readback,     \* the node's readback setting
  Attempts,     \* COLOR_WRITE_ATTEMPTS
  MaxMisses,    \* FAILED_POLLS_BEFORE_UNAVAILABLE
  Levels,       \* brightness levels
  Full,         \* the level of 100 %
  Requests,     \* the commands a run explores
  MaxCalls,     \* bound on commands and polls
  MaxMoves      \* bound on slider moves, gels picked, and on what the panel does

Modes == {"cct", "colour"}
Looks == Modes \cup Effects
Gel   == "gel"    \* what a light shows once a gel was picked: no mode, no effect
Keep  == 0        \* the call does not carry a brightness
Unread == -1      \* no status record read yet
Untold == 0       \* no brightness shared since Home Assistant started
Reading == Levels \cup {0}

\* A service call: what it asks the light to show ("plain" is EFFECT_OFF).
Command == [kind : {"on"}, look : Looks \cup {"same", "plain"}, level : Levels \cup {Keep}]
           \cup [kind : {"off"}, look : {"same"}, level : {Keep}]
Poll == [kind |-> "poll", look |-> "same", level |-> Keep]
Job == Command \cup {Poll}

ASSUME LightAssumption ==
  /\ NoEffect \notin Effects /\ Effects \cap {"cct", "colour", "gel"} = {}
  /\ Controls \subseteq {"tint", "speed", "range", "coordinates", "gel"}
  /\ Readback \in BOOLEAN /\ Levels \subseteq Nat \ {0} /\ Full \in Levels
  /\ Requests \subseteq Command
  /\ {Attempts, MaxMisses} \subseteq Nat \ {0} /\ {MaxCalls, MaxMoves} \subseteq Nat

VARIABLES
  waiting,   \* commands Home Assistant has dispatched, not yet at the entity's lock
  jobs,      \* _command_poll_lock: the head holds it
  stage,     \* which await of the head is in progress
  local,     \* locals of turn_on: prev, pct, attempt, reported
  bus,       \* calls waiting for the link; the link serves the head
  ha,        \* the entity's _attr_ fields and _poll_failures, and data.selfie
  shared,    \* data.brightness_pct of the light: what a gel's command will carry
  light,     \* the light itself: leds, what it shows, its level
  added,     \* async_added_to_hass has ended
  used,      \* calls, moves and panel actions so far
  seen       \* history: see SeenType

work == <<waiting, jobs, stage, local>>
vars == <<work, bus, ha, shared, light, added, used, seen>>

Frame == [from : {"job", "slider"}, op : {"on", "off", "show", "status"},
          look : Looks \cup {Gel}, level : Levels]
Entity == [on : BOOLEAN, mode : Modes, effect : Effects \cup {NoEffect}, level : Levels,
           selfie : BOOLEAN, available : BOOLEAN, misses : Nat]
SeenType == [result : {"none", "ok", "unconfirmed", "raised"},  \* how the last job ended
             lost : Nat,          \* power writes of the current or last turn_on lost
             touched : BOOLEAN,   \* the panel acted since that turn_on began
             clean : BOOLEAN,     \* no write was lost, raised or cancelled so far
             set : BOOLEAN,       \* the light has been told what to show
             astray : BOOLEAN,    \* a slider ended an effect behind Home Assistant's back, or
                                  \* changed the mode of a light that was just being turned on
             apart : BOOLEAN]     \* no turn_on's frame arrived yet, or since one last arrived another
                                  \* was lost, a command raised, or the panel changed the level

TypeOK == /\ waiting \in Seq(Job) /\ jobs \in Seq(Job)
          /\ stage \in {"start", "power", "body", "again", "settle", "check", "resend"}
          /\ local \in [prev : Levels, pct : Levels, attempt : 0 .. Attempts,
                        reported : Reading \cup {Unread}]
          /\ bus \in Seq(Frame)
          /\ \A i, j \in 1 .. Len(bus) :
               bus[i].from = "job" /\ bus[j].from = "job" => i = j
          /\ ha \in Entity
          /\ shared \in Levels \cup {Untold}
          /\ light \in [leds : BOOLEAN, look : Looks \cup {Gel}, level : Reading]
          /\ added \in BOOLEAN
          /\ used \in [calls : 0 .. MaxCalls, moves : 0 .. MaxMoves]
          /\ seen \in SeenType

-----------------------------------------------------------------------------
\* The values the last run of Home Assistant left, or the defaults.
Restored == [on : BOOLEAN, mode : Modes, effect : Effects \cup {NoEffect}, level : Levels,
             selfie : IF "range" \in Controls THEN BOOLEAN ELSE {FALSE},
             available : {TRUE}, misses : {0}]

\* With readback the entity polls once before it restores.
Init == /\ waiting = <<>> /\ stage = "start" /\ bus = <<>>
        /\ added = ~Readback
        /\ jobs = IF Readback THEN <<Poll>> ELSE <<>>
        /\ \E level \in Levels :
             local = [prev |-> level, pct |-> level, attempt |-> 0, reported |-> Unread]
        /\ ha \in IF Readback THEN {r \in Restored : ~r.on /\ r.effect = NoEffect} ELSE Restored
        /\ shared = Untold
        /\ light \in [leds : BOOLEAN, look : Looks \cup {Gel}, level : Levels]
        /\ used = [calls |-> 0, moves |-> 0]
        /\ seen = [result |-> "none", lost |-> 0, touched |-> FALSE, clean |-> TRUE,
                   set |-> FALSE, astray |-> FALSE, apart |-> TRUE]

\* The frames the entity builds from its attributes: the colour frame of its
\* mode, and the one a turn_on sends for an effect or for the mode.
Aspect(e) == IF e.effect # NoEffect THEN e.effect ELSE e.mode
Write(from, op, look, level) == [from |-> from, op |-> op, look |-> look, level |-> level]
Send(op, look, level) == Append(Tail(bus), Write("job", op, look, level))

Reachable(e) == [e EXCEPT !.misses = 0, !.available = TRUE]

\* What a frame that arrives does to the light.
Obeyed(f) == CASE f.op = "on"   -> [light EXCEPT !.leds = TRUE]
               [] f.op = "off"  -> [light EXCEPT !.leds = FALSE]
               [] f.op = "show" -> [light EXCEPT !.look = f.look, !.level = f.level]
               [] OTHER         -> light

-----------------------------------------------------------------------------
\* Home Assistant passes a command on only to an available entity, one at a
\* time on the platform (PARALLEL_UPDATES); polls come straight from a timer.
Dispatch(job) == /\ added /\ ha.available /\ used.calls < MaxCalls
                 /\ used' = [used EXCEPT !.calls = @ + 1]
                 /\ waiting' = Append(waiting, job)
                 /\ UNCHANGED <<jobs, stage, local, bus, ha, light, shared, added, seen>>

Enter == /\ waiting # <<>>
         /\ \A i \in 1 .. Len(jobs) : jobs[i].kind = "poll"
         /\ jobs' = Append(jobs, Head(waiting)) /\ waiting' = Tail(waiting)
         /\ UNCHANGED <<stage, local, bus, ha, light, shared, added, used, seen>>

\* Mutant: the poll does not wait for the command in progress.
PollDueUnlocked == /\ added /\ Readback /\ light.level # 0
                   /\ ha' = [Reachable(ha) EXCEPT !.level = light.level]
                   /\ UNCHANGED <<work, bus, light, shared, added, used, seen>>

PollDue == /\ added /\ Readback /\ used.calls < MaxCalls
           /\ used' = [used EXCEPT !.calls = @ + 1]
           /\ jobs' = Append(jobs, Poll)
           /\ UNCHANGED <<waiting, stage, local, bus, ha, light, shared, added, seen>>

Holds(kind) == jobs # <<>> /\ Head(jobs).kind = kind
Leave == jobs' = Tail(jobs) /\ stage' = "start"

\* turn_on first puts the request into the attributes.
Asked(job) ==
  [ha EXCEPT !.mode = IF job.look \in Modes THEN job.look ELSE @,
             !.effect = IF job.look \in Effects THEN job.look
                        ELSE IF job.look = "same" THEN @ ELSE NoEffect,
             !.level = IF job.level = Keep THEN @ ELSE job.level]

StartOn == /\ stage = "start" /\ Holds("on")
           /\ ha' = Asked(Head(jobs))
           /\ local' = [prev |-> ha.level, pct |-> ha'.level, attempt |-> 0, reported |-> Unread]
           /\ bus' = Append(bus, Write("job", "on", Aspect(ha'), ha'.level))
           /\ stage' = "power"
           /\ seen' = [seen EXCEPT !.result = "none", !.lost = 0, !.touched = FALSE]
           /\ UNCHANGED <<waiting, jobs, light, shared, added, used>>

StartOff == /\ stage = "start" /\ Holds("off")
            /\ bus' = Append(bus, Write("job", "off", Aspect(ha), ha.level))
            /\ stage' = "power"
            /\ seen' = [seen EXCEPT !.result = "none"]
            /\ UNCHANGED <<waiting, jobs, local, ha, light, shared, added, used>>

StartPoll == /\ stage = "start" /\ Holds("poll")
             /\ bus' = Append(bus, Write("job", "status", Aspect(ha), ha.level))
             /\ stage' = "check"
             /\ seen' = [seen EXCEPT !.result = "none"]
             /\ UNCHANGED <<waiting, jobs, local, ha, light, shared, added, used>>

-----------------------------------------------------------------------------
\* The link serves its head.  A write that returns arrived or was lost.
Served(from) == bus # <<>> /\ Head(bus).from = from

Written == /\ Served("job")
           /\ light' \in {Obeyed(Head(bus)), light}
           /\ LET gone == light' # Obeyed(Head(bus)) IN
              seen' = [seen EXCEPT !.lost = IF gone /\ Head(bus).op = "on" THEN @ + 1 ELSE @,
                                   !.clean = @ /\ ~gone,
                                   !.set = @ \/ Head(bus).op = "show",
                                   !.apart = IF Head(bus).op = "show" THEN gone ELSE @]

\* Mutant: the level is not shared.
PowerDoneUnshared == /\ stage = "power" /\ Holds("on")
                     /\ Written
                     /\ local' = [local EXCEPT !.pct = ha.level]
                     /\ bus' = Send("show", Aspect(ha), ha.level)
                     /\ stage' = "body"
                     /\ UNCHANGED <<waiting, jobs, ha, shared, added, used>>

\* _async_turn_on_locked after the first FE: share the level, then send the effect
\* or the colour frame.
PowerDone == /\ stage = "power" /\ Holds("on")
             /\ Written
             /\ local' = [local EXCEPT !.pct = ha.level]
             /\ shared' = ha.level
             /\ bus' = Send("show", Aspect(ha), ha.level)
             /\ stage' = "body"
             /\ UNCHANGED <<waiting, jobs, ha, added, used>>

\* A brightness is confirmed where a status record can show it.
Confirmable(job, e) == /\ job.level # Keep /\ Readback
                       /\ e.effect = NoEffect /\ e.mode = "cct" /\ ~e.selfie

Finish == /\ Leave
          /\ ha' = [Reachable(ha) EXCEPT !.on = TRUE]

\* Mutant: the command ends with the colour frame.
BodyDoneOnce == /\ stage = "body"
                /\ Served("job")
                /\ light' \in {Obeyed(Head(bus)), light}
                /\ bus' = Tail(bus)
                /\ seen' = [seen EXCEPT !.result = "ok", !.set = TRUE,
                                        !.clean = @ /\ light' = Obeyed(Head(bus))]
                /\ Finish
                /\ UNCHANGED <<waiting, local, shared, added, used>>

\* The power write is repeated, so that a lost first one does not matter.
BodyDone == /\ stage = "body" /\ Written
            /\ bus' = Send("on", Aspect(ha), ha.level)
            /\ stage' = "again"
            /\ UNCHANGED <<waiting, jobs, local, ha, shared, added, used>>

AgainConfirms == /\ stage = "again" /\ Confirmable(Head(jobs), ha)
                 /\ Written
                 /\ bus' = Tail(bus)
                 /\ ha' = [ha EXCEPT !.on = TRUE]
                 /\ local' = [local EXCEPT !.attempt = 1]
                 /\ stage' = "settle"
                 /\ UNCHANGED <<waiting, jobs, shared, added, used>>

AgainFinishes ==
  /\ stage = "again" /\ ~Confirmable(Head(jobs), ha)
  /\ Served("job")
  /\ light' \in {Obeyed(Head(bus)), light}
  /\ bus' = Tail(bus)
  /\ seen' = [seen EXCEPT !.result = "ok",
                          !.lost = IF light' = Obeyed(Head(bus)) THEN @ ELSE @ + 1,
                          !.clean = @ /\ light' = Obeyed(Head(bus))]
  /\ Finish
  /\ UNCHANGED <<waiting, local, shared, added, used>>

OffDone == /\ stage = "power" /\ Holds("off")
           /\ Written
           /\ bus' = Tail(bus)
           /\ Leave
           /\ ha' = [Reachable(ha) EXCEPT !.on = FALSE]
           /\ UNCHANGED <<waiting, local, shared, added, used>>

-----------------------------------------------------------------------------
\* _async_confirm_brightness: wait, read, compare, write again.
Settled == /\ stage = "settle"
           /\ bus' = Append(bus, Write("job", "status", Aspect(ha), local.pct))
           /\ stage' = "check"
           /\ UNCHANGED <<waiting, jobs, local, ha, light, shared, added, used, seen>>

CheckMatches == /\ stage = "check" /\ Holds("on") /\ Served("job")
                /\ light.level = local.pct
                /\ bus' = Tail(bus)
                /\ local' = [local EXCEPT !.reported = light.level]
                /\ seen' = [seen EXCEPT !.result = "ok"]
                /\ Finish
                /\ UNCHANGED <<waiting, light, shared, added, used>>

\* Another level was read, or no reply came.
Unconfirmed == /\ stage = "check" /\ Holds("on") /\ Served("job")
               /\ \/ /\ light.level # local.pct
                     /\ local' = [local EXCEPT !.reported = light.level, !.attempt = @ + 1]
                  \/ local' = [local EXCEPT !.attempt = @ + 1]
               /\ light' = light

CheckRetries == /\ local.attempt < Attempts
                /\ Unconfirmed
                /\ bus' = Send("show", ha.mode, local.pct)
                /\ stage' = "resend"
                /\ UNCHANGED <<waiting, jobs, ha, shared, added, used, seen>>

\* Mutant: the requested level is left showing.
CheckFailsSilently ==
  /\ local.attempt = Attempts
  /\ stage = "check" /\ Holds("on") /\ Served("job")
  /\ local' \in {local} \cup (IF light.level = local.pct THEN {}
                              ELSE {[local EXCEPT !.reported = light.level]})
  /\ bus' = Tail(bus)
  /\ Leave
  /\ seen' = [seen EXCEPT !.result = "unconfirmed", !.clean = FALSE, !.apart = TRUE]
  /\ UNCHANGED <<waiting, ha, light, shared, added, used>>

\* The last attempt: show what was measured and raise.
CheckFails ==
  /\ local.attempt = Attempts
  /\ stage = "check" /\ Holds("on") /\ Served("job")
  /\ local' \in {local} \cup (IF light.level = local.pct THEN {}
                              ELSE {[local EXCEPT !.reported = light.level]})
  /\ IF local'.reported \in Levels
     THEN /\ ha' = [Reachable(ha) EXCEPT !.level = local'.reported]
          /\ shared' = local'.reported
     ELSE /\ ha' = [ha EXCEPT !.level = local.prev]
          /\ UNCHANGED shared
  /\ bus' = Tail(bus)
  /\ Leave
  /\ seen' = [seen EXCEPT !.result = "unconfirmed", !.clean = FALSE, !.apart = TRUE]
  /\ UNCHANGED <<waiting, light, added, used>>

ResendDone == /\ stage = "resend" /\ Written
              /\ bus' = Tail(bus)
              /\ stage' = "settle"
              /\ UNCHANGED <<waiting, jobs, local, ha, shared, added, used>>

\* Mutant: a write that raises leaves the entity's lock held.
WriteRaisesHolding ==
  /\ stage \in {"power", "body", "again", "resend"} /\ Served("job")
  /\ light' \in {light, Obeyed(Head(bus))}
  /\ bus' = Tail(bus)
  /\ seen' = [seen EXCEPT !.result = "raised", !.clean = FALSE, !.apart = TRUE]
  /\ UNCHANGED <<work, ha, shared, added, used>>

\* A write raises: nothing of the attributes is taken back.
WriteRaises ==
  /\ stage \in {"power", "body", "again", "resend"} /\ Served("job")
  /\ light' \in {light, Obeyed(Head(bus))}
  /\ bus' = Tail(bus)
  /\ Leave
  /\ seen' = [seen EXCEPT !.result = "raised", !.clean = FALSE, !.apart = TRUE]
  /\ UNCHANGED <<waiting, local, ha, shared, added, used>>

\* The calls left when the holder of the entity's lock waits for the link no more.
Withdrawn ==
  IF \E i \in 1 .. Len(bus) : bus[i].from = "job"
  THEN LET own == CHOOSE i \in 1 .. Len(bus) : bus[i].from = "job"
       IN [i \in 1 .. Len(bus) - 1 |-> bus[IF i < own THEN i ELSE i + 1]]
  ELSE bus

\* The command is cancelled at whatever it awaits.
CancelCommand ==
  /\ stage # "start" /\ ~Holds("poll")
  /\ light' \in {light} \cup (IF Served("job") THEN {Obeyed(Head(bus))} ELSE {})
  /\ bus' = Withdrawn
  /\ Leave
  /\ seen' = [seen EXCEPT !.result = "raised", !.clean = FALSE, !.apart = TRUE]
  /\ UNCHANGED <<waiting, local, ha, shared, added, used>>

-----------------------------------------------------------------------------
\* Restoring follows the first poll at once, and replaces what it read.
AfterPoll(e) == /\ ha' \in IF added THEN {e}
                           ELSE {[e EXCEPT !.on = r.on, !.mode = r.mode, !.effect = r.effect,
                                           !.level = r.level] : r \in Restored}
                /\ added' = TRUE

PollAnswers == /\ stage = "check" /\ Holds("poll") /\ Served("job")
               /\ AfterPoll([Reachable(ha) EXCEPT
                               !.level = IF light.level = 0 THEN @ ELSE light.level])
               /\ bus' = Tail(bus)
               /\ Leave
               /\ UNCHANGED <<waiting, local, shared, light, used, seen>>

PollSilent == /\ stage = "check" /\ Holds("poll") /\ Served("job")
              /\ AfterPoll([ha EXCEPT !.misses = @ + 1,
                                      !.available = @ /\ ha.misses + 1 < MaxMisses])
              /\ bus' = Tail(bus)
              /\ Leave
              /\ UNCHANGED <<waiting, local, shared, light, used, seen>>

-----------------------------------------------------------------------------
\* A slider's signal starts a task that goes straight to the link.
Moves(control) == /\ control \in Controls /\ added /\ used.moves < MaxMoves
                  /\ used' = [used EXCEPT !.moves = @ + 1]
                  /\ UNCHANGED <<work, light, shared, added>>

TintMoves == /\ Moves("tint")
             /\ ha.on /\ ha.mode = "cct"
             /\ bus' = Append(bus, Write("slider", "show", ha.mode, ha.level))
             /\ seen' = [seen EXCEPT !.astray = @ \/ ha.effect # NoEffect]
             /\ UNCHANGED ha

SpeedMoves == /\ Moves("speed")
              /\ ha.on /\ ha.effect # NoEffect
              /\ bus' = Append(bus, Write("slider", "show", ha.effect, ha.level))
              /\ UNCHANGED <<ha, seen>>

RangeSwitches == /\ Moves("range")
                 /\ \E selfie \in BOOLEAN :
                      ha' = [ha EXCEPT !.mode = "cct", !.effect = NoEffect, !.selfie = selfie]
                 /\ bus' = IF ha.on THEN Append(bus, Write("slider", "show", "cct", ha.level))
                                    ELSE bus
                 /\ seen' = [seen EXCEPT !.astray = @ \/ (~ha.on /\ Holds("on"))]

\* Mutant: the coordinate slider leaves the effect in the attributes.
CoordinatesMoveOver == /\ Moves("coordinates")
                       /\ ha.on
                       /\ ha' = [ha EXCEPT !.mode = "colour"]
                       /\ bus' = Append(bus, Write("slider", "show", "colour", ha.level))
                       /\ UNCHANGED seen

CoordinatesMove == /\ Moves("coordinates")
                   /\ ha.on
                   /\ ha' = [ha EXCEPT !.mode = "colour", !.effect = NoEffect]
                   /\ bus' = Append(bus, Write("slider", "show", "colour", ha.level))
                   /\ UNCHANGED seen

\* A gel is picked: the select's command carries the level that was last shared.
GelLevel == IF shared = Untold THEN Full ELSE shared

GelPicked == /\ Moves("gel")
             /\ bus' = Append(bus, Write("slider", "show", Gel, GelLevel))
             /\ UNCHANGED <<ha, seen>>

SliderDone == /\ Served("slider")
              /\ light' \in {Obeyed(Head(bus)), light}
              /\ bus' = Tail(bus)
              /\ seen' = [seen EXCEPT !.clean = @ /\ light' = Obeyed(Head(bus)), !.set = TRUE]
              /\ UNCHANGED <<work, ha, shared, added, used>>

\* Somebody uses the light's own controls.
Panel == /\ used.moves < MaxMoves
         /\ used' = [used EXCEPT !.moves = @ + 1]
         /\ \/ light' = [light EXCEPT !.leds = ~@]
            \/ \E level \in Reading : light' = [light EXCEPT !.level = level]
         /\ seen' = [seen EXCEPT !.touched = TRUE, !.apart = @ \/ light'.level # light.level]
         /\ UNCHANGED <<work, bus, ha, shared, added>>

-----------------------------------------------------------------------------
Step == \/ StartOn \/ StartOff \/ StartPoll
        \/ PowerDone \/ BodyDone \/ AgainConfirms \/ AgainFinishes \/ OffDone
        \/ Settled \/ CheckMatches \/ CheckRetries \/ CheckFails \/ ResendDone
        \/ WriteRaises \/ PollAnswers \/ PollSilent
        \/ SliderDone

Next == \/ \E job \in Requests : Dispatch(job)
        \/ Enter \/ PollDue
        \/ Step
        \/ CancelCommand
        \/ TintMoves \/ SpeedMoves \/ RangeSwitches \/ CoordinatesMove \/ GelPicked
        \/ Panel

Spec == Init /\ [][Next]_vars

-----------------------------------------------------------------------------
\* light.py:439: a turn_on that ends well leaves the LEDs on although one of its
\* power writes was lost, unless somebody used the panel meanwhile.
LedsAreOn == seen.result = "ok" /\ seen.lost <= 1 /\ ~seen.touched => light.leds

\* light.py:109: no poll comes between the writes of a command: from the first to
\* the last of them the level is the one that was asked for.
LevelStands ==
  Holds("on") /\ Head(jobs).level # Keep /\ stage \notin {"start", "power"}
    => ha.level = Head(jobs).level /\ local.pct = Head(jobs).level

\* light.py:512: a command that confirmed its level, or failed to, leaves Home
\* Assistant at the level the light last reported, and a gel picked next would carry
\* that level too.
ShowsWhatWasMeasured ==
  seen.result \in {"ok", "unconfirmed"} /\ local.reported \in Levels
    => ha.level = local.reported /\ shared = local.reported

\* light.py:90, "they show what was last commanded": once all is quiet, and as long
\* as no call failed and no write was lost, a light that is on shows the mode or
\* the effect that Home Assistant displays, or the gel that was picked last, whatever
\* the sliders did meanwhile.  Two moves are astray: a tint change while an effect runs
\* sends a frame that ends it, and a range switched while the light is being turned on
\* is not sent at all.
ShowsWhatWasCommanded ==
  jobs = <<>> /\ bus = <<>> /\ ha.on /\ seen.clean /\ seen.set /\ ~seen.astray
    => light.look \in {Aspect(ha), Gel}

\* select.py:169, "picking a gel does not also change how bright the room is": once all
\* is quiet, a gel picked for a light that was told its level carries the level the
\* light has, whatever commands, sliders, earlier gels, polls and lost power writes came
\* between.  It may not before a turn_on's frame has arrived, after one was lost, after a
\* command that raised (light.py:514), and after the panel changed the level, which a
\* poll shows but does not share (light.py:673): until the next turn_on's frame arrives.
GelKeepsLevel == jobs = <<>> /\ bus = <<>> /\ ~seen.apart => light.level = GelLevel

\* light.py:387: whoever holds the entity's lock, beyond its first step, waits for a
\* call the link will answer or for a sleep to end: no command or poll that raised or
\* was cancelled still holds it, and none goes on without it.
HolderIsServed ==
  stage \notin {"start", "settle"} <=> \E i \in 1 .. Len(bus) : bus[i].from = "job"
=============================================================================
