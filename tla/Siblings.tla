----------------------------- MODULE Siblings ------------------------------
(***************************************************************************)
(* The controls of one light beside each other: the light entity and the   *)
(* number, select and switch entities of its device, which share the       *)
(* values of GodoxRuntimeData (models.py) and write over one link.  Here   *)
(* every frame carries its values, and the light keeps what the last frame *)
(* of each family said.  The level is that of a light without polls and    *)
(* without failed confirmations: those, the entity lock and the level that *)
(* a gel carries after them are in LightEntity.                            *)
(*                                                                         *)
(* Home Assistant runs one command of the light platform at a time, one of *)
(* the select platform and one of the switch platform (PARALLEL_UPDATES),  *)
(* and a number's setter does not wait.  The link serves calls in order.   *)
(***************************************************************************)
EXTENDS LightCommands

CONSTANTS
  Devices,    \* each a row of the table, the node's use_xy setting, the turn_on calls
              \* of a run (what they ask, its value as a tuple, a level or 0), the effects
              \* it may come back with and its lesser controls
  NoEffect,
  Levels,     \* the brightness the light comes back with, in tenths of a percent
  Points,     \* coordinates, in ten-thousandths, that the sliders take
  Speeds, Tints, Chips,
  MaxUsed     \* bound on the commands, slider moves and selections of a run

\* What Home Assistant passes to turn_on: an attribute the light supports, the
\* value in its own range; "same" asks for the brightness alone or for nothing.
IsAsked(r, d) ==
  /\ r.level \in 0 .. 1000
  /\ \/ r.ask \in {"same", "clear"}
     \/ r.ask = "effect" /\ r.value[1] \in Effects(d.row)
     \/ /\ r.ask \in ColorModes(d.row, d.useXy) \ {"brightness"}
        /\ CASE r.ask = "cct"   -> r.value[1] \in Int
             [] r.ask = "hs"    -> r.value \in (0 .. 360) \X (0 .. 100)
             [] r.ask = "xy"    -> r.value \in [1 .. 2 -> Coordinate]
             [] r.ask = "rgbw"  -> r.value \in [1 .. 4 -> Byte]
             [] r.ask = "rgbww" -> r.value \in [1 .. 5 -> Byte]

ASSUME SiblingsAssumption ==
  /\ \A d \in Devices :
       /\ IsCapabilities(d.row) /\ d.useXy \in BOOLEAN
       /\ \A r \in d.asks : IsAsked(r, d)
       /\ d.restored \subseteq Effects(d.row) \cup {NoEffect}
       /\ d.knobs \subseteq {"fan", "smoothness", "motion"}
  /\ NoEffect \in Nat \ Byte
  /\ Levels \subseteq 1 .. 1000 /\ Points \subseteq Coordinate
  /\ Speeds \subseteq Nat /\ Tints \subseteq Int
  /\ MaxUsed \in Nat

VARIABLES
  device,  \* which of Devices the light is; it never changes
  ha,      \* the light entity: on, mode, shade (its value in each mode), effect, level
  data,    \* GodoxRuntimeData: xy, speed, running, tint, selfie, pct, pair
  shown,   \* what the selects and the switch display
  turn,    \* the await of turn_on or turn_off in progress, or "idle"
  picks,   \* the selection each platform is carrying out, or Idle
  bus,     \* calls waiting for the link; it serves the head
  lamp,    \* the light: leds, look, pair, knobs
  used,    \* commands, moves and selections so far
  seen     \* history: synced, astray, paired; stale, the selects whose last choice raised

vars == <<device, ha, data, shown, turn, picks, bus, lamp, used, seen>>

Model == device.row
UseXy == device.useXy
Knobs == device.knobs
Modes == ColorModes(Model, UseXy)
Axes == {1, 2}

Idle == [control |-> "none", value |-> 0]
Unknown == [kind |-> "unknown"]
Controls == {"mode", "frequency", "gel"} \cup Knobs
\* data.brightness_pct has no entry for the light: the gel control then sends 100 %.
Untold == 0

InSelfie(d) == d.selfie /\ HasSelfieCct(Model)
MinKelvin(d) == IF InSelfie(d) THEN Model.selfieMin ELSE Model.minKelvin
MaxKelvin(d) == IF InSelfie(d) THEN Model.selfieMax ELSE Model.maxKelvin
Clamped(kelvin, d) == Max({MinKelvin(d), Min({MaxKelvin(d), kelvin})})

Neutral == [cct |-> Clamped(5600, [selfie |-> FALSE]), xy |-> <<3127, 3290>>, hs |-> <<0, 0>>,
            rgbw |-> <<0, 0, 0, 0>>, rgbww |-> <<0, 0, 0, 0, 0>>, brightness |-> 0]

\* The entities come back with what they showed last; the effect and the
\* coordinates are shared at once, the brightness is not.
Init == /\ device \in Devices
        /\ \E on \in BOOLEAN, level \in Levels, effect \in device.restored,
              mode \in Range(Model.controlModes), frequency \in Range(Model.frequencies) :
             /\ ha = [on |-> on, mode |-> StartMode(Model, UseXy), shade |-> Neutral,
                      effect |-> effect, level |-> level]
             /\ data = [xy |-> Neutral.xy, speed |-> 0, running |-> effect, tint |-> 0,
                        selfie |-> FALSE, pct |-> Untold,
                        pair |-> <<mode, frequency>>]
             /\ shown = [c \in Controls |-> CASE c = "mode" -> mode [] c = "frequency" -> frequency
                                              [] OTHER -> 0]
        /\ turn = "idle" /\ bus = <<>>
        /\ picks = [p \in {"select", "switch"} |-> Idle]
        /\ lamp = [leds |-> FALSE, look |-> Unknown, pair |-> <<0, 0>>, knobs |-> [k \in Knobs |-> 0]]
        /\ used = 0
        /\ seen = [synced |-> FALSE, astray |-> FALSE, paired |-> FALSE, stale |-> {}]

-----------------------------------------------------------------------------
\* The frame _async_send_effect or _async_send_color builds.
\* Mutant: the speed of the slider, whatever the effect takes.
EffectSentUnclamped(h, d) == async_set_effect(h.effect, h.level, d.speed, Model.effectVersion)
EffectSent(h, d) ==
  async_set_effect(h.effect, h.level, Min({d.speed, SpeedMax(Model, h.effect)}), Model.effectVersion)

\* _async_send_channels: wide channels are scaled from 255 to 1000 and rounded.
Wide == Model.rgbDisplay # 0
Scaled(c) == IF Wide THEN (2000 * c + 255) \div 510 ELSE c
ChannelsSent(h, rgb, extra, type) ==
  LET s(t) == [i \in DOMAIN t |-> Scaled(t[i])] IN
  async_set_rgbw(h.level, s(rgb), s(extra), type, Wide)

ColorSent(h, d) ==
  LET c == h.shade[h.mode] IN
  CASE h.mode = "hs"    -> async_set_hsi(h.level, c)
    [] h.mode = "xy"    -> async_set_xy(h.level, c)
    [] h.mode = "rgbw"  -> ChannelsSent(h, <<c[1], c[2], c[3]>>, <<c[4], 0, 0>>, 0)
    [] h.mode = "rgbww" -> ChannelsSent(h, <<c[1], c[2], c[3]>>, <<c[4], c[5], 0>>, 1)
    [] OTHER -> IF InSelfie(d) THEN set_selfie_cct(h.level, h.shade.cct)
                ELSE async_set_light(h.level, h.shade.cct, MinKelvin(d), MaxKelvin(d),
                                     d.tint, HasTint(Model))

Sent(h, d) == IF h.effect # NoEffect THEN EffectSent(h, d) ELSE ColorSent(h, d)

Call(from, frame) == [from |-> from, frame |-> frame]
Queued(from, frame) == bus' = Append(bus, Call(from, frame))

-----------------------------------------------------------------------------
\* turn_on: the request goes into the attributes, and to the sliders' pair when
\* it is a coordinate; then power, look, power.
TurnOn(r) ==
  /\ turn = "idle" /\ used < MaxUsed
  /\ used' = used + 1
  /\ ha' = [ha EXCEPT
      !.mode = IF r.ask \in Modes THEN r.ask ELSE @,
      !.shade = IF r.ask \in Modes
                THEN [@ EXCEPT ![r.ask] = IF r.ask = "cct" THEN Clamped(r.value[1], data) ELSE r.value]
                ELSE @,
      !.effect = IF r.ask = "effect" THEN r.value[1] ELSE IF r.ask = "same" THEN @ ELSE NoEffect,
      !.level = IF r.level = 0 THEN @ ELSE r.level]
  /\ data' = IF r.ask = "xy" THEN [data EXCEPT !.xy = r.value] ELSE data
  /\ Queued("turn", PowerFrame(TRUE))
  /\ turn' = "power"
  /\ UNCHANGED <<device, shown, picks, lamp, seen>>

TurnOff == /\ turn = "idle" /\ used < MaxUsed
           /\ used' = used + 1
           /\ Queued("turn", PowerFrame(FALSE))
           /\ turn' = "off"
           /\ UNCHANGED <<device, ha, data, shown, picks, lamp, seen>>

\* What a frame that arrives does to the light.
Obeyed(f) ==
  LET r == Reads(f) IN
  CASE r.kind = "power"   -> [lamp EXCEPT !.leds = r.on]
    [] r.kind = "control" -> [lamp EXCEPT !.pair = r.pair]
    [] r.kind \in {"fan", "smoothness", "motion"} -> [lamp EXCEPT !.knobs[r.kind] = r.value]
    [] r.kind = "none"    -> lamp
    [] OTHER              -> [lamp EXCEPT !.look = r]

\* The link serves a call; the write arrives, or is lost without a trace.
Served(from) == /\ bus # <<>> /\ Head(bus).from = from
                /\ lamp' \in {Obeyed(Head(bus).frame), lamp}
Arrived == lamp' = Obeyed(Head(bus).frame)
Then(from, frame) == bus' = Append(Tail(bus), Call(from, frame))

PowerDone ==
  /\ turn = "power" /\ Served("turn")
  /\ data' = [data EXCEPT !.pct = ha.level,
                          !.xy = IF ha.mode = "xy" /\ ha.effect = NoEffect THEN ha.shade.xy ELSE @]
  /\ Then("turn", Sent(ha, data))
  /\ turn' = "body" /\ seen' = [seen EXCEPT !.astray = FALSE]
  /\ UNCHANGED <<device, ha, shown, picks, used>>

BodyDone == /\ turn = "body" /\ Served("turn")
            /\ Then("turn", PowerFrame(TRUE))
            /\ turn' = "again"
            /\ seen' = [seen EXCEPT !.synced = Arrived]
            /\ UNCHANGED <<device, ha, data, shown, picks, used>>

-----------------------------------------------------------------------------
\* native_max_value: the gears of the running effect, or the model's widest.
Ceiling(running) == IF running \in Effects(Model) THEN SpeedMax(Model, running)
                                                  ELSE MaxEffectSpeed(Model)

\* Mutant: the light takes the pair over but does not send it.
FollowPairSilently(h, d, queue) ==
  /\ ha' = IF h.on /\ d.xy # h.shade.xy
           THEN [h EXCEPT !.shade.xy = d.xy, !.mode = "xy", !.effect = NoEffect] ELSE h
  /\ bus' = queue

\* _coordinate_changed: the light follows the sliders' pair, and sends it.
FollowPair(h, d, queue) ==
  IF h.on /\ d.xy # h.shade.xy
  THEN /\ ha' = [h EXCEPT !.shade.xy = d.xy, !.mode = "xy", !.effect = NoEffect]
       /\ bus' = Append(queue, Call("slider", ColorSent(ha', d)))
  ELSE /\ ha' = h /\ bus' = queue

\* The end of turn_on tells the speed slider which effect runs, and in a
\* coordinate mode the sliders and, by the same signal, the light itself.
AgainDone ==
  LET lit == [ha EXCEPT !.on = TRUE] IN
  /\ turn = "again" /\ Served("turn")
  /\ data' = [data EXCEPT !.running = ha.effect,
                          !.speed = IF MaxEffectSpeed(Model) > 0
                                    THEN Min({@, Ceiling(ha.effect)}) ELSE @]
  /\ IF ha.mode = "xy" THEN FollowPair(lit, data, Tail(bus))
                       ELSE ha' = lit /\ bus' = Tail(bus)
  /\ turn' = "idle"
  /\ UNCHANGED <<device, shown, picks, used, seen>>

OffDone == /\ turn = "off" /\ Served("turn")
           /\ bus' = Tail(bus) /\ turn' = "idle"
           /\ ha' = [ha EXCEPT !.on = FALSE]
           /\ UNCHANGED <<device, data, shown, picks, used, seen>>

\* The call raises: the attributes stay, and nothing more is sent.
TurnRaises == /\ turn # "idle" /\ Served("turn")
              /\ bus' = Tail(bus) /\ turn' = "idle"
              /\ seen' = [seen EXCEPT !.synced = @ /\ turn = "off"]
              /\ UNCHANGED <<device, ha, data, shown, picks, used>>

-----------------------------------------------------------------------------
Moves == used < MaxUsed /\ used' = used + 1

\* A light that is just being turned on takes no notice of a slider, though its
\* frame may already be on the way.
Unnoticed == ~ha.on /\ turn \in {"body", "again"}

SetSpeed(v) == /\ Moves /\ MaxEffectSpeed(Model) > 0 /\ v <= Ceiling(data.running)
               /\ data' = [data EXCEPT !.speed = v]
               /\ IF ha.on /\ ha.effect # NoEffect
                  THEN Queued("slider", EffectSent(ha, data')) ELSE UNCHANGED bus
               /\ seen' = [seen EXCEPT !.astray = @ \/ Unnoticed]
               /\ UNCHANGED <<device, ha, shown, turn, picks, lamp>>

\* A tint moved while an effect runs sends the colour frame, which ends it.
SetTint(v) == /\ Moves /\ HasTint(Model) /\ v \in Model.gmMin .. Model.gmMax
              /\ data' = [data EXCEPT !.tint = v]
              /\ IF ha.on /\ ha.mode = "cct"
                 THEN Queued("slider", ColorSent(ha, data')) ELSE UNCHANGED bus
              /\ seen' = [seen EXCEPT !.astray = @ \/ Unnoticed \/ (ha.on /\ ha.effect # NoEffect)]
              /\ UNCHANGED <<device, ha, shown, turn, picks, lamp>>

SetCoordinate(axis, v) ==
  /\ Moves /\ "xy" \in Modes
  /\ data' = [data EXCEPT !.xy[axis] = v]
  /\ FollowPair(ha, data', bus)
  /\ UNCHANGED <<device, shown, turn, picks, lamp, seen>>

SetRange(selfie) ==
  /\ Moves /\ HasSelfieCct(Model)
  /\ data' = [data EXCEPT !.selfie = selfie]
  /\ ha' = [ha EXCEPT !.shade.cct = Clamped(@, data'), !.mode = "cct", !.effect = NoEffect]
  /\ IF ha.on THEN Queued("slider", ColorSent(ha', data')) ELSE UNCHANGED bus
  /\ seen' = [seen EXCEPT !.astray = @ \/ Unnoticed]
  /\ UNCHANGED <<device, shown, turn, picks, lamp>>

SliderDone == /\ Served("slider")
              /\ bus' = Tail(bus)
              /\ seen' = [seen EXCEPT !.synced = Arrived]
              /\ UNCHANGED <<device, ha, data, shown, turn, picks, used>>

-----------------------------------------------------------------------------
Picks(platform, control, value) ==
  /\ picks[platform] = Idle /\ used < MaxUsed
  /\ used' = used + 1
  /\ picks' = [picks EXCEPT ![platform] = [control |-> control, value |-> value]]
  /\ UNCHANGED <<device, ha, shown, turn, lamp>>

\* Mutant: each select sends its half with the default of the other.
PickHalfAlone(i, value) ==
  /\ Picks("select", IF i = 1 THEN "mode" ELSE "frequency", value)
  /\ data' = [data EXCEPT !.pair[i] = value]
  /\ Queued("select", IF i = 1 THEN async_set_control_mode(<<value, Model.frequencies[1]>>)
                               ELSE async_set_control_mode(<<Model.controlModes[1], value>>))
  /\ UNCHANGED seen

\* Control mode and mains frequency go into the pair, which is sent whole.
PickHalf(i, value) ==
  /\ Picks("select", IF i = 1 THEN "mode" ELSE "frequency", value)
  /\ data' = [data EXCEPT !.pair[i] = value]
  /\ Queued("select", async_set_control_mode(data'.pair))
  /\ UNCHANGED seen

\* A gel takes the brightness the light was last told.
PickGel(chip) ==
  /\ Picks("select", "gel", chip.number)
  /\ Queued("select", async_set_color_chip(IF data.pct = Untold THEN 1000 ELSE data.pct,
                                           chip, Model.chipVersion))
  /\ UNCHANGED <<data, seen>>

KnobFrame(knob, value) == CASE knob = "fan"        -> set_fan_mode(value)
                            [] knob = "smoothness" -> set_smoothness(value)
                            [] knob = "motion"     -> set_motion_recognize(value)
PickKnob(knob, value) ==
  /\ Picks(IF knob = "motion" THEN "switch" ELSE "select", knob, value)
  /\ Queued(IF knob = "motion" THEN "switch" ELSE "select", KnobFrame(knob, value))
  /\ UNCHANGED <<data, seen>>

\* The write returns and the control displays the choice, or it raises and the
\* display stays; what the pair holds is not taken back.
PickEnds(platform) ==
  LET p == picks[platform] IN
  /\ Served(platform)
  /\ bus' = Tail(bus)
  /\ picks' = [picks EXCEPT ![platform] = Idle]
  /\ \E raised \in BOOLEAN :
       /\ shown' = IF raised THEN shown ELSE [shown EXCEPT ![p.control] = p.value]
       /\ seen' = [seen EXCEPT
            !.paired = IF p.control \in {"mode", "frequency"} THEN Arrived ELSE @,
            !.stale = IF raised THEN @ \cup {p.control} ELSE @ \ {p.control}]
  /\ UNCHANGED <<device, ha, data, turn, used>>

-----------------------------------------------------------------------------
Next == \/ \E r \in device.asks : TurnOn(r)
        \/ TurnOff
        \/ PowerDone \/ BodyDone \/ AgainDone \/ OffDone \/ TurnRaises
        \/ \E v \in Speeds : SetSpeed(v)
        \/ \E v \in Tints : SetTint(v)
        \/ \E axis \in Axes, v \in Points : SetCoordinate(axis, v)
        \/ \E selfie \in BOOLEAN : SetRange(selfie)
        \/ SliderDone
        \/ \E mode \in Range(Model.controlModes) : PickHalf(1, mode)
        \/ \E frequency \in Range(Model.frequencies) : PickHalf(2, frequency)
        \/ \E chip \in Chips : PickGel(chip)
        \/ \E knob \in Knobs, value \in {0, 1} : PickKnob(knob, value)
        \/ \E platform \in {"select", "switch"} : PickEnds(platform)

Spec == Init /\ [][Next]_vars

-----------------------------------------------------------------------------
Quiet == turn = "idle" /\ bus = <<>>

\* What the controls of the device say the light is doing, in the units of its
\* frames: a colour temperature in hundreds, no speed where the effect has none.
EffectShown(h, d) ==
  [kind |-> "effect", symbol |-> h.effect,
   level |-> IF Model.effectVersion = 1 THEN h.level ELSE 10 * Percent(h.level),
   speed |-> IF Model.effectVersion = 1 /\ ~TakesSpeed(h.effect) THEN 0
             ELSE Min({d.speed, SpeedMax(Model, h.effect)})]

ColourShown(h, d, xy) ==
  LET c == h.shade[h.mode]
      kelvin == 100 * (h.shade.cct \div 100) IN
  CASE h.mode = "xy" -> [kind |-> "xy", level |-> h.level, colour |-> xy]
    [] h.mode = "hs" -> [kind |-> "hs", level |-> h.level, colour |-> c]
    [] h.mode \in {"rgbw", "rgbww"} /\ ~Wide ->
         [kind |-> "rgbw", level |-> h.level, colour |-> SubSeq(c, 1, 4)]
    [] h.mode \in {"rgbw", "rgbww"} /\ Wide ->
         [kind |-> "rgb", level |-> h.level, type |-> IF h.mode = "rgbww" THEN 1 ELSE 0,
          colour |-> [i \in 1 .. 6 |-> IF i \in DOMAIN c THEN Scaled(c[i]) ELSE 0]]
    [] InSelfie(d) /\ h.mode \in {"cct", "brightness"} ->
         [kind |-> "selfie", level |-> 10 * Percent(h.level), kelvin |-> kelvin]
    [] ~InSelfie(d) /\ h.mode \in {"cct", "brightness"} ->
         [kind |-> "cct", level |-> h.level, kelvin |-> kelvin, tint |-> d.tint]

\* The coordinates are those of the sliders.
Displayed == IF ha.effect # NoEffect THEN EffectShown(ha, data)
                                     ELSE ColourShown(ha, data, data.xy)

\* number.py:264 and :281, light.py:284: once all is quiet a light that is on does
\* what its controls together display: the tint, the pair of both coordinate
\* sliders, the speed within what the effect takes.  That holds when the last frame
\* with a look arrived and no gel was chosen since; two moves are astray, a tint
\* under a running effect and a slider moved while the first turn_on is on its way.
LampObeysControls ==
  Quiet /\ ha.on /\ seen.synced /\ ~seen.astray /\ lamp.look.kind # "gel"
    => lamp.look = Displayed

\* select.py:178: whichever half was chosen last, and whatever failed before, once
\* a control-mode write has arrived the light holds the pair Home Assistant holds,
\* and each select displays its half of it unless its own last choice raised.
PairIsTheLamps ==
  picks["select"].control \notin {"mode", "frequency"}
    => /\ seen.paired => lamp.pair = data.pair
       /\ "mode" \notin seen.stale => shown["mode"] = data.pair[1]
       /\ "frequency" \notin seen.stale => shown["frequency"] = data.pair[2]
=============================================================================
