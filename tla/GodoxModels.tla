---------------------------- MODULE GodoxModels ----------------------------
(***************************************************************************)
(* capabilities.py: what one row of the model table says of a light.  The  *)
(* row is a record; a name is left out, and a control that the model lacks *)
(* has an empty set, an empty sequence or an empty range.                  *)
(***************************************************************************)
EXTENDS GodoxFrames

\* GodoxCapabilities, with an effect's gear count under its symbol.  The bounds are
\* those of the 186 rows of capabilities_data.json and of the row of an unknown model;
\* every row with a tint or a selfie range has a colour-temperature range as well.
\* modes and channels are sets of names, of which the look-ups know some.
IsCapabilities(m) ==
  /\ m.effectVersion \in {0, 1}
  /\ DOMAIN m.gears \subseteq Byte /\ \A s \in DOMAIN m.gears : m.gears[s] \in 0 .. 256
  /\ m.minKelvin \in 0 .. m.maxKelvin /\ m.maxKelvin \in 0 .. CctMax
  /\ m.selfieMin \in 0 .. m.selfieMax /\ m.selfieMax \in 0 .. CctMax
  /\ m.gmMin \in -100 .. m.gmMax /\ m.gmMax \in -100 .. 100
  /\ m.gmMin # m.gmMax \/ m.selfieMin # m.selfieMax => m.minKelvin # m.maxKelvin
  /\ m.rgbDisplay \in 0 .. 2 /\ m.chipVersion \in 0 .. 3
  /\ m.controlModes \in Seq(Byte) /\ m.frequencies \in Seq(Word)

\* _load_table drops the effects it has no V3 frame for.
Effects(m) == {s \in DOMAIN m.gears : m.effectVersion # 1 \/ s \in DOMAIN FxV3}

SpeedMax(m, s) == IF m.effectVersion = 1 THEN 100
                  ELSE IF m.gears[s] > 0 THEN m.gears[s] - 1 ELSE 0
MaxEffectSpeed(m) == IF Effects(m) = {} THEN 0
                     ELSE Max({SpeedMax(m, s) : s \in Effects(m)})

HasTint(m) == m.gmMin # m.gmMax
HasSelfieCct(m) == m.selfieMin # m.selfieMax
SupportsCct(m) == m.minKelvin # m.maxKelvin

RgbMode(m) == IF "RGBW" \in m.channels THEN {"rgbw"}
              ELSE IF "RGBWW" \in m.channels THEN {"rgbww"} ELSE {}

\* color_modes_for(use_xy) and color_modes.
ColorModes(m, useXy) ==
  LET white == IF SupportsCct(m) THEN {"cct"} ELSE {}
      all == white \cup (IF "hsi" \in m.modes THEN {"hs"} ELSE {})
                   \cup (IF "rgb" \in m.modes THEN RgbMode(m) ELSE {}) IN
  IF useXy /\ "xy" \in m.modes THEN white \cup {"xy"}
  ELSE IF all = {} THEN {"brightness"} ELSE all

\* The mode the light starts in: the first of these it has.
StartMode(m, useXy) ==
  LET order == <<"cct", "hs", "rgbw", "rgbww", "xy", "brightness">>
      i == CHOOSE k \in 1 .. 6 : /\ order[k] \in ColorModes(m, useXy)
                                 /\ \A j \in 1 .. k - 1 : order[j] \notin ColorModes(m, useXy) IN
  order[i]
=============================================================================
