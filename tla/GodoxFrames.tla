---------------------------- MODULE GodoxFrames ----------------------------
(***************************************************************************)
(* protocol.py: the frames Godox lights take, and what their replies say.  *)
(* A V2 frame is a sub-command, five data bytes padded with 0xFF and an    *)
(* end byte; a V3 frame is a command, a length byte and as many bytes as   *)
(* it counts.  Both end in a checksum of the rest, which is left out: it   *)
(* tells no two frames apart.  A builder that raises is Refused.           *)
(*                                                                         *)
(* Brightness is in tenths of a percent, as the callers round it, and a    *)
(* coordinate in ten-thousandths.                                          *)
(***************************************************************************)
EXTENDS Integers, Sequences, SequencesExt, TLC

Byte == 0 .. 255
Word == 0 .. 256 * 256 - 1
Pad == 255
Low(n) == n % 256
High(n) == (n \div 256) % 256
Refused == [sub |-> -1]
Checked(valid, frame) == IF valid THEN frame ELSE Refused

\* build_v2_command and build_v3_command.  bytes() refuses what is no byte.
V2(sub, end, data) ==
  Checked(Len(data) <= 5 /\ \A i \in 1 .. Len(data) : data[i] \in Byte,
          [sub |-> sub, end |-> end,
           data |-> [i \in 1 .. 5 |-> IF i <= Len(data) THEN data[i] ELSE Pad]])
V3(cmd, data) ==
  Checked(Len(data) + 3 \in Byte /\ \A i \in 1 .. Len(data) : data[i] \in Byte,
          [sub |-> cmd, length |-> Len(data) + 3, data |-> data])

\* validate_brightness and split_brightness: int() cuts towards zero, so a
\* fraction outside 0..100 still passes.
ValidBrightness(b) == b \in -9 .. 1009
Percent(b) == IF b < 0 THEN 0 ELSE b \div 10
Tenths(b) == IF b < 0 THEN 0 ELSE b % 10

CctMin == 100
CctMax == 25500
ValidCct(kelvin, min, max) == kelvin \in min .. max

-----------------------------------------------------------------------------
\* Power, colour temperature, hue and saturation, channels, coordinates.
PowerFrame(on) == V2(254, Pad, <<IF on THEN 0 ELSE 1>>)

CctFrame(b, kelvin, gm, tinted, circle, min, max) ==
  Checked(ValidBrightness(b) /\ ValidCct(kelvin, min, max) /\ gm \in -100 .. 100,
          V2(240, Tenths(b),
             <<Percent(b), kelvin \div 100, Low(gm + 50),
               IF circle \in 0 .. 3 THEN circle ELSE Pad, IF tinted THEN Low(gm) ELSE 0>>))

\* Mutant: the hue's bytes in the order of the V3 frames.
HsiFrameBigEndian(b, hue, sat, mode) ==
  Checked(ValidBrightness(b) /\ hue \in 0 .. 360 /\ sat \in 0 .. 100,
          V2(241, Tenths(b), <<Percent(b), High(hue), Low(hue), sat, mode>>))
HsiFrame(b, hue, sat, mode) ==
  Checked(ValidBrightness(b) /\ hue \in 0 .. 360 /\ sat \in 0 .. 100,
          V2(241, Tenths(b), <<Percent(b), Low(hue), High(hue), sat, mode>>))

RgbwFrame(b, channels) ==
  Checked(ValidBrightness(b) /\ \A i \in 1 .. 4 : channels[i] \in 0 .. 255,
          V2(242, Tenths(b), <<Percent(b)>> \o channels))

RgbWideFrame(b, rgb, type, extra) ==
  LET c == rgb \o extra IN
  Checked(ValidBrightness(b) /\ \A i \in 1 .. 6 : c[i] \in 0 .. 1000,
          V3(249, <<Percent(b), Tenths(b), type>>
                  \o [i \in 1 .. 12 |-> IF i % 2 = 1 THEN High(c[(i + 1) \div 2])
                                                     ELSE Low(c[i \div 2])]))
RgbExFrame(b, rgb, type, extra) ==
  LET c == rgb \o extra IN
  Checked(ValidBrightness(b) /\ \A i \in 1 .. 6 : c[i] \in 0 .. 255,
          V3(249, <<Percent(b), Tenths(b), type>> \o c))

Coordinate == 0 .. 10000
XyFrame(b, x, y) ==
  Checked(ValidBrightness(b) /\ x \in Coordinate /\ y \in Coordinate,
          V3(250, <<Percent(b), Tenths(b), High(x), Low(x), High(y), Low(y)>>))

\* A gel: the first catalogue has a V2 frame with two fixed bytes, the third a
\* longer V3 frame than the second.
ColorChipFrame(b, chip, version, tempMode, hue, sat) ==
  LET n == chip.number
      head == <<Percent(b), Tenths(b), chip.brand, tempMode, High(n), Low(n), sat, hue>> IN
  Checked(ValidBrightness(b) /\ n \in Word,
          IF version = 0 THEN V2(244, Tenths(b), <<Percent(b), chip.brand, n, 20, 20>>)
          ELSE V3(248, IF version >= 2 THEN head \o <<chip.subBrand, Low(n)>> ELSE head))

FanFrame(mode) == Checked(mode \in 0 .. 4, V2(245, Pad, <<mode>>))

-----------------------------------------------------------------------------
\* Effects.  The newer generation names an effect by a selector, not by the
\* symbol, and gives each its own parameters.
Colour == <<"option", "option_value", "pad", "gm">>
Fx(selector, names) == [selector |-> selector, names |-> names]
FxV3 == [symbol \in 3 .. 19 |->
  CASE symbol = 3  -> Fx(12, <<"speed", "sat">>)
    [] symbol = 4  -> Fx(13, <<"speed", "sat">>)
    [] symbol = 5  -> Fx(0,  <<"speed", "trigger", "mode">> \o Colour)
    [] symbol = 6  -> Fx(1,  <<"frequency", "trigger", "twinkling", "temperature">>)
    [] symbol = 7  -> Fx(2,  <<"speed", "light_dark">>)
    [] symbol = 8  -> Fx(3,  <<"speed">> \o Colour)
    [] symbol = 9  -> Fx(4,  <<"speed", "option">>)
    [] symbol = 10 -> Fx(5,  <<"speed">>)
    [] symbol = 11 -> Fx(6,  <<"speed">>)
    [] symbol = 12 -> Fx(7,  <<"speed", "ember">>)
    [] symbol = 13 -> Fx(8,  <<"speed", "ember", "trigger">> \o Colour)
    [] symbol = 14 -> Fx(9,  <<"speed">> \o Colour)
    [] symbol = 15 -> Fx(10, <<"mode", "color">>)
    [] symbol = 16 -> Fx(11, Colour)
    [] symbol = 17 -> Fx(17, <<"gear">>)
    [] symbol = 18 -> Fx(19, <<"tone_mode", "speed">>)
    [] symbol = 19 -> Fx(18, <<"tone_mode", "speed">>)]
TakesSpeed(symbol) == \E i \in DOMAIN FxV3[symbol].names : FxV3[symbol].names[i] = "speed"

FxDefaults == [speed |-> 50, sat |-> 50, direction |-> 0, color_length |-> 1, mode |-> 0,
               trigger |-> 0, option |-> 0, option_value |-> 50, gm |-> 50, frequency |-> 17,
               twinkling |-> 7, temperature |-> 65, light_dark |-> 30, ember |-> 50,
               color |-> 0, gear |-> 0, tone_mode |-> 1, bg_option |-> 0,
               bg_value_high |-> 50, bg_value_low |-> 255, bg_sat |-> 50]

FxBlocks == <<"speed", "direction", "color_length">>
FourPads == <<"pad", "pad", "pad", "pad">>
FxColorBlock == [symbol \in 0 .. 2 |->
  CASE symbol = 0 -> Fx(14, FxBlocks \o <<"pad", "pad">> \o FourPads
                              \o <<"blocks", "bg_option", "bg_value_high", "bg_value_low", "bg_sat">>)
    [] symbol = 1 -> Fx(15, FxBlocks \o <<"pad", "pad">> \o FourPads \o <<"blocks">>)
    [] symbol = 2 -> Fx(16, FxBlocks \o <<"mode", "pad">> \o FourPads \o <<"blocks">>)]

BlockBytes(k) == CASE k.option = 2 -> <<Pad, Pad, Pad, Pad>>
                   [] k.option = 1 -> <<1, High(k.value), Low(k.value), k.saturation>>
                   [] OTHER        -> <<k.option, Low(k.value), Pad, k.saturation>>

EffectFrame(symbol, percent, speed) ==
  Checked(symbol \in Byte /\ speed \in Byte /\ percent \in 0 .. 100,
          V2(243, Pad, <<percent, symbol, speed>>))

\* The speed replaces the default, whatever its size.
FxColorBlockFrame(symbol, b, speed, blocks) ==
  LET fx == FxColorBlock[symbol]
      value(name) == CASE name = "pad" -> Pad [] name = "blocks" -> Len(blocks)
                       [] name = "speed" -> Low(speed) [] OTHER -> Low(FxDefaults[name]) IN
  Checked(ValidBrightness(b),
          V3(247, <<Percent(b), Tenths(b), fx.selector>>
                  \o [i \in DOMAIN fx.names |-> value(fx.names[i])]
                  \o FlattenSeq([i \in DOMAIN blocks |-> BlockBytes(blocks[i])])))

\* A field of an effect of the newer generation, left at its default but for the
\* speed; option is then 0, so option_value is one byte and a pad.
FxField(name, speed) == CASE name = "pad" -> Pad [] name = "speed" -> speed
                          [] OTHER -> FxDefaults[name]
FxData(selector, symbol, b, speed) ==
  LET names == FxV3[symbol].names IN
  <<Percent(b), Tenths(b), selector>> \o [i \in DOMAIN names |-> FxField(names[i], speed)]

\* Mutant: the symbol where the frame has the selector.
FxFrameBySymbol(symbol, b, speed, version) ==
  IF version # 1 THEN EffectFrame(symbol, Percent(b), speed)
  ELSE V3(247, FxData(symbol, symbol, b, speed))

\* build_fx_command with the parameters left at their defaults, as set_effect calls it.
FxFrame(symbol, b, speed, version) ==
  IF version # 1 THEN EffectFrame(symbol, Percent(b), speed)
  ELSE IF symbol \in DOMAIN FxColorBlock THEN FxColorBlockFrame(symbol, b, speed, <<>>)
  ELSE IF symbol \notin DOMAIN FxV3 THEN Refused
  ELSE Checked(ValidBrightness(b) /\ (TakesSpeed(symbol) => speed \in 0 .. 100),
               V3(247, FxData(FxV3[symbol].selector, symbol, b, speed)))

FxRainbowFrame(b, pixels, length, speed, direction, bg, bgBrightness, blocks) ==
  Checked(ValidBrightness(b),
          V3(247, <<Percent(b), Tenths(b), 19, Low(pixels), Low(length), Len(blocks), Low(speed),
                    Low(direction), Low(bg.value), Low(bg.option), Low(bg.value),
                    Low(bg.saturation), Low(bgBrightness)>>
                  \o FlattenSeq([i \in DOMAIN blocks |-> BlockBytes(blocks[i])])))

-----------------------------------------------------------------------------
\* Structured orders: order type, register, read or write, length, payload.
Structured(order, register, payload) ==
  V3(252, <<order, register, 1, Len(payload)>> \o payload)

\* Mutant: the frequency in one byte.
ControlModeFrameNarrow(mode, frequency) ==
  Checked(mode \in Byte /\ frequency \in Word, Structured(3, 1, <<mode, 0, Low(frequency)>>))
ControlModeFrame(mode, frequency) ==
  Checked(mode \in Byte /\ frequency \in Word,
          Structured(3, 1, <<mode, High(frequency), Low(frequency)>>))
SmoothnessFrame(mode) == Checked(mode \in Byte, Structured(3, 4, <<mode>>))
\* The register counts the other way: 0 is enabled.
MotionFrame(enabled) == Structured(3, 7, <<1 - enabled>>)
SelfieFrame(b, kelvin) ==
  Checked(ValidBrightness(b), Structured(5, 0, <<Percent(b), kelvin \div 100>>))

-----------------------------------------------------------------------------
\* Requests and what the parsers make of a payload, a sequence of bytes.
StatusFrame(record, byte) == Checked(byte \in 1 .. 255, V2(253, record, <<byte>>))
BatteryFrame == V2(253, 166, <<1>>)
VersionFrame == V2(253, Pad, <<2>>)
McuFrame == V2(253, Pad, <<3>>)
AckFrame(record) == V2(224, Pad, <<record>>)

Unparsed == [kind |-> "none"]
ParsedStatus(p, intact) ==
  IF Len(p) # 8 \/ ~intact \/ p[1] \notin {160, 163} THEN Unparsed
  ELSE IF p[1] = 160 THEN [kind |-> "status", brightness |-> p[2], cct |-> p[3] * 100]
                     ELSE [kind |-> "status", brightness |-> p[2], effect |-> p[3]]
ParsedBattery(p) ==
  IF Len(p) < 8 \/ p[1] # 166 THEN Unparsed
  ELSE [kind |-> "battery", state |-> p[2], hour |-> p[3], minute |-> p[4],
        option |-> p[5] \div 128, percent |-> p[5] % 128]
ParsedVersion(p) == IF Len(p) < 5 \/ p[1] # 175 \/ p[2] # 32 THEN Unparsed
                    ELSE [kind |-> "version", version |-> p[5]]
ParsedMcu(p) == IF Len(p) < 4 \/ p[1] # 175 \/ p[2] # 48 THEN Unparsed
                ELSE [kind |-> "mcu", major |-> p[3], minor |-> p[4]]
-----------------------------------------------------------------------------
\* What a light makes of a frame, after the documented layouts: the look it
\* takes on, with the brightness in tenths of a percent.
Joined(high, low) == 256 * high + low
Level(f) == CASE f.sub \in {240, 241, 242, 244} -> 10 * f.data[1] + f.end
              [] f.sub \in {247, 248, 249, 250} -> 10 * f.data[1] + f.data[2]
              [] f.sub = 243                    -> 10 * f.data[1]
              [] f.sub = 252                    -> 10 * f.data[5]
Channel(f, i) == IF f.length = 18 THEN Joined(f.data[2 * i + 2], f.data[2 * i + 3])
                                  ELSE f.data[i + 3]
\* The tint byte holds gm + 50 modulo 256, for a gm from -100 to 100.
TintOf(byte) == (IF byte > 150 THEN byte - 256 ELSE byte) - 50

\* An effect of the newer generation: the symbol of a selector, the speed where
\* the effect has one.
ReadsFx(f) ==
  LET symbol == CHOOSE s \in DOMAIN FxV3 : FxV3[s].selector = f.data[3] IN
  [kind |-> "effect", level |-> Level(f), symbol |-> symbol,
   speed |-> IF TakesSpeed(symbol)
             THEN LET names == FxV3[symbol].names IN
                  f.data[3 + CHOOSE i \in DOMAIN names : names[i] = "speed"] ELSE 0]

Reads(f) ==
  CASE f.sub = 240 -> [kind |-> "cct", level |-> Level(f), kelvin |-> 100 * f.data[2],
                       tint |-> TintOf(f.data[3])]
    [] f.sub = 241 -> [kind |-> "hs", level |-> Level(f),
                       colour |-> <<Joined(f.data[3], f.data[2]), f.data[4]>>]
    [] f.sub = 242 -> [kind |-> "rgbw", level |-> Level(f),
                       colour |-> <<f.data[2], f.data[3], f.data[4], f.data[5]>>]
    [] f.sub = 243 -> [kind |-> "effect", level |-> Level(f), symbol |-> f.data[2],
                       speed |-> f.data[3]]
    [] f.sub = 247 -> ReadsFx(f)
    [] f.sub = 249 -> [kind |-> "rgb", level |-> Level(f), type |-> f.data[3],
                       colour |-> [i \in 1 .. 6 |-> Channel(f, i)]]
    [] f.sub = 250 -> [kind |-> "xy", level |-> Level(f),
                       colour |-> <<Joined(f.data[3], f.data[4]), Joined(f.data[5], f.data[6])>>]
    [] f.sub = 244 -> [kind |-> "gel", level |-> Level(f), number |-> f.data[3]]
    [] f.sub = 248 -> [kind |-> "gel", level |-> Level(f), number |-> Joined(f.data[5], f.data[6])]
    [] f.sub = 252 /\ f.data[1] = 5 ->
         [kind |-> "selfie", level |-> Level(f), kelvin |-> 100 * f.data[6]]
    [] f.sub = 252 /\ f.data[1] = 3 /\ f.data[2] = 1 ->
         [kind |-> "control", pair |-> <<f.data[5], Joined(f.data[6], f.data[7])>>]
    [] f.sub = 252 /\ f.data[1] = 3 /\ f.data[2] = 4 -> [kind |-> "smoothness", value |-> f.data[5]]
    [] f.sub = 252 /\ f.data[1] = 3 /\ f.data[2] = 7 -> [kind |-> "motion", value |-> 1 - f.data[5]]
    [] f.sub = 245 -> [kind |-> "fan", value |-> f.data[1]]
    [] f.sub = 254 -> [kind |-> "power", on |-> f.data[1] = 0]
    [] OTHER -> Unparsed
=============================================================================
