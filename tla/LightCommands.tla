--------------------------- MODULE LightCommands ---------------------------
(***************************************************************************)
(* The setters of GodoxController and, over them, those of GodoxMeshLink:  *)
(* which frame a request becomes, with the options that the integration    *)
(* leaves at their defaults.  Each sends one payload and returns when it   *)
(* is written; the controller's set_params may send none.                  *)
(***************************************************************************)
EXTENDS GodoxModels

NotGiven == -1
Given(value, default) == IF value = NotGiven THEN default ELSE value

-----------------------------------------------------------------------------
\* GodoxController.  set_params: nothing for nothing, a default for what is missing.
set_params(b, kelvin, min, max, gm, supportsGm) ==
  IF {b, kelvin} = {NotGiven} THEN <<>>
  ELSE <<CctFrame(Given(b, 1000), Given(kelvin, 5600), gm, supportsGm, 0,
                  Given(min, CctMin), Given(max, CctMax))>>

set_hsi(b, hue, sat) == HsiFrame(b, hue, sat, 0)

set_rgbw(b, rgb, white, wide, type, extra) ==
  IF wide THEN RgbWideFrame(b, rgb, type, extra) ELSE RgbwFrame(b, rgb \o <<white>>)

set_xy(b, x, y) == XyFrame(b, x, y)
set_color_chip(b, chip, version, tempMode) == ColorChipFrame(b, chip, version, tempMode, 0, 0)
set_control_mode(mode, frequency) == ControlModeFrame(mode, frequency)
set_smoothness(mode) == SmoothnessFrame(mode)
set_motion_recognize(enabled) == MotionFrame(enabled)
set_selfie_cct(b, kelvin) == SelfieFrame(b, kelvin)
set_effect(symbol, b, speed, version) == FxFrame(symbol, b, speed, version)
set_fan_mode(mode) == FanFrame(mode)

-----------------------------------------------------------------------------
\* GodoxMeshLink, with what each entity hands over.  A coordinate is the pair of
\* both axes; the white channel and the three extra ones travel side by side.
async_set_light(b, kelvin, min, max, gm, tinted) ==
  Head(set_params(b, kelvin, min, max, gm, tinted))
async_set_hsi(b, colour) == set_hsi(b, colour[1], colour[2])
async_set_rgbw(b, rgb, extra, type, wide) == set_rgbw(b, rgb, extra[1], wide, type, extra)
async_set_effect(symbol, b, speed, version) == set_effect(symbol, b, speed, version)
async_set_xy(b, xy) == set_xy(b, xy[1], xy[2])
async_set_color_chip(b, chip, version) == set_color_chip(b, chip, version, 0)
async_set_control_mode(pair) == set_control_mode(pair[1], pair[2])
=============================================================================
