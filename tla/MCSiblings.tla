---------------------------- MODULE MCSiblings -----------------------------
(* A bi-colour light with a tint, coordinates, two effects of three gears and  *)
(* of one, a second colour-temperature range, gels and both control modes.     *)
EXTENDS Siblings

Row == [effectVersion |-> 0, gears |-> (5 :> 3) @@ (6 :> 1),
        minKelvin |-> 2800, maxKelvin |-> 6500, selfieMin |-> 3200, selfieMax |-> 5000,
        gmMin |-> -50, gmMax |-> 50, modes |-> {"cct", "xy", "color_chip"},
        channels |-> {}, rgbDisplay |-> 0, chipVersion |-> 2,
        controlModes |-> <<0, 1>>, frequencies |-> <<300>>]

Ask(what, value, level) == [ask |-> what, value |-> value, level |-> level]
Asked == {Ask("same", <<>>, 300), Ask("effect", <<6>>, 0),
          Ask("xy", <<1, 2>>, 0)}

\* A five-channel light of the newer effect generation, with hue and saturation,
\* sixteen-bit channels and the second catalogue of gels.  The table gives it an
\* effect that has no frame.
WideRow == [effectVersion |-> 1, gears |-> (5 :> 0) @@ (7 :> 0) @@ (40 :> 0),
            minKelvin |-> 2700, maxKelvin |-> 6500, selfieMin |-> 0, selfieMax |-> 0,
            gmMin |-> 0, gmMax |-> 0, modes |-> {"cct", "hsi", "rgb", "color_chip"},
            channels |-> {"RGBWW"}, rgbDisplay |-> 1, chipVersion |-> 1,
            controlModes |-> <<0>>, frequencies |-> <<300>>]
WideAsked == {Ask("effect", <<s>>, 0) : s \in Effects(WideRow)}
               \cup {Ask("hs", <<359, 100>>, 505), Ask("rgbww", <<255, 1, 0, 128, 77>>, 0),
                     Ask("cct", <<2000>>, 0)}

Both == {[row |-> Row, useXy |-> TRUE, asks |-> Asked, restored |-> {999, 5},
          knobs |-> {"motion"}],
         [row |-> WideRow, useXy |-> FALSE, asks |-> WideAsked, restored |-> {999, 7},
          knobs |-> {"fan", "smoothness"}]}
Full == {1000}
OnePoint == {700}
TwoSpeeds == {2, 100}
Green == {-50}
OneGel == {[brand |-> 1, number |-> 300, subBrand |-> 4]}
=============================================================================
