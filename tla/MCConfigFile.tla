---- MODULE MCConfigFile ----
EXTENDS ConfigFile, TLC
S(n, p, b) == [name |-> n, plain |-> p, body |-> b]
T == { << >>,
  << S("general", TRUE, ("theme" :> "light") @@ ("idle" :> "60")), S("eDP", TRUE, ("primary" :> "true") @@ ("scale" :> "1")), S("cursor", TRUE, "size" :> "30") >>,
  << S("wallpaper", TRUE, "path" :> "hill"), S("general", FALSE, "theme" :> "light"), S("panel", TRUE, "pinned" :> "x") >>,
  << S("eDP", TRUE, "mode" :> "1"), S("eDP", FALSE, << >>) >> }
====
