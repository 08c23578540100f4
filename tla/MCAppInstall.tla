---------------------------- MODULE MCAppInstall ----------------------------
(* Instances of AppInstall for TLC: two apps, one of them missing from the *)
(* index baked into the installer image.                                   *)
EXTENDS AppInstall
CONSTANTS lpr, legacy, w1, w2

BothApps == {lpr, legacy}
OnlyLpr  == {lpr}
=============================================================================
