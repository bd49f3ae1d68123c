----------------------------- MODULE MCOtaFlash -----------------------------
(* The instance that TLC checks: a firmware of three files, otaflash.py in  *)
(* the middle, so that a swap has a file before and one after it; and two   *)
(* bundles, each of them good or not.                                      *)
EXTENDS OtaFlash

CONSTANTS code, flash, lib
ThreeFiles == <<code, flash, lib>>
TwoBundles == {1, 2}
=============================================================================
