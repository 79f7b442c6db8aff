-------------------------- MODULE MCResourceGuard --------------------------
(***************************************************************************)
(* Two resources, one of which may be missing from a sample, the           *)
(* thresholds of settings.py, and loads below the release point, inside    *)
(* the hysteresis band, on the first rung and above the ceiling: their     *)
(* means over one to three samples reach every level.                      *)
(***************************************************************************)
EXTENDS ResourceGuard, TLC

CONSTANTS vram, cpu, none

MCResources == {vram, cpu}
MCLoads == (vram :> {none, 40, 97}) @@ (cpu :> {40, 84, 90, 97})
MCLadder == <<88, 92, 94, 96>>
=============================================================================
