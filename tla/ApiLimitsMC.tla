----------------------------- MODULE ApiLimitsMC -----------------------------
(* ApiLimits for TLC: workers, devices and requests are interchangeable. *)
EXTENDS ApiLimits, TLC

MCSymmetry == Permutations(Workers) \cup Permutations(Devices) \cup Permutations(Requests) \cup Permutations(Coords)
=============================================================================
