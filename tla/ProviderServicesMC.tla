-------------------------- MODULE ProviderServicesMC --------------------------
(* ProviderServices for TLC: requests are interchangeable; what changes fast is *)
(* cached for two ticks of two and a half minutes, the rest for three.         *)
EXTENDS ProviderServices, TLC

MCLife == [k \in Cached \cup Composed |->
            IF k \in {"air", "stations", "tile", "frames", "nowcast"} THEN 2 ELSE 3]
\* The feed at a saved place and that of a misspelled category are read and kept as
\* all is: UnknownCategory asks for them.
MCServices == AllServices \ {"saved", "misnamed"}
MCSymmetry == Permutations(Requests)
=============================================================================
