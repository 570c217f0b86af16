----------------------------- MODULE MCSystemTime -----------------------------
(***************************************************************************)
(* Small instances of SystemTime: words below 11 and three ticks a second, *)
(* so that a lap of the tick count is no whole number of seconds, as in 32 *)
(* bits. The device runs for two laps and a little. Started in "1970", it  *)
(* sees the servers' seconds wrap ("2036", after 4 s); started at 25 ticks, *)
(* in the middle of a second, those since 1970 ("2106", after 11 s).       *)
(***************************************************************************)
EXTENDS SystemTime

MCStarts == {0, 25}

ASSUME MCFewLaps == FewLaps
=============================================================================
