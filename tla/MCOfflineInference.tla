------------------------- MODULE MCOfflineInference -------------------------
(* OfflineInference for TLC: one sample tried three times, two samples of  *)
(* one episode, and one sample each of two.                                *)
EXTENDS OfflineInference

Config(samples, repeats, limit) ==
    [samples |-> samples, repeats |-> repeats, attempts |-> limit]

MCConfigs == {Config(<<"e1">>, 1, 3), Config(<<"e1", "e1">>, 1, 1), Config(<<"e1", "e2">>, 1, 1)}
============================================================================
