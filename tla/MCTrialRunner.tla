--------------------------- MODULE MCTrialRunner ---------------------------
(* The sequence of the code, for two commands over one attempt.            *)
EXTENDS TrialRunner

PHASES == <<"restore_baseline", "start_server", "login", "run_controller",
            "disconnect", "collect_final", "cleanup">>
=============================================================================
