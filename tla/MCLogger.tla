------------------------------ MODULE MCLogger ------------------------------
(* Bounds for Logger: three files so that the fourth rotation drops an      *)
(* archive, a size limit every line exceeds so that every message rotates,  *)
(* levels on both sides of LOG_INFO.                                        *)
EXTENDS Logger

MCInitLevels == {LOG_DEBUG, LOG_INFO, LOG_INFO + 1}

(* The only level core/main.c asks for. *)
MCMainLevels == {LOG_INFO}
=============================================================================
