------------------------------ MODULE Telemetry ------------------------------
(****************************************************************************)
(* What the two threads of watchdogd see of the machine: the temperature    *)
(* (thermal_reader.c), and the table of file descriptors every reading and  *)
(* every connection draws from.                                             *)
(*                                                                          *)
(* The data is abstracted to what the daemon acts on: whether a reading is  *)
(* a violation.  msp_thermal_reader_telemetry_fn fills in no SRAM usage and *)
(* no security flag, so in this daemon a violation is a temperature.        *)
(****************************************************************************)
EXTENDS Naturals

CONSTANT FdLimit    \* descriptors the process may open besides stdin, stdout, stderr

VARIABLES
  hot,              \* the hottest matching zone is above MSP_CRITICAL_TEMP_C
  open              \* descriptors open in the daemon

telemetryVars == <<hot, open>>

ASSUME FdLimitAssumption == FdLimit \in Nat

\* A reading holds the directory stream and, inside it, the file of one zone.
ReadingFds == 2

\* "hot" is a sample that violates the limits.  Without descriptors no zone is
\* readable, the count of zones stays 0 and the sample is +INFINITY.
Reading == IF hot \/ open + ReadingFds > FdLimit THEN "hot" ELSE "cool"

=============================================================================
