---------------------------- MODULE MCCalibration ----------------------------
(* Instances of Calibration for TLC.                                          *)
EXTENDS Calibration

\* Other accounts, the image pool, headers without a percent, every percent of a success,
\* and a failure that shows the highest.
EveryKind ==
  {r \in RequestKinds : ~r.failed \/ r.percent = Full}

=============================================================================
