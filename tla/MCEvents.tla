------------------------------- MODULE MCEvents -------------------------------
(* The bus and the log for TLC: two recording fibres and the closer emit     *)
(* three envelopes; one watched subscriber joins, pulls and lags; the second *)
(* execution races the sink, and one reader resumes.                        *)
EXTENDS Events, TLC

FibreSymmetry == Permutations(Fibres \ {Closer})
=============================================================================
