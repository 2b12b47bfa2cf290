---------------------------- MODULE MCCaptureFile ---------------------------
(***************************************************************************)
(* CaptureFile on captures of up to two records that end at any byte.      *)
(***************************************************************************)
EXTENDS CaptureFile

MCRecords ==
  { [sec |-> 16909060, frac |-> 258, orig |-> 300, data |-> <<1, 2>>],
    [sec |-> 8, frac |-> 1, orig |-> 0, data |-> <<>>] }

MCCaptures ==
  [ magic : {MICRO_LOW, MICRO_HIGH, NANO_LOW, NANO_HIGH, <<10, 13, 13, 10>>},
    records : UNION { [1..n -> MCRecords] : n \in 0..2 },
    extra : {0, 1, 256}, cut : 0..60 ]

=============================================================================
