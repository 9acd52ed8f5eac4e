---------------------------- MODULE MCLineTiming ----------------------------
(***************************************************************************)
(* The messages of the line_timing run: every single byte, undisturbed,    *)
(* and pairs of bytes with few, alternating and many ones, disturbed.      *)
(***************************************************************************)
EXTENDS LineTiming

SingleBytes == {<<v>> : v \in Octets}

BytePairs == {0, 85, 255} \X {0, 85, 255}

(* The lines of the run are within the tolerances that LineTiming_proofs   *)
(* shows to be enough.                                                     *)
ASSUME LinesTolerable == \A l \in Lines : Tolerable(l)

==============================================================================
