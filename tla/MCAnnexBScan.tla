---------------------------- MODULE MCAnnexBScan ----------------------------
(* Units for TLC: two keyframes, one with a four-byte start code, which ends the *)
(* unit before it with a zero; a unit that is none of the three kinds.       *)
EXTENDS AnnexBScan

MCUnits == {<<0, 0, 1, 7>>, <<0, 0, 1, 8>>, <<0, 0, 1, 5, 0>>, <<0, 0, 0, 1, 37>>,
            <<0, 0, 1, 1>>}
=============================================================================
