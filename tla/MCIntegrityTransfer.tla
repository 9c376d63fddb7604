------------------------ MODULE MCIntegrityTransfer ------------------------
(***************************************************************************)
(* Two blocks of two frames at most: a block that is resumed and one that  *)
(* is not, a frame that ends a block and one that does not.                *)
(***************************************************************************)
EXTENDS IntegrityTransfer

\* Distinct payloads, so that a misplaced frame cannot pass for the right one.
MCSource ==
    [b \in Blocks |-> [k \in 1 .. FrameCount |->
        IF b = 0 THEN IF k = 1 THEN "a1" ELSE "a2"
        ELSE IF k = 1 THEN "b1" ELSE "b2"]]
MCPayload == {"a1", "a2", "b1", "b2", "bad"}

InFirstBlock(kind, mode) == [kind |-> kind, block |-> 0, mode |-> mode]

NoFaults == {NoFault}
OnceFaults ==
    {NoFault, InFirstBlock("payload", "once"),
     InFirstBlock("expectedDigest", "once")}
ManyFaults ==
    {NoFault, InFirstBlock("payload", "always"),
     InFirstBlock("expectedDigest", "once"),
     InFirstBlock("manifestRoot", "once")}
=============================================================================
