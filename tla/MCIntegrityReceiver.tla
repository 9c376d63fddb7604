------------------------ MODULE MCIntegrityReceiver ------------------------
(***************************************************************************)
(* Two blocks of two frames: a block has an inner and a last frame, and    *)
(* there is a block before and after each boundary.  Two payloads are      *)
(* enough to tell a right frame from a wrong one and are interchangeable.  *)
(***************************************************************************)
EXTENDS IntegrityReceiver, TLC

CONSTANTS p, q  \* the two payloads

MCPayload == {p, q}
PayloadSymmetry == Permutations(MCPayload)
=============================================================================
