------------------------- MODULE HistoricalTransfers -------------------------
(***************************************************************************)
(* The two protocols that the repository keeps beside the one in use, and  *)
(* the copy with their recovery record, checked together: a behaviour is   *)
(* one of the three, and the others rest.                                  *)
(***************************************************************************)
EXTENDS SingleFileTransfer

CONSTANTS
    Size, BlockFrames, CalmLosses, MaxLosses,
    TotalBytes, BlockBytes, FrameBytes, RangesPerPage, MaxInterruptions

ASSUME ResumableAssumption ==
    /\ {Size, BlockFrames} \subseteq Nat \ {0}
    /\ {CalmLosses, MaxLosses} \subseteq Nat
    /\ TotalBytes \subseteq Nat /\ MaxInterruptions \in Nat
    /\ {BlockBytes, FrameBytes, RangesPerPage} \subseteq Nat \ {0}

VARIABLES
    protocol,       \* "single", "resumable" or "copy"
    calm, offering, keeping, sends, openings, objects, store, destination, offers, repeated,
    toOffering, toKeeping, link, up, told, mishaps,
    totalBytes, stored, file, written, discarded, copier, reconciler

Resumable ==
    INSTANCE ResumableTransfer
    WITH sender <- offering, receiver <- keeping, loops <- sends, toSender <- toOffering,
         data <- toKeeping, connected <- up, troubles <- mishaps

Copy == INSTANCE ResumableCopy

resumableVars == <<calm, offering, keeping, sends, openings, objects, store, destination, offers,
               repeated, toOffering, toKeeping, link, up, told, mishaps>>
copyVars == <<totalBytes, stored, file, written, discarded, copier, reconciler>>
vars == <<protocol, singleVars, resumableVars, copyVars>>

Init ==
    /\ protocol \in {"single", "resumable", "copy"}
    /\ SingleInit /\ Resumable!ResumableInit /\ Copy!CopyInit
    /\ protocol # "single" => frames = 0
    /\ protocol # "resumable" => ~calm
    /\ protocol # "copy" => totalBytes = 0 /\ stored = Copy!NoRecord

Runs(name) == protocol = name /\ UNCHANGED protocol

Next ==
    \/ Runs("single") /\ SingleNext /\ UNCHANGED <<resumableVars, copyVars>>
    \/ Runs("resumable") /\ Resumable!ResumableNext /\ UNCHANGED <<singleVars, copyVars>>
    \/ Runs("copy") /\ Copy!CopyNext /\ UNCHANGED <<singleVars, resumableVars>>

Settles ==
    \/ Runs("single") /\ SingleSettles /\ UNCHANGED <<resumableVars, copyVars>>
    \/ Runs("resumable") /\ Resumable!ResumableSettles /\ UNCHANGED <<singleVars, copyVars>>

FairSpec == Init /\ [][Next]_vars /\ WF_vars(Settles)

(* The properties of the resumable transfer, as ResumableTransfer states   *)
(* them.  A side that shows TRANSFER_BYTES_COMPLETE has the whole file     *)
(* closed;                                                                 *)
CompletedIsWhole == Resumable!CompletedIsWhole

(* what the sender shows as safe, or the record counts, has been written;  *)
SafeIsWritten == Resumable!SafeIsWritten

(* what the sender shows as safe is in the record, which is not so         *)
(* (ForgottenBlock);                                                       *)
SafeIsPersisted == Resumable!SafeIsPersisted

(* a new connection carries no block that the receiver has persisted;      *)
NoPersistedBlockResent == Resumable!NoPersistedBlockResent

(* and an accepted transfer survives calm losses.                          *)
CalmTransferCompletes == Resumable!CalmTransferCompletes

(* And of ResumableCopy: what a record counts has been written, but for    *)
(* what went with a page, and the pages of a record tell the sender        *)
(* exactly the blocks it misses.                                           *)
RecordIsFaithful ==
    /\ Copy!RecordedIsWritten
    /\ Copy!ReconciledIsMissing
==============================================================================
