------------------------- MODULE WaitQueueOneReader -------------------------
(***************************************************************************)
(* The wait-queue device with the single reading process its user programs *)
(* make of it: user_read.c run once at a time, any number of user_write.c. *)
(***************************************************************************)
EXTENDS WaitQueueDevice

CONSTANT Reader

ASSUME OneReaderAssumption == Readers = {Reader}

Flag == INSTANCE EventFlag WITH up <- data_available = 1,
                                servings <- served[Reader]

(* With one reader the device is an EventFlag: every successful read has a *)
(* publication of its own, though publications may be merged.  With two,   *)
(* both may pass the wait before either clears data_available.             *)
IsEventFlag == Flag!Spec

=============================================================================
