--------------------------- MODULE MCSlotExchange ---------------------------
(* The model-checking instance of SlotExchange: its liveness property       *)
(* singles out one thread of each kind.                                     *)
EXTENDS SlotExchange

CONSTANTS OneReader, OneWriter

\* Only one reader and one writer are scheduled fairly; the others may stop
\* anywhere, holding the mutex of an object or not.
LoneSpec ==
    /\ Spec
    /\ WF_vars(Reader(OneReader))
    /\ WF_vars(Writer(OneWriter))

\* Because it only ever tries a mutex, no thread depends on another one being
\* scheduled: it returns even when the others stop for ever.
ReturnsAlone ==
    /\ <>(pc[OneReader] = "done")
    /\ <>(pc[OneWriter] = "done")
=============================================================================
