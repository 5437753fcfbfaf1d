------------------------------ MODULE ProcText ------------------------------
(***************************************************************************)
(* The read handlers of the /proc files whose text is handed out by one    *)
(* read: all_bytes_read_proc and all_readers_proc of project/module.c,     *)
(* simple_read_proc of lab02/ex5 and lab02/simple_module, and, in the same *)
(* shape, simple_read of lab02/ex3.  One global flag, eof or copied, tells *)
(* that the text has been handed out and that the next read, whoever makes *)
(* it and of whichever file, is the end of the file.                       *)
(*                                                                         *)
(* Nothing is locked: the flag is tested, the text is copied to the user,  *)
(* and only then the flag is set.  What the text says, and how much of it  *)
(* fits in the user's buffer, is left out.                                 *)
(***************************************************************************)
EXTENDS Integers, FiniteSets

CONSTANTS Readers,      \* the processes that read the files
          MAX_OPENINGS  \* bound of the model: how often each of them opens one

VARIABLES
    eof,      \* the global flag
    pc,       \* where each reader is: "closed", "open" between two reads,
              \* "text" or "end" after the test of the flag, "ended" once it
              \* has closed the file at its end
    opened,   \* how often it has opened a file
    texts,    \* history: the texts it has got since then
    endings,  \* history: the ends of file others have been told since then
    clean     \* history: the readings never overlapped, and none was given up

flag == <<eof, clean>>
readings == <<pc, texts, endings>>
vars == <<flag, readings, opened>>

Away(r) == pc[r] \in {"closed", "ended"}

Init ==
    /\ eof = FALSE
    /\ pc = [r \in Readers |-> "closed"]
    /\ opened = [r \in Readers |-> 0]
    /\ texts = [r \in Readers |-> 0]
    /\ endings = [r \in Readers |-> 0]
    /\ clean = TRUE

\* The module is loaded anew, with fresh global variables.
Load ==
    /\ eof' = FALSE
    /\ pc' = [r \in Readers |-> "closed"]
    /\ texts' = [r \in Readers |-> 0]
    /\ endings' = [r \in Readers |-> 0]
    /\ clean' = TRUE
    /\ UNCHANGED opened

Goto(r, from, to) ==
    /\ pc[r] = from
    /\ pc' = [pc EXCEPT ![r] = to]

Open(r) ==
    /\ Away(r)
    /\ opened[r] < MAX_OPENINGS
    /\ opened' = [opened EXCEPT ![r] = @ + 1]
    /\ pc' = [pc EXCEPT ![r] = "open"]
    /\ texts' = [texts EXCEPT ![r] = 0]
    /\ endings' = [endings EXCEPT ![r] = 0]
    /\ clean' = (clean /\ \A s \in Readers : Away(s))
    /\ UNCHANGED eof

\* A read tests the flag.
TestFlag(r) ==
    /\ Goto(r, "open", IF eof THEN "end" ELSE "text")
    /\ UNCHANGED <<flag, opened, texts, endings>>

\* Mutation: the flag is never set.
CopyTextUnflagged(r) ==
    /\ Goto(r, "text", "open")
    /\ texts' = [texts EXCEPT ![r] = @ + 1]
    /\ UNCHANGED <<flag, opened, endings>>

\* The text has been copied to the user: the flag is set.
CopyText(r) ==
    /\ Goto(r, "text", "open")
    /\ eof' = TRUE
    /\ texts' = [texts EXCEPT ![r] = @ + 1]
    /\ UNCHANGED <<clean, opened, endings>>

\* The copy fails and the flag is left alone.  (A call without memory for the
\* text returns before it tests the flag, and changes nothing at all.)
CopyFails(r) ==
    /\ Goto(r, "text", "open")
    /\ UNCHANGED <<flag, opened, texts, endings>>

\* The read returns 0, the flag is cleared, and the reader closes the file.
ReportEnd(r) ==
    /\ Goto(r, "end", "ended")
    /\ eof' = FALSE
    /\ endings' = [s \in Readers |-> IF s = r \/ Away(s) THEN endings[s] ELSE endings[s] + 1]
    /\ UNCHANGED <<clean, opened, texts>>

\* The reader closes the file before it has been told its end.
GiveUp(r) ==
    /\ Goto(r, "open", "closed")
    /\ clean' = (clean /\ texts[r] = 0)
    /\ UNCHANGED <<eof, opened, texts, endings>>

Reader(r) ==
    \/ Open(r) \/ TestFlag(r) \/ CopyText(r) \/ CopyFails(r) \/ ReportEnd(r) \/ GiveUp(r)

Next == Load \/ \E r \in Readers : Reader(r)

Spec == Init /\ [][Next]_vars

------------------------------------------------------------------------------
(* Properties                                                              *)

TypeOK ==
    /\ eof \in BOOLEAN
    /\ pc \in [Readers -> {"closed", "open", "text", "end", "ended"}]
    /\ opened \in [Readers -> 0 .. MAX_OPENINGS]
    /\ texts \in [Readers -> Nat]
    /\ endings \in [Readers -> Nat]
    /\ clean \in BOOLEAN

\* As long as the readings come one after the other and nobody gives up after
\* the text, every reader gets the text once and then the end of the file.
OneTextEach == \A r \in Readers : clean /\ pc[r] = "ended" => texts[r] = 1

\* However the readings overlap, a reader gets the text once more only when
\* another reader has taken an end of file since: no file goes on for ever
\* unless others keep opening and ending.
RepeatsNeedEndings == \A r \in Readers : texts[r] <= 1 + endings[r]
=============================================================================
