---------------------------- MODULE MCHijackedCode ----------------------------
(* The model-checking instance of HijackedCode.  Of 64 addresses the last 16 *)
(* are the kernel's, and a jump takes two of them.                           *)
EXTENDS HijackedCode

Symbol(name, addr) == [name |-> name, addr |-> addr]

\* The function lies among others, or is the last of the kernel, with a module
\* before it; it is too short, or has a second name, or its own name belongs to
\* another function, too, or it is at the end of the table, or in none.
MCTables == {
    <<Symbol("other", 48), Symbol("random_read", 50), Symbol("next", 54)>>,
    <<Symbol("other", 50), Symbol("random_read", 60), Symbol("of_module", 49)>>,
    <<Symbol("random_read", 50), Symbol("next", 51), Symbol("other", 54)>>,
    <<Symbol("random_read", 50), Symbol("second_name", 50), Symbol("next", 54)>>,
    <<Symbol("random_read", 58), Symbol("other", 61), Symbol("random_read", 63)>>,
    <<Symbol("other", 48), Symbol("random_read", 50)>>,
    <<Symbol("other", 48), Symbol("next", 50)>> }

MCRooms == {54, 60}
===============================================================================
