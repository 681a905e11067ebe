------------------------------- MODULE MCMake -------------------------------
(***************************************************************************)
(* Small programs for the make facility.                                   *)
(***************************************************************************)
EXTENDS Make

\* The example of error 192 in errors.tex: A imports B and M, B imports M.
Ex_Unit    == {"M.def", "B.def", "A.mod"}
Ex_Mode    == [u \in Ex_Unit |-> IF u = "A.mod" THEN "main" ELSE "def"]
Ex_Imports == [u \in Ex_Unit |-> CASE u = "M.def" -> {} [] u = "B.def" -> {"M.def"}
                                   [] u = "A.mod" -> {"M.def", "B.def"}]
Ex_Uses    == [u \in {"M.def", "B.def"} |-> Ex_Imports[u]]
Ex_Order   == <<"M.def", "B.def", "A.mod">>
Ex_Reads   == [u \in Ex_Unit |-> CASE u = "M.def" -> <<>> [] u = "B.def" -> <<"M.def">>
                                   [] u = "A.mod" -> <<"M.def", "B.def">>]

\* Modula-2 and Oberon-2: P has an implementation, which imports its own
\* definition; Q imports P and shows it; R imports P, then Q, and A imports R,
\* then P.  A symbol file lists its imports from the last to the first, so that
\* for A the file of Q, which shows P, is read before that of P.
Mix_Unit    == {"P.def", "P.mod", "Q.ob2", "R.ob2", "A.mod"}
Mix_Mode    == [u \in Mix_Unit |-> CASE u = "P.def" -> "def" [] u = "P.mod" -> "mod"
                                    [] u = "A.mod" -> "main" [] OTHER -> "oberon"]
Mix_Imports == [u \in Mix_Unit |-> CASE u = "P.def" -> {} [] u = "R.ob2" -> {"P.def", "Q.ob2"}
                                    [] u = "A.mod" -> {"P.def", "R.ob2"} [] OTHER -> {"P.def"}]
Mix_Uses    == [u \in {"P.def", "Q.ob2", "R.ob2"} |-> IF u = "Q.ob2" THEN {"P.def"} ELSE {}]
Mix_Order   == <<"P.def", "P.mod", "Q.ob2", "R.ob2", "A.mod">>
Mix_Reads   == [u \in Mix_Unit |-> CASE u = "P.def" -> <<>> [] u = "R.ob2" -> <<"P.def", "Q.ob2">>
                                    [] u = "A.mod" -> <<"R.ob2", "Q.ob2", "P.def">>
                                    [] OTHER -> <<"P.def">>]

\* With CHANGESYM on, and with it off and symbol files always compared.
ChangingSym == {[changesym |-> TRUE, m2cmpsym |-> FALSE]}
DefaultSym  == {[changesym |-> FALSE, m2cmpsym |-> FALSE]}
MixSyms     == ChangingSym \cup {[changesym |-> FALSE, m2cmpsym |-> TRUE]}
=============================================================================
