------------------------------- MODULE MCShell -------------------------------
(***************************************************************************)
(* Small instances of the shell for TLC: what some programs do, all short  *)
(* lines, and pairs of longer ones.                                        *)
(***************************************************************************)
EXTENDS ShellProperties, TLC

CONSTANTS one, many, cat, none   \* programs: one unit, more than fit, a filter, no program

SomeWrites == [w \in {one, many, none, Exit} |-> IF w = one THEN 1 ELSE IF w = many THEN 3 ELSE 0]

Short == UNION {[1..n -> {one, none} \cup Marks] : n \in 0..4}
Busy  == {<<one, "|", cat, "|", cat>>, <<many, "|", cat, "&">>, <<many, "|", none, "|", cat, "&">>,
          <<many, "|", cat>>, <<one, "|", cat, ">", one>>, <<cat, "<", none>>, <<one, "&">>}
SomeScripts == {<<l>> : l \in Short} \cup {<<l, m>> : l, m \in Busy}
  \cup {<<<<one>>, <<Exit>>>>, <<<<cat, "&">>, <<Exit, "&">>>>,
        <<<<one, "<", none, "|", cat, "|", cat, ">", one>>>>,
        <<<<one, "|", cat, ">", one, "|", cat>>>>}

=============================================================================
