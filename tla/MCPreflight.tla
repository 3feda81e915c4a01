---------------------------- MODULE MCPreflight -----------------------------
(* Two nodes, the candidates of a burst.  MCOpinions: the sources disagree,  *)
(* or only the first can tell; MCEveryOpinion: every answer of three sources *)
(* up to renaming of countries.                                             *)
EXTENDS Preflight, TLC

CONSTANTS n1, n2, u1, u2, b1

MCLists == {<<n1, n2>>, << >>}

MCOpinions == {<<"NL", "SC", "SC">>, <<"NL", "XX", "XX">>}

MCEveryOpinion ==
  LET Earlier(o, i, c) == \E j \in 1 .. i - 1 : o[j] = c
  IN  {o \in [1 .. 3 -> {"NL", "US", "SC", "XX"}] :
         \A i \in 1 .. 3 : /\ o[i] = "US" => Earlier(o, i, "NL")
                           /\ o[i] = "SC" => Earlier(o, i, "US")}
=============================================================================
