------------------------------ MODULE MCSearch ------------------------------
(***************************************************************************)
(* Four entries that match in the title, the document, the section or the  *)
(* content, queries of one and two terms, and room for two results.        *)
(***************************************************************************)
EXTENDS Search

MCIndex ==
  << [t |-> <<"guide">>, d |-> <<"guide">>, s |-> <<"usage">>, c |-> <<"lease", "timer">>],
     [t |-> <<"lease", "timer">>, d |-> <<"recovery">>, s |-> <<"usage">>, c |-> <<"timer">>],
     [t |-> <<"timer", "and", "lease">>, d |-> <<"lease">>, s |-> <<>>, c |-> <<"lease">>],
     [t |-> <<>>, d |-> <<"lease", "timer">>, s |-> <<"lease">>, c |-> <<>>] >>

MCQueries ==
  {<<>>, <<"lease">>, <<"guide">>, <<"lease", "timer">>, <<"timer", "usage">>, <<"absent">>}
=============================================================================
