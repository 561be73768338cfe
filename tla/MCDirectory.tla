---------------------------- MODULE MCDirectory ----------------------------
(***************************************************************************)
(* Four employees in a line or under one head, with chains that share      *)
(* their last level as the seed's do; the reporting chain is searched for  *)
(* two hops, so that a decider can be out of reach.                        *)
(***************************************************************************)
EXTENDS Directory

Four == {"e1", "e2", "e3", "e4"}

Line == [e \in Four |-> CASE e = "e1" -> "e2" [] e = "e2" -> "e3"
                          [] e = "e3" -> "e4" [] OTHER -> "nobody"]
Star == [e \in Four |-> IF e = "e4" THEN "nobody" ELSE "e4"]

Chains == [t \in Teams |-> IF t = "it-support" THEN <<"e2", "e3", "e4">> ELSE <<"e1", "e4">>]

Deciders == {{}, {"e3"}, {"e4"}, {"e2", "e3"}, {"e1", "e3", "e4"}}

SmallOrgs == [manager : {Line, Star}, holders : {{}, {"e1"}},
              eligible : {{"e1", "e4"}}, deciders : Deciders, chain : {Chains}]
=============================================================================
