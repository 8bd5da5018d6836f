---------------------------- MODULE MCNpmAccount ----------------------------
(* How often a waiting step asks in the runs of NpmAccount: the code's     *)
(* forty attempts to reach NPM, and its three, six and five to log in,     *)
(* each cut to one or two.                                                 *)
EXTENDS NpmAccount

FewTries == [label \in {"wait", "own", "probe", "confirm", "created", "again"} |->
                 IF label \in {"wait", "probe"} THEN 2 ELSE 1]
=============================================================================
