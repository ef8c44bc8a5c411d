------------------------------ MODULE MCReplay ------------------------------
(* For TLC: a match of MCReferee's duel and the replay of its log. *)
EXTENDS MCReferee, Replay
=============================================================================
