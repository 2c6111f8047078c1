-------------------------- MODULE MCSchedulingRequests --------------------------
(* SchedulingRequests with the tables of MCConfigStore, for TLC. *)
EXTENDS SchedulingRequests, MCConfigStore

CONSTANT t1

TaggedAll == [t \in Targets |-> {s1, h}]
=============================================================================
