---------------------------- MODULE MCStaticList ----------------------------
(* TLC instance of StaticList: every sequence of operations on a small     *)
(* buffer.  The values are only copied, so they are a set of model values. *)
EXTENDS StaticList
=============================================================================
