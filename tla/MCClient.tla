------------------------------- MODULE MCClient -------------------------------
(***************************************************************************)
(* A small instance of the client for TLC.                                 *)
(***************************************************************************)
EXTENDS ClientProperties

CONSTANTS u1, ana, pw, g1, b1

AnasLogin == {Login(ana, pw)}

Lists == {GroupsList({g1}), UsersList({u1})}
===============================================================================
