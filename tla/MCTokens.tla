------------------------------ MODULE MCTokens ------------------------------
(***************************************************************************)
(* Module Tokens with integers of at most three bytes, the widest whose    *)
(* values TLC computes with, of different widths so that no field can pass *)
(* for another.                                                            *)
(***************************************************************************)
EXTENDS Tokens

MCWidth ==
    [transport |-> 1, qpNum |-> 3, rkey |-> 2, remoteAddr |-> 3, length |-> 2, portNum |-> 1, lid |-> 2]

Token(t, gid, n) ==
    [transport |-> t, qpNum |-> n[1], gid |-> gid, rkey |-> n[2], remoteAddr |-> n[3],
     length |-> n[4], portNum |-> n[5], lid |-> n[6]]

\* The least and the greatest values of the fields, and values whose bytes
\* all differ; GIDs that hold an address of 10 and of 15 characters, and none
MCRdmaTokens ==
    {Token(DC, kIpv4MappedPrefix \o <<10, 9, 100, 0>>, <<0, 0, 0, 0, 0, 0>>),
     Token(RC, kIpv4MappedPrefix \o <<255, 199, 200, 101>>, <<66051, 1029, 395016, 2315, 12, 3342>>),
     Token(RC, [kIpv4MappedPrefix EXCEPT ![1] = 254] \o <<1, 2, 3, 4>>,
           <<16777215, 65535, 16777215, 65535, 255, 65535>>)}
=============================================================================
