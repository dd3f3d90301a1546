----------------------------- MODULE MCPlatform -----------------------------
(***************************************************************************)
(* Module Platform with the libraries that lack one function, or all of    *)
(* the optional ones, and the environments that set one variable or none.  *)
(***************************************************************************)
EXTENDS Platform

All == ToSet(Required) \cup Optional
MCLibraries == {All, ToSet(Required)} \cup {All \ {f} : f \in All}

Unset ==
    [STAGE_TIMEOUT_MS |-> <<>>, MAX_TRANSFERS |-> <<>>, REQUIRE_GPU_DIRECT |-> <<>>, DMABUF |-> <<>>]

\* Long enough for a number past its limit, and for one past its type's
Texts == BoundedSeq({"0", "1", "2", "-"}, 3)
Switches == {<<"0">>, <<"n", "1">>, <<"1">>, <<"y">>}

MCEnvironments ==
    {[Unset EXCEPT !.STAGE_TIMEOUT_MS = t] : t \in Texts}
    \cup {[Unset EXCEPT !.MAX_TRANSFERS = t] : t \in Texts}
    \cup {[Unset EXCEPT !.REQUIRE_GPU_DIRECT = t] : t \in Switches}
    \cup {[Unset EXCEPT !.DMABUF = t] : t \in Switches}
    \cup {[Unset EXCEPT !.DMABUF = <<"0">>, !.REQUIRE_GPU_DIRECT = <<"1">>]}
=============================================================================
