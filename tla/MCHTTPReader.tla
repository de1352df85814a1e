----------------------------- MODULE MCHTTPReader -----------------------------
(* Instances of HTTPReader for TLC. *)
EXTENDS HTTPReader

\* Bodies shorter and longer than the buffers, no chunk and several.
MCMessages ==
    {[framing |-> "empty"], [framing |-> "length", size |-> 1], [framing |-> "length", size |-> 5],
     [framing |-> "chunked", chunks |-> <<>>], [framing |-> "chunked", chunks |-> <<1, 3>>],
     [framing |-> "upgrade", size |-> 3],
     [framing |-> "unsized", size |-> 0], [framing |-> "unsized", size |-> 2]}

\* Requests without a body.
MCRequests == {[framing |-> "empty"]}
=============================================================================
