--------------------------- MODULE MCServerDriver ---------------------------
EXTENDS ServerDriver, TLC

CONSTANTS r1, c1, c2

Scene(reads, calls, events) == [reads |-> reads, calls |-> calls, events |-> events]

(* One call with failing writes or a failing read; one read whose peer     *)
(* ends; an idle connection that receives DISCONNECT or an invalid frame.  *)
EndScenes ==
    {Scene({}, {c1}, {"write_error", "write_timeout"}),
     Scene({}, {c1}, {"error", "stuck"}),
     Scene({r1}, {}, {"eof"}),
     Scene({}, {}, {"bad", "disconnect", "eof"})}

ReadScene == {Scene({r1}, {}, {})}
CallScene == {Scene({}, {c1, c2}, {})}

CallSymmetry == Permutations({c1, c2})
=============================================================================
