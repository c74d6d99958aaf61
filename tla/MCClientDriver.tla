--------------------------- MODULE MCClientDriver ---------------------------
EXTENDS ClientDriver, TLC

CONSTANTS c1, c2, k1

Scene(calls, events) == [calls |-> calls, events |-> events]

(* Two one-frame calls race for the queue; or one upload meets what the    *)
(* reader, or what the writer and the caller may meet.                     *)
SafetyScenes ==
    {Scene({c1, c2}, {"write_error"}),
     Scene({k1}, {"eof", "error", "malformed", "violation", "bad_reply", "drop"}),
     Scene({k1}, {"write_error", "write_timeout", "capacity", "policy", "exhausted",
                  "source"})}

(* One call; its caller goes away, its peer ends, or its write fails.      *)
LiveScenes == {Scene({c1}, {"drop"}), Scene({c1}, {"eof"}), Scene({c1}, {"write_error"})}

UploadScene == {Scene({k1}, {"drop"})}

CallSymmetry == Permutations({c1, c2})
=============================================================================
