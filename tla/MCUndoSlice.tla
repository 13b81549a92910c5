----------------------------- MODULE MCUndoSlice ------------------------------
(* Two bounds of the run, over those of the constants.                       *)
EXTENDS UndoSlice

CONSTANT x

(* The bytes differ while the log has three slices for two buffers; it takes *)
(* four before upread may turn the stream, and those hold one value.         *)
OneValue ==
    \/ eof + (IF op = "append" THEN len ELSE 0) <= MaxEof - SliceSize
    \/ val \in {x, Zero} /\ \A a \in Addr : flat[a] \in {x, Zero}

(* Nothing is promised of bytes and places once an access of the file has    *)
(* failed: the run ends with the request in which one has.                   *)
UntilFailed == fails = 0 \/ op # "idle"
===============================================================================
