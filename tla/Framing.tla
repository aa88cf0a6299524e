------------------------------ MODULE Framing -------------------------------
(* Frames on a stream (network/transport/message-framing.js).  A stream is   *)
(* the sequence of frames a peer sends, each of which arrives in two pieces: *)
(* its first eight bytes, the magic and the length, and the rest.  Bytes that*)
(* do not complete a piece change nothing.  A frame is named for its type    *)
(* ("data" stands for every type the transports hand on), or for its fault:  *)
(* "badHeader" has a wrong magic or is too large, "badType" an unknown type. *)
EXTENDS Integers, FiniteSets, Sequences

Frame == {"data", "ping", "disconnect", "badHeader", "badType"}

\* Frames of which `read' pieces show that they are faulty (_parseNext).
Faulty(stream, read) ==
    {i \in 1..Len(stream) : \/ stream[i] = "badHeader" /\ read >= 2 * i - 1
                            \/ stream[i] = "badType" /\ read >= 2 * i}

\* Frames that `read' pieces complete.
Complete(stream, read) == {i \in 1..Len(stream) : read >= 2 * i}

\* Faulty variant: parsed frames stay in the buffer.
FeedUnsliced(stream, done, read) ==
    LET Parsed == {i \in Complete(stream, read) : \A j \in Faulty(stream, read) : i < j}
    IN [frames |-> [i \in 1..Cardinality(Parsed) |-> i],
        error |-> Faulty(stream, read) # {}, done |-> 0]

\* feed(), when the buffer starts behind the first `done' frames: the frames it
\* returns, and how many frames the buffer starts behind then.  A fault empties
\* the buffer.
feed(stream, done, read) ==
    LET Faults == {i \in Faulty(stream, read) : i > done}
        Parsed == {i \in Complete(stream, read) :
                      i > done /\ \A j \in Faults : i < j}
    IN [frames |-> [i \in 1..Cardinality(Parsed) |-> done + i],
        error |-> Faults # {},
        done |-> IF Faults = {} THEN done + Cardinality(Parsed) ELSE read \div 2]

=============================================================================
