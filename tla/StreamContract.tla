--------------------------- MODULE StreamContract ---------------------------
(***************************************************************************)
(* What handleStream promises the client of each stream: it refuses with a *)
(* frame and the end of the stream, or runs a handler and then writes a    *)
(* frame or ends the stream; a panic on the way is answered by a frame,    *)
(* and the stream stays open.  Expiry, Touch, the reading of the request   *)
(* and its decryption are hidden.  SessionServer implements this with all  *)
(* its checks and QuicSession with the keys, so what QuicSession lets the  *)
(* server do on a stream is within what handleStream promises.             *)
(***************************************************************************)
CONSTANT Streams

VARIABLES
    phase,     \* of each stream: none, open, handler, stream, done
    written,   \* the streams with a frame written below handleStream
    closed     \* the streams the server has closed

Init == phase = [s \in Streams |-> "none"] /\ written = {} /\ closed = {}

Move(s, to) == phase' = [phase EXCEPT ![s] = to]

Accept(s) == phase[s] = "none" /\ Move(s, "open") /\ UNCHANGED <<written, closed>>

Refuse(s) ==
    /\ phase[s] \in {"none", "open"} /\ Move(s, "done")
    /\ written' = written \cup {s} /\ closed' = closed \cup {s}

Handle(s, as) == phase[s] = "open" /\ Move(s, as) /\ UNCHANGED <<written, closed>>

\* The response may be too large for a frame.
Return(s) ==
    /\ phase[s] = "handler" /\ Move(s, "done")
    /\ written' \in {written, written \cup {s}} /\ closed' = closed \cup {s}

Push(s) == phase[s] = "stream" /\ written' = written \cup {s} /\ UNCHANGED <<phase, closed>>

StreamReturn(s) ==
    /\ phase[s] = "stream" /\ Move(s, "done")
    /\ closed' = closed \cup {s} /\ UNCHANGED written

\* A panic, of a handler or of the reading of the request, is answered, and the
\* stream stays open.
Recover(s) ==
    /\ phase[s] \in {"open", "handler", "stream"} /\ Move(s, "done")
    /\ written' = written \cup {s} /\ UNCHANGED closed

Step(s) ==
    \/ Accept(s) \/ Refuse(s) \/ Handle(s, "handler") \/ Handle(s, "stream")
    \/ Return(s) \/ Push(s) \/ StreamReturn(s) \/ Recover(s)

Next == \E s \in Streams : Step(s)

Spec == Init /\ [][Next]_<<phase, written, closed>>
=============================================================================
