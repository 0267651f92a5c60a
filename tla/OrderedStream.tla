--------------------------- MODULE OrderedStream ---------------------------
(***************************************************************************)
(* What the relay promises for one stream, with no connection, lease, queue*)
(* or sequence number in sight: the session of a stream begins at most once*)
(* and reads what was written to the stream, in the order in which it was  *)
(* written and without a gap; it reads nothing more when it is over, and   *)
(* nothing is written to a stream that was closed.  Either side may end at *)
(* any time, of its own or because the other side is gone, and what is not *)
(* read by then is never read.  Contract of ServerWorkerRelayStream and    *)
(* ServerWorkerStreamSession in packages/server-worker-relay/src/index.ts  *)
(* and of docs/specs/133-outbound-server-worker-relay/spec.md ("Stream     *)
(* ordering is per stream id").                                            *)
(***************************************************************************)
EXTENDS Integers, Sequences

VARIABLES writer,   (* "new", "open" or "closed"                           *)
          written,  (* how often something was written                     *)
          reader,   (* "waiting", "reading" or "over"                      *)
          got       (* what the session has read: numbers of the writes    *)

FirstOnes(n) == [i \in 1..n |-> i]

Init == writer = "new" /\ written = 0 /\ reader = "waiting" /\ got = <<>>

(* A stream is open, or closed at once where there is no connection.       *)
Open ==
    /\ writer = "new" /\ writer' \in {"open", "closed"}
    /\ UNCHANGED <<written, reader, got>>

Write ==
    /\ writer = "open" /\ writer' \in {"open", "closed"}
    /\ written' = written + 1
    /\ UNCHANGED <<reader, got>>

Close ==
    /\ writer = "open" /\ writer' = "closed"
    /\ UNCHANGED <<written, reader, got>>

(* The session begins, with what has arrived so far.                       *)
Begin ==
    /\ reader = "waiting" /\ reader' = "reading" /\ writer # "new"
    /\ \E n \in 0..written : got' = FirstOnes(n)
    /\ UNCHANGED <<writer, written>>

Read ==
    /\ reader = "reading" /\ Len(got) < written
    /\ got' = Append(got, Len(got) + 1)
    /\ UNCHANGED <<writer, written, reader>>

End ==
    /\ reader = "reading" /\ reader' = "over"
    /\ UNCHANGED <<writer, written, got>>

(* A stream that is gone before its session begins; the session may begin  *)
(* all the same and read what had arrived.                                 *)
Miss ==
    /\ reader = "waiting" /\ reader' = "over" /\ writer # "new"
    /\ got' = got \/ \E n \in 0..written : got' = FirstOnes(n)
    /\ UNCHANGED <<writer, written>>

Next == Open \/ Write \/ Close \/ Begin \/ Read \/ End \/ Miss

Spec == Init /\ [][Next]_<<writer, written, reader, got>>
=============================================================================
