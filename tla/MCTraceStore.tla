---------------------------- MODULE MCTraceStore ----------------------------
(* The trace store as requests put records into it and clients get them:   *)
(* its steps are those of Request, whose trace ids are the store's Ids.    *)
(* There is one more request than the store has room for.  Every message   *)
(* is a query and every response the same: the timeouts, errors and traces *)
(* with no id make the records differ.                                     *)
EXTENDS TraceStore, TLC

CONSTANTS Messages, RRs, HandlerResponses, MaxLines, TraceTXT, NoReply, NoTrace

VARIABLES pc, message, traceID, ctxDone, overdue, resultCh, reply, outcome, sent,
          handler, returned, lines

R == INSTANCE Request WITH Requests <- Ids

MCMessages == {[form |-> "query", udp |-> TRUE]}

MCHandlerResponses ==
    {[rcode |-> "NOERROR", answer |-> << >>, extra |-> << >>, packs |-> TRUE]}

MCRecords == R!TraceRecords

(* Without the fairness of Request: the properties here are invariants.    *)
RequestsSpec == R!Init /\ [][R!Next]_R!vars

Symmetry == Permutations(Ids)

(* A client that is told an id can look it up and finds the code it was    *)
(* sent, unless Capacity other records have been used since                *)
(* (server.go:298-299, trace.go:52-53).                                    *)
ToldIdsAreFound == R!ToldIdsAreFound
=============================================================================
