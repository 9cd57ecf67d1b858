-------------------------- MODULE HandlerContract --------------------------
(***************************************************************************)
(* What the server counts on in a Handler (resolver/types.go): started     *)
(* once for a query, in a goroutine of its own, it records trace lines     *)
(* until it returns a response, an error, or nothing; it need not return.  *)
(* Request starts handlers that do just this; Interactive is shown to do   *)
(* no more.                                                                *)
(***************************************************************************)
EXTENDS Naturals, Sequences

CONSTANTS Requests,         \* the queries
          RRs,              \* the records handlers respond with
          HandlerResponses, \* what handlers may respond
          MaxLines          \* bound: trace lines of one query

(* "BADVERS" stands for the codes above 15, which a message without EDNS   *)
(* has no room for.                                                        *)
Rcodes == {"NOERROR", "NXDOMAIN", "SERVFAIL", "FORMERR", "REFUSED", "BADVERS"}

ASSUME HandlerResponsesAssumption ==
    HandlerResponses \subseteq
        [rcode : Rcodes, answer : Seq(RRs), extra : Seq(RRs), packs : BOOLEAN]
ASSUME MaxLinesAssumption == MaxLines \in Nat

VARIABLES handler,      \* where the handler's goroutine is, for each query
          returned,     \* what Handle returned
          lines         \* how many trace lines there are

contractVars == <<handler, returned, lines>>

Error == [kind |-> "error"]
Nil == [kind |-> "nil"]
Responds(r) == [kind |-> "response", response |-> r]
Results == {Error, Nil} \cup {Responds(r) : r \in HandlerResponses}

NoHandlers == /\ handler = [q \in Requests |-> "none"]
              /\ returned = [q \in Requests |-> Nil]
              /\ lines = [q \in Requests |-> 0]

Starts(q) == /\ handler[q] = "none"
             /\ handler' = [handler EXCEPT ![q] = "running"]
             /\ UNCHANGED <<returned, lines>>

Traces(q) == /\ handler[q] = "running"
             /\ lines[q] < MaxLines
             /\ lines' = [lines EXCEPT ![q] = @ + 1]
             /\ UNCHANGED <<handler, returned>>

Returns(q, r) == /\ handler[q] = "running"
                 /\ handler' = [handler EXCEPT ![q] = "returned"]
                 /\ returned' = [returned EXCEPT ![q] = r]
                 /\ UNCHANGED lines

HandlersNext == \E q \in Requests :
                    Starts(q) \/ Traces(q) \/ \E r \in Results : Returns(q, r)

HandlersSpec == NoHandlers /\ [][HandlersNext]_contractVars
=============================================================================
