----------------------------- MODULE MCHandlers -----------------------------
(* The two handlers that ask somebody else what to answer, an operator or  *)
(* a model.  A program runs with one of them (main.go:62-111): the other   *)
(* takes no step.                                                          *)
(*                                                                         *)
(* Interactive: two queries, and an operator who types up to one line      *)
(* ahead (for the query that reads it or for one before), edits each       *)
(* response twice at most and may stop typing at any time.  One of the     *)
(* lines asks for a code that fits in no message.                          *)
(*                                                                         *)
(* Gemini: integers of four bits for those of 32.  The command line may    *)
(* leave each limit at its default, forbid a thing, or give more tokens    *)
(* than fit: a budget cut to a negative one, to zero, to a small one, or   *)
(* one so large that a turn overflows the sum.                             *)
EXTENDS Interactive, Gemini

VARIABLE handlerName

handlerVars == <<handlerName, interactiveVars, geminiVars>>

Line(cmd) == [cmd |-> cmd, section |-> "answer", rcode |-> "NOERROR"]

MCLines == {Line(c) : c \in Commands} \cup {[Line("add") EXCEPT !.section = "extra"],
                                            [Line("respond") EXCEPT !.rcode = "BADVERS"]}

Records(n) == [i \in 1..n |-> Rec]

MCHandlerResponses ==
    {[rcode |-> l.rcode, answer |-> Records(n), extra |-> Records(m), packs |-> Packs(l.rcode)] :
        l \in MCLines, n \in 0..MaxEdits, m \in 0..MaxEdits}

MCDefault == [turns |-> 3, tokens |-> 4, perTurn |-> 2, total |-> 4]
MCConfigs == [turns : {-1, 0, 1, 2}, tokens : {0, 1, 5, 7, 8, 16, 18},
              perTurn : {0, 1, 3}, total : {-1, 0, 1}]

MCHandlersInit ==
    /\ handlerName \in {"interactive", "gemini"}
    /\ InteractiveInit
    /\ GeminiInit
    /\ handlerName = "gemini" \/ limit = LimitOf(MCDefault)

Operating == handlerName = "interactive" /\ UNCHANGED <<handlerName, geminiVars>>
Asking == handlerName = "gemini" /\ UNCHANGED <<handlerName, interactiveVars>>

HandleNext(q) ==
    \/ Query(q) /\ Operating
    \/ OpenSession(q) /\ Operating
    \/ TurnAway(q) /\ Operating
    \/ AddRecord(q) /\ Operating
    \/ Clear(q) /\ Operating
    \/ TraceLine(q) /\ Operating
    \/ NoEffect(q) /\ Operating
    \/ Respond(q) /\ Operating
    \/ FailQuery(q) /\ Operating
    \/ InputEnds(q) /\ Operating

ModelNext ==
    \/ Ask /\ Asking
    \/ Reply /\ Asking
    \/ Answer /\ Asking
    \/ LookUp /\ Asking
    \/ PerformLookup /\ Asking
    \/ NextTurn /\ Asking
    \/ Fail /\ Asking

MCHandlersNext ==
    \/ TypeLine /\ Operating
    \/ CloseInput /\ Operating
    \/ \E q \in Requests : HandleNext(q)
    \/ ModelNext

(* The fairness is that of Interactive; Gemini has none to state.          *)
MCHandlersSpec ==
    /\ MCHandlersInit
    /\ [][MCHandlersNext]_handlerVars
    /\ \A q \in Requests : WF_interactiveVars(Handle(q))
=============================================================================
