---------------------------- MODULE Interactive ----------------------------
(***************************************************************************)
(* InteractiveHandler (handlers/interactive.go): a human operator answers  *)
(* the queries, one at a time.                                             *)
(*                                                                         *)
(* The handlers of several queries share a channel with room for one token *)
(* and the operator's input.  A session outlives the deadline of its query *)
(* (no step looks at it): only the operator, or the end of the input, ends *)
(* it.  Meanwhile every other query fails at once.                         *)
(*                                                                         *)
(* The server only starts handlers here; that it may do so with this one   *)
(* is what KeepsInterface says.                                            *)
(***************************************************************************)
EXTENDS HandlerContract, FiniteSets

CONSTANTS Lines,        \* what the operator may type: [cmd, section, rcode]
          Rec,          \* a resource record
          MaxAhead,     \* bound: lines typed and not read
          MaxEdits,     \* bound: add and clear commands of a session
          Nobody

(* "trace" stands for the commands that record trace lines (trace, lookup);*)
(* "other" for those that only print, and for what dispatch rejects.       *)
Sections == {"answer", "extra"}
Edits == {"add", "clear"}
Commands == Edits \cup {"trace", "respond", "fail", "other"}

ASSUME LinesAssumption ==
    Lines \subseteq [cmd : Commands, section : Sections, rcode : Rcodes]
ASSUME BoundsAssumption == MaxAhead \in Nat \ {0} /\ MaxEdits \in Nat
ASSUME NobodyAssumption == Nobody \notin Requests

(* What the operator puts together packs if its code fits.                 *)
Packs(rcode) == rcode # "BADVERS"

(* The server serves whatever the operator can put together.               *)
ASSUME OperatorAssumption ==
    \A l \in Lines, n, m \in 0..MaxEdits :
        [rcode |-> l.rcode, answer |-> [i \in 1..n |-> Rec], extra |-> [i \in 1..m |-> Rec],
         packs |-> Packs(l.rcode)] \in HandlerResponses

VARIABLES operating,    \* the query whose handler has the token of busy
          pending,      \* the sections of its session
          input,        \* the lines typed and not read
          inputClosed,  \* the input has ended
          edits         \* the add and clear commands each session read (history)

operatorVars == <<operating, pending, input, inputClosed, edits>>
interactiveVars == <<contractVars, operatorVars>>

Empty == [s \in Sections |-> << >>]

InteractiveInit ==
    /\ NoHandlers
    /\ operating = Nobody
    /\ pending = Empty
    /\ input = << >>
    /\ inputClosed = FALSE
    /\ edits = [q \in Requests |-> << >>]

(* The server starts the handler of a query.                               *)
Query(q) == Starts(q) /\ UNCHANGED operatorVars

-----------------------------------------------------------------------------
(* Handle, from its start.                                                 *)
Entering(q) == handler[q] = "running" /\ operating # q

(* Mutant: the sections are not new.                                       *)
OpenSessionKeepsPending(q) ==
    /\ Entering(q)
    /\ operating = Nobody
    /\ operating' = q
    /\ UNCHANGED <<contractVars, pending, input, inputClosed, edits>>

OpenSession(q) ==
    /\ Entering(q)
    /\ operating = Nobody
    /\ operating' = q
    /\ pending' = Empty
    /\ UNCHANGED <<contractVars, input, inputClosed, edits>>

(* Mutant: the query waits for the operator.                               *)
TurnAwayNever(q) == FALSE

TurnAway(q) ==
    /\ Entering(q)
    /\ operating # Nobody
    /\ handler' = [handler EXCEPT ![q] = "returned"]
    /\ returned' = [returned EXCEPT ![q] = Error]
    /\ UNCHANGED <<lines, operatorVars>>

(* Mutant: the token is not given back.                                    *)
EndSessionBusy(q, r) ==
    /\ handler' = [handler EXCEPT ![q] = "returned"]
    /\ returned' = [returned EXCEPT ![q] = r]
    /\ UNCHANGED <<lines, operating, pending, inputClosed, edits>>

EndSession(q, r) ==
    /\ handler' = [handler EXCEPT ![q] = "returned"]
    /\ returned' = [returned EXCEPT ![q] = r]
    /\ operating' = Nobody
    /\ UNCHANGED <<lines, pending, inputClosed, edits>>

-----------------------------------------------------------------------------
(* The loop of Handle: a line is read and dispatched.                      *)
Read(q, Cmds) == /\ operating = q
                 /\ input # << >>
                 /\ Head(input).cmd \in Cmds
                 /\ input' = Tail(input)

Edited(q) == edits' = [edits EXCEPT ![q] = Append(@, Head(input))]
MayEdit(q) == Len(edits[q]) < MaxEdits

AddRecord(q) ==
    /\ Read(q, {"add"})
    /\ MayEdit(q)
    /\ pending' = [pending EXCEPT ![Head(input).section] = Append(@, Rec)]
    /\ Edited(q)
    /\ UNCHANGED <<contractVars, operating, inputClosed>>

Clear(q) ==
    /\ Read(q, {"clear"})
    /\ MayEdit(q)
    /\ pending' = Empty
    /\ Edited(q)
    /\ UNCHANGED <<contractVars, operating, inputClosed>>

(* Lines over the bound are not counted.                                   *)
TraceLine(q) ==
    /\ Read(q, {"trace"})
    /\ lines' = [lines EXCEPT ![q] = IF @ < MaxLines THEN @ + 1 ELSE @]
    /\ UNCHANGED <<handler, returned, operating, pending, inputClosed, edits>>

(* It only prints, or is rejected; so are edits over the bound.            *)
NoEffect(q) ==
    /\ Read(q, {"other"} \cup IF MayEdit(q) THEN {} ELSE Edits)
    /\ UNCHANGED <<contractVars, operating, pending, inputClosed, edits>>

BuildResponse(rcode) == [rcode |-> rcode, answer |-> pending["answer"],
                         extra |-> pending["extra"], packs |-> Packs(rcode)]

(* Mutant: the session goes on after its response.                         *)
RespondGoesOn(q) ==
    /\ Read(q, {"respond"})
    /\ handler' = [handler EXCEPT ![q] = "returned"]
    /\ returned' = [returned EXCEPT ![q] = Responds(BuildResponse(Head(input).rcode))]
    /\ UNCHANGED <<lines, operating, pending, inputClosed, edits>>

Respond(q) == /\ Read(q, {"respond"})
              /\ EndSession(q, Responds(BuildResponse(Head(input).rcode)))

FailQuery(q) == /\ Read(q, {"fail"})
                /\ EndSession(q, Error)

(* A line that the end of the input cuts short is lost.                    *)
InputEnds(q) == /\ operating = q
                /\ input = << >>
                /\ inputClosed
                /\ EndSession(q, Error)
                /\ UNCHANGED input

Handle(q) == \/ OpenSession(q) \/ TurnAway(q)
             \/ AddRecord(q) \/ Clear(q) \/ TraceLine(q) \/ NoEffect(q)
             \/ Respond(q) \/ FailQuery(q) \/ InputEnds(q)

-----------------------------------------------------------------------------
(* The operator types at any time, also ahead of the query, or stops.      *)
TypeLine == /\ ~inputClosed
            /\ Len(input) < MaxAhead
            /\ \E l \in Lines : input' = Append(input, l)
            /\ UNCHANGED <<contractVars, operating, pending, inputClosed, edits>>

CloseInput == /\ ~inputClosed
              /\ inputClosed' = TRUE
              /\ UNCHANGED <<contractVars, operating, pending, input, edits>>

InteractiveNext == TypeLine \/ CloseInput \/ \E q \in Requests : Query(q) \/ Handle(q)

(* The handlers run; queries need not come, and the operator need not type.*)
InteractiveSpec ==
    /\ InteractiveInit
    /\ [][InteractiveNext]_interactiveVars
    /\ \A q \in Requests : WF_interactiveVars(Handle(q))
-----------------------------------------------------------------------------
(* The operator is taken by a running handler only: one that has returned, *)
(* for whatever reason, has left the operator to the next query.           *)
InteractiveTypeOK ==
    /\ handler \in [Requests -> {"none", "running", "returned"}]
    /\ returned \in [Requests -> Results]
    /\ lines \in [Requests -> 0..MaxLines]
    /\ operating \in Requests \cup {Nobody}
    /\ operating # Nobody => handler[operating] = "running"
    /\ pending \in [Sections -> Seq({Rec})]
    /\ \A s \in Sections : Len(pending[s]) <= MaxEdits
    /\ input \in Seq(Lines) /\ Len(input) <= MaxAhead
    /\ inputClosed \in BOOLEAN
    /\ edits \in [Requests -> Seq(Lines)]
    /\ \A q \in Requests : Len(edits[q]) <= MaxEdits

(* A response holds the records added in the session of that very query    *)
(* after its last clear, and no others: nothing added for a query is left  *)
(* to the next, though they share the operator and the input, and lines    *)
(* typed ahead are read by whichever comes next (interactive.go:55-72).    *)
Added(q, section) ==
    {i \in 1..Len(edits[q]) :
        /\ edits[q][i].cmd = "add" /\ edits[q][i].section = section
        /\ \A j \in i..Len(edits[q]) : edits[q][j].cmd # "clear"}

OwnRecords ==
    \A q \in Requests : returned[q].kind = "response" =>
        /\ Len(returned[q].response.answer) = Cardinality(Added(q, "answer"))
        /\ Len(returned[q].response.extra) = Cardinality(Added(q, "extra"))

(* "A slow or absent operator can't back up the server" (interactive.go:   *)
(* 21-29): every handler returns, unless it is the one that has the        *)
(* operator, and that one does as well once the input has ended.           *)
HandlersReturn ==
    \A q \in Requests : handler[q] = "running" ~>
        handler[q] = "returned" \/ (operating = q /\ ~inputClosed)

(* The handler is one the server can call (types.go:62-69): whatever the   *)
(* operator types, each Handle returns at most once, and neither traces    *)
(* nor responds for another query or after its end.                        *)
KeepsInterface == HandlersSpec
=============================================================================
