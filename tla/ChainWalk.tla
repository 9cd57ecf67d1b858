----------------------------- MODULE ChainWalk -----------------------------
(***************************************************************************)
(* unresolvedCNAMETarget (handlers/recursive.go) on the records that       *)
(* filterInBailiwick kept of a response, which Lookup returns unchanged:   *)
(* the walk along their CNAMEs, a turn of the loop at a time and with its  *)
(* bound on the hops, that decides where resolution has to be restarted.   *)
(*                                                                         *)
(* Referral!UnresolvedCNAMETarget is what the other modules use for its    *)
(* result.                                                                 *)
(***************************************************************************)
EXTENDS FilterLoop, Variant

VARIABLES qtype,        \* the type the client asked for
          current,      \* the name whose records are looked at next: expect
          hops,         \* turns made
          target,       \* the name to restart at, if there is one
          returned      \* the walk is over

walkVars == <<qtype, current, hops, target, returned>>

kept == Keep(answer, accepted)

WalkInit == /\ Init
            /\ qtype \in Type
            /\ current = input.name
            /\ hops = 0
            /\ target = {}
            /\ returned = FALSE

(* Handle does not walk along an answer without records.                   *)
Called == done /\ accepted # {} /\ ~returned

(* Mutant: one hop less, which is what the chain through all records takes.*)
WithinFewerHops == hops < Cardinality(accepted)

WithinHops == hops <= Cardinality(accepted)

Return(names) == /\ returned' = TRUE
                 /\ target' = names
                 /\ UNCHANGED <<qtype, current, hops>>

(* The client asked for the CNAME itself.                                  *)
NotChased == /\ Called
             /\ qtype = "CNAME"
             /\ Return({})

Turn == Called /\ qtype # "CNAME" /\ WithinHops

(* The chain ends at a name without records: a restart, unless it is the   *)
(* name asked for.                                                         *)
ChainCut == /\ Turn
            /\ At(kept, current) = {}
            /\ Return(IF hops > 0 THEN {current} ELSE {})

Answered == /\ Turn
            /\ At(kept, current) \cap OfType(kept, qtype) # {}
            /\ Return({})

(* Records, but neither of the type asked for nor a CNAME.                 *)
NotContinued == /\ Turn
                /\ At(kept, current) # {}
                /\ At(kept, current) \cap OfType(kept, qtype) = {}
                /\ CNAMEsAt(kept, current) = {}
                /\ Return({})

(* The last CNAME is the one that stays in cname.                          *)
Hop == /\ Turn
       /\ At(kept, current) \cap OfType(kept, qtype) = {}
       /\ CNAMEsAt(kept, current) # {}
       /\ current' = kept[Last(CNAMEsAt(kept, current))].target
       /\ hops' = hops + 1
       /\ UNCHANGED <<qtype, target, returned>>

GivesUp == /\ Called
           /\ qtype # "CNAME"
           /\ ~WithinHops
           /\ Return({})

Walk == NotChased \/ ChainCut \/ Answered \/ NotContinued \/ Hop \/ GivesUp

WalkNext == \/ Next /\ UNCHANGED walkVars
            \/ Walk /\ UNCHANGED vars

allVars == <<vars, walkVars>>

WalkSpec == WalkInit /\ [][WalkNext]_allVars /\ WF_allVars(WalkNext)
-----------------------------------------------------------------------------
WalkTypeOK == /\ qtype \in Type
              /\ current \in Name
              /\ hops \in 0..Cardinality(accepted) + 1
              /\ target \in SUBSET Name
              /\ returned \in BOOLEAN

(* The walk finds the restart target of the closed form: it is not misled  *)
(* by cycles, spellings or several CNAMEs of a name, and where its bound   *)
(* on the hops ends it, there was no target to be found.                   *)
WalkFindsTarget ==
    returned => target = UnresolvedCNAMETarget(kept, input.name, qtype)

(* The records kept and the walk along them fit together: resolution is    *)
(* restarted at one name at most, and at one the server was not trusted    *)
(* for or said nothing of, else the records kept are all the chain needs.  *)
(* That takes names with one CNAME each: of two the filter follows the     *)
(* first (helper.go:277-282) and the walk the last (recursive.go:262-264), *)
(* which may end at a name whose records the filter dropped.               *)
RestartOnlyIfCut ==
    returned => /\ Cardinality(target) <= 1
                /\ SingleCNAMEs => \A n \in target :
                        ~IsSubDomain(input.zone, n) \/ At(answer, n) = {}

(* Neither loop can go round for ever, whatever cycles the CNAMEs make: a  *)
(* turn of the first takes records that no later turn takes again, a turn  *)
(* of the second one of its hops, and a loop that has ended is not resumed.*)
TurnsLeft == <<AsLongAs(~done), Cardinality(remaining), AsLongAs(~returned),
               Cardinality(accepted) + 1 - hops>>

EveryTurnTakes == [][TurnsLeft' \in Measures(4) /\ Below(TurnsLeft', TurnsLeft)]_allVars

(* Both loops end, and leave a name to restart at or none.                 *)
BothEnd == <>(done /\ (accepted = {} \/ returned))
=============================================================================
