---------------------------- MODULE FilterLoop ----------------------------
(***************************************************************************)
(* The loop of filterInBailiwick over the answer section of a response     *)
(* (resolver/helper.go): starting at the queried name, take every record   *)
(* owned by the expected name out of the remaining ones, then expect the   *)
(* target of the first CNAME among them; stop as soon as the expected name *)
(* leaves the zone the server is trusted for, owns nothing that remains,   *)
(* or continues nowhere.                                                   *)
(*                                                                         *)
(* Bailiwick!AnswerPositions is what the other modules use for its result. *)
(***************************************************************************)
EXTENDS Referral, Functions

CONSTANT Inputs     \* the calls considered: [zone, name, answer]

ASSUME InputsAssumption ==
    \A c \in Inputs : /\ c.zone \in Name
                      /\ c.name \in Name
                      /\ IsSection(c.answer)

VARIABLES input,        \* the arguments of the call
          expect,       \* the name whose records are wanted next
          remaining,    \* positions of the records not yet taken
          accepted,     \* positions of the records taken: filteredAnswer
          done          \* the loop has been left

vars == <<input, expect, remaining, accepted, done>>

answer == input.answer
(* Mutant: the records are expected in the order of the chain.             *)
MatchedInOrder ==
    {i \in remaining \cap At(answer, expect) : \A j \in accepted : j < i}

Matched == remaining \cap At(answer, expect)
Continues == Matched \cap OfType(answer, "CNAME")

Init == /\ input \in Inputs
        /\ expect = input.name
        /\ remaining = DOMAIN input.answer
        /\ accepted = {}
        /\ done = FALSE

(* The loop condition fails: the chain has left the zone.                  *)
LeaveZone == /\ ~done
             /\ ~IsSubDomain(input.zone, expect)
             /\ done' = TRUE
             /\ UNCHANGED <<input, expect, remaining, accepted>>

(* Nothing that remains belongs to the expected name.                      *)
NoMatch == /\ ~done
           /\ IsSubDomain(input.zone, expect)
           /\ Matched = {}
           /\ done' = TRUE
           /\ UNCHANGED <<input, expect, remaining, accepted>>

(* Mutant: the records taken remain.                                       *)
TakeKeepsRemaining ==
    /\ ~done
    /\ IsSubDomain(input.zone, expect)
    /\ Matched # {}
    /\ accepted' = accepted \cup Matched
    /\ UNCHANGED <<input, remaining>>

Take == /\ ~done
        /\ IsSubDomain(input.zone, expect)
        /\ Matched # {}
        /\ accepted' = accepted \cup Matched
        /\ remaining' = remaining \ Matched
        /\ UNCHANGED input

(* The records taken end the chain.                                        *)
ChainEnd == /\ Take
            /\ Continues = {}
            /\ done' = TRUE
            /\ UNCHANGED expect

(* Mutant: the last CNAME continues the chain.                             *)
ChainStepLast ==
    /\ Take
    /\ Continues # {}
    /\ expect' = answer[Last(Continues)].target
    /\ UNCHANGED done

(* The first CNAME taken continues it.                                     *)
ChainStep == /\ Take
             /\ Continues # {}
             /\ expect' = answer[First(Continues)].target
             /\ UNCHANGED done

Next == LeaveZone \/ NoMatch \/ ChainEnd \/ ChainStep

Spec == Init /\ [][Next]_vars
-----------------------------------------------------------------------------
TypeOK == /\ input \in Inputs
          /\ expect \in Name
          /\ remaining \subseteq DOMAIN answer
          /\ accepted = DOMAIN answer \ remaining
          /\ done \in BOOLEAN

(* The loop computes the closed form: when it is left, the records taken   *)
(* are those owned by the names the in-zone CNAME chain from the queried   *)
(* name goes through, no fewer and no more - whatever cycles, repeated     *)
(* owners, spellings or order the answer section has.                      *)
ComputesChain ==
    done => accepted = AnswerPositions(input.zone, input.name, answer)

(* No record of the answer is believed unless its owner lies in the zone   *)
(* the server is trusted for.                                              *)
OnlyTrusted == \A i \in accepted : IsSubDomain(input.zone, answer[i].owner)

SingleCNAMEs ==
    \A i, j \in OfType(answer, "CNAME") :
        EqualFold(answer[i].owner, answer[j].owner) => i = j

(* The records may come in any order (helper.go's reason for scanning the  *)
(* remaining records instead of reading them in sequence): unless a name   *)
(* has two CNAMEs, a permuted answer section yields the same records.      *)
OrderIrrelevant ==
    done /\ SingleCNAMEs =>
        \A p \in Bijection(DOMAIN answer, DOMAIN answer) :
            AnswerPositions(input.zone, input.name, [i \in DOMAIN answer |-> answer[p[i]]])
                = {i \in DOMAIN answer : p[i] \in accepted}
=============================================================================
