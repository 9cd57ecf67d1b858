----------------------------- MODULE MCRequest -----------------------------
(* Messages of every form, the queries over UDP (a reply to one over TCP   *)
(* has nothing cut off, and may never be written, like the refusal here),  *)
(* and handlers that respond in full, with a code of their own, or with    *)
(* what cannot be packed.                                                  *)
EXTENDS Request

CONSTANTS a, g

MCMessages == {[form |-> "malformed", udp |-> TRUE],
               [form |-> "questions", udp |-> TRUE],
               [form |-> "iterative", udp |-> FALSE],
               [form |-> "query", udp |-> TRUE]}

MCHandlerResponses ==
    {[rcode |-> "NOERROR", answer |-> <<a>>, extra |-> <<g>>, packs |-> TRUE],
     [rcode |-> "NXDOMAIN", answer |-> << >>, extra |-> << >>, packs |-> FALSE]}
=============================================================================
