------------------------------ MODULE MCParts ------------------------------
(* Three parts that share no state, explored by one run: proposals, queries *)
(* of research items, and the ends of runs.  A behaviour is one of them.    *)
EXTENDS MCProposals, MCResearch, MCDelivery

VARIABLE part  \* which of the three moves

PartInit ==
  /\ part \in {"proposals", "research", "ends"}
  /\ Init /\ ResearchInit /\ DeliveryInit
  /\ part # "ends" => config = CHOOSE c \in Tasks : TRUE

ProposalsMove == part = "proposals" /\ Next /\ UNCHANGED <<researchVars, deliveryVars, part>>
ResearchMove == part = "research" /\ ResearchNext /\ UNCHANGED <<vars, deliveryVars, part>>
EndsMove == part = "ends" /\ DeliveryNext /\ UNCHANGED <<vars, researchVars, part>>

PartSpec ==
  PartInit /\ [][ProposalsMove \/ ResearchMove \/ EndsMove]_<<vars, researchVars, deliveryVars, part>>

SymmetricParts == Symmetric \cup SymmetricReaders
=============================================================================
