----------------------------- MODULE MCBaseCopy -----------------------------
(* One table copied whole, and one in two parts by physical block.           *)
EXTENDS BaseCopy

MCTable == {"t", "u"}
MCPart == {"t_all", "u_0", "u_1"}
MCTableOf == [p \in MCPart |-> IF p = "t_all" THEN "t" ELSE "u"]
MCBytes == [p \in MCPart |-> CASE p = "u_0" -> 3 [] p = "t_all" -> 2 [] OTHER -> 1]
=============================================================================
