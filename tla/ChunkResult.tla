----------------------------- MODULE ChunkResult -----------------------------
(***************************************************************************)
(* What the provider chunk store promises for one row per execution        *)
(* contract, whoever writes it and in whatever order answers arrive: a     *)
(* failure may be replaced by anything, a success only by a success.       *)
(***************************************************************************)
CONSTANT Contracts

VARIABLE result

Results == {"none", "failed", "ok"}

Init == result = [c \in Contracts |-> "none"]

Record(c, r) ==
    /\ result[c] = "ok" => r = "ok"
    /\ result' = [result EXCEPT ![c] = r]

Next == \E c \in Contracts : \E r \in {"failed", "ok"} : Record(c, r)

Spec == Init /\ [][Next]_result
==============================================================================
