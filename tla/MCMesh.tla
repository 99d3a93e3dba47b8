-------------------------------- MODULE MCMesh ----------------------------------
(* Mesh for TLC: what two worker jobs may set worker-index to.                  *)
EXTENDS Mesh

Spelled(num) == [num |-> num, plain |-> FALSE]

TriedMatrices ==
  { <<Decimal(1), Decimal(2)>>,           \* as meant
    <<NoText, NoText>>,                   \* not set
    <<Decimal(1), Decimal(0)>>,           \* counted from zero
    <<Decimal(2), Spelled({1})>>,         \* "01"
    <<Decimal(1), Decimal(1)>> }          \* used twice
===============================================================================
