-------------------------- MODULE MCParameterTransfer -------------------------
EXTENDS ParameterTransfer

MCCount == [comp \in Components |-> IF comp = DefaultComponent THEN 2 ELSE 1]
================================================================================
