----------------------------- MODULE MCScilExec -----------------------------
(***************************************************************************)
(* Instances of ScilExec for TLC.  Widths are scaled down: int8 has 2      *)
(* bits, int16 3 and int32 4, so that every way to lose a bit is there.    *)
(***************************************************************************)
EXTENDS ScilExec

CONSTANTS vx, vb, lk, lw, sf

MCVariables == {vx}
MCWide == [v \in MCVariables |-> "int32"]
MCTwo == {vx, vb}
MCTwoTypes == [v \in MCTwo |-> IF v = vx THEN "int32" ELSE "int8"]
\* lk is ldc.i4.1, an int8; lw is an ldc.i4 that needs an int32.
MCLiterals == {lk, lw}
MCLitType == [l \in MCLiterals |-> IF l = lk THEN "int8" ELSE "int32"]
MCLitCil == [l \in MCLiterals |-> "i4"]
MCLitVal == [l \in MCLiterals |-> IF l = lk THEN 1 ELSE 5]
MCSigParams == [h \in {sf} |-> <<"int32">>]
MCSigResult == [h \in {sf} |-> "int16"]
MCPrecision == [t \in StackTypes |-> CASE t = "int8" -> 2 [] t = "int16" -> 3
                                       [] t = "int32" -> 4 [] OTHER -> 8]
MCSize == [t \in IntTypes |->
             CASE t = "bool" -> 2
               [] t \in {"int8", "uint8"} -> 4
               [] t \in {"int16", "uint16", "char"} -> 8
               [] t \in {"int32", "uint32"} -> 16
               [] OTHER -> 32]
MCArguments == {-1, 1, 6}

MergeOps == {"push", "push_integer", "binop", "branch_true", "ret"}

=============================================================================
