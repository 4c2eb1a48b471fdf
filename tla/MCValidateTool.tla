--------------------------- MODULE MCValidateTool ---------------------------
(* Two validators; one finding at two lines, with two severities and       *)
(* without a line, and one that has no place; a snapshot of up to four.    *)
EXTENDS ValidateTool

MCTargets == <<"a", "b">>
At(severity, line, what) == [severity |-> severity, line |-> line, what |-> what]
MCIssues == {At("error", 1, "m"), At("warning", 1, "m"), At("warning", 2, "m"),
             At("warning", 0, "m"), At("info", 1, "nowhere")}
MCBaselines ==
    {[k \in Keys |-> IF k = <<"located", "warning", "m">> THEN w
                     ELSE IF k = <<"located", "error", "m">> THEN e
                     ELSE IF k = <<"line0", "warning", "m">> THEN z ELSE 0] :
        w \in 0..2, e \in 0..1, z \in 0..1}
MCLimits == {-1, 1}
=============================================================================
