----------------------------- MODULE MCLintTool -----------------------------
(* A focus file, a script with an event call that may go, an English and a *)
(* French text, and the changelog; one edit, or a rename, at a time.       *)
EXTENDS LintTool

File(ext, event, under) == [ext |-> ext, event |-> event, under |-> under]
Focus == File("txt", "none", {"common/", "common/national_focus/"})
Effects == File("txt", "dropped", {"common/", "common/scripted_effects/"})
Texts == File("yml", "none", {"localisation/", "localisation/english/"})
Changelog == File("txt", "none", {"Changelog.txt"})
MCPaths == {Focus, Effects, Texts, Changelog}

Clean == [p \in MCPaths |-> "clean"]
MCTrees ==
    {[Clean EXCEPT ![Focus] = s] : s \in PathStates \ {"renamed", "target"}}
    \cup {[Clean EXCEPT ![Effects] = s] : s \in {"modified", "edited_gone"}}
    \cup {[Clean EXCEPT ![Texts] = "staged"], [Clean EXCEPT ![Changelog] = "modified"]}
    \cup {[Clean EXCEPT ![Focus] = "renamed", ![Effects] = "target"],
          [Clean EXCEPT ![Effects] = "renamed", ![Changelog] = "target"],
          [Clean EXCEPT ![Focus] = "deleted", ![Texts] = "modified"]}

MCAvailable == {"style", "equipment_variants", "events", "slow"}
MCAutoMap == [x \in {"common/", "localisation/"} |-> IF x = "common/" THEN {"events"} ELSE {}]
MCUpstream == [p \in MCPaths |->
    IF p = Focus THEN {"events", "slow"} ELSE IF p = Effects THEN {"style", "mod_tools"} ELSE {}]

Call(mode, checks, unnamed, validators) ==
    [mode |-> mode, checks |-> checks, omitted |-> unnamed, validators |-> validators]
MCRequests ==
    {Call(mode, <<"tick_spot_check", "loc_encoding">>, FALSE, {}) : mode \in Modes \cup {"files"}}
    \cup {Call(mode, <<"changelog">>, FALSE, validators) : mode \in Modes,
        validators \in {{"auto"}, {"*"}, {"equipment_variants", "nope"}}}
    \cup {Call(mode, <<"common_mistakes">>, TRUE, {}) : mode \in Modes}
    \cup {Call("changed", <<>>, FALSE, {})}
    \cup {Call("none", <<>>, TRUE, {}), Call("all", <<"braces">>, TRUE, {})}
MCLimits == {-1, 1}
=============================================================================
