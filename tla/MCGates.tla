------------------------------ MODULE MCGates ------------------------------
(* Two names with one file, a week of three days of two hours of two minutes. *)
EXTENDS Gates

MCKey == [d \in Devices |-> CHOOSE k \in Keys : TRUE]

Weekly(days, h1, m1, h2, m2) ==
    [kind |-> "weekly", days |-> days, start |-> [h |-> h1, m |-> m1], end |-> [h |-> h2, m |-> m2]]

Days(a, b) == [from |-> a, to |-> b]

\* A production device: last and first day overnight, the second at noon, and
\* an absolute range; and a lab device with a whole day and a spec with hour 7.
MCDeviceConfig ==
    [d \in Devices |->
        IF d = "core"
        THEN [env |-> "prod", cap |-> 1, requireBackup |-> FALSE,
              windows |-> {Weekly({Days(2, 0)}, 1, 1, 0, 0), Weekly({Days(1, 1)}, 0, 1, 1, 0),
                           [kind |-> "absolute", start |-> 9, end |-> 11]},
              allowed |-> None, denied |-> {<<"user">>}]
        ELSE [env |-> "lab", cap |-> 0, requireBackup |-> FALSE,
              windows |-> {Weekly({Days(1, 1)}, 0, 1, 0, 1), Weekly({Days(0, 2)}, 7, 0, 1, 0)},
              allowed |-> {<<"ip">>}, denied |-> {}]]

\* The options differ from a plain invocation in one thing, or in two.
Plain == [profile |-> "operator", strict |-> FALSE, readOnly |-> FALSE,
          force |-> FALSE, skipDoctor |-> FALSE, skipWindow |-> FALSE]

MCOptions ==
    {Plain, [Plain EXCEPT !.profile = "agent"], [Plain EXCEPT !.profile = "agent-strict"],
     [Plain EXCEPT !.strict = TRUE], [Plain EXCEPT !.readOnly = TRUE],
     [Plain EXCEPT !.force = TRUE], [Plain EXCEPT !.skipDoctor = TRUE],
     [Plain EXCEPT !.skipWindow = TRUE],
     [Plain EXCEPT !.profile = "agent", !.skipWindow = TRUE]}

MCPaths == {<<"ip", "dns">>, <<"system", "routerboard">>, <<"user">>}
MCDenied == {<<"system", "routerboard">>}
=============================================================================
