-------------------------------- MODULE MCLearn --------------------------------
(* Learn for TLC: one of each thing a grant can name. *)
EXTENDS Learn, TLC

CONSTANTS cat, python, script, reports, web, tool, other

Act(t, of, at) == [tool |-> t, of |-> of, at |-> at, secret |-> FALSE]
Run(of, args, at) ==
    [tool |-> "shell.run", of |-> of, args |-> args, at |-> at, secret |-> FALSE]

MCActs ==
    {Act("fs.write", reports, "inside"),
     [Act("fs.write", reports, "inside") EXCEPT !.secret = TRUE],
     Run(cat, "a file", "inside"), Run(cat, "a file", "protected"), Run(cat, "two", "inside"),
     Run(cat, "two", "outside"),
     Run(python, "a file", "inside"),
     Run(script, "a file", "inside"),
     Act("fs.write", other, "inside"),
     Act("net.request", web, "inside"),
     Act("mcp.call", tool, "inside"), Act("mcp.call", tool, "protected")}

(* cat is allowed one command already. *)
MCPolicies ==
    {{Grant("shell_ask", python), Grant("mcp_registry", tool),
      Grant("shell_exact", <<cat, "two">>)}}

Symmetry == Permutations(Files)
=============================================================================
