----------------------------- MODULE MCServing ------------------------------
(* Commands whose names meet as tools, one kept from MCP, and one below    *)
(* auth; a provider that offers one tool under an exported name.           *)
EXTENDS Serving, TLC

CONSTANTS k1, k2, q1, q2, u1, w1, w2

Cmd(id, path, mcp) == [id |-> id, path |-> path, completion |-> FALSE, expose_mcp |-> mcp, expose_chat |-> mcp]
MCRegistered == {Cmd("slash", <<<<"a">>, <<"b">>>>, TRUE), Cmd("flat", <<<<"a", "b">>>>, FALSE),
                 Cmd("hidden", <<<<"h">>>>, FALSE), Cmd("login", <<<<"auth">>, <<"login">>>>, TRUE)}
Tool(name, id) == [name |-> name, id |-> id]
MCOffered == {<<>>, <<Tool(<<"a", "b">>, "mine"), Tool(<<"d">>, "dyn")>>}
MCChecks == <<"one", "two", "three">>
=============================================================================
