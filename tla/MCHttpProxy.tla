----------------------------- MODULE MCHttpProxy -----------------------------
(* Instances of HttpProxy for TLC.                                         *)
EXTENDS HttpProxy

\* A fetch (f), or two sessions (s, t) with streams of every kind.
Plan(f, s, t) == [c \in Conns |-> CASE c = "f" -> f [] c = "s" -> s [] c = "t" -> t]

MixedPlans ==
    {Plan(<<"http">>, <<>>, <<>>),
     Plan(<<>>, <<"unknown", "control">>, <<"http">>),
     Plan(<<>>, <<"empty", "http">>, <<"data">>)}

Get(size, line, file, body, hurried) ==
    [size |-> size, line |-> line, file |-> file, body |-> body, hurried |-> hurried]

\* A file, one that is too large for the client, one that is not there, a
\* request that cannot be parsed, an empty one, and one that is too large.
MixedRequests ==
    {Get(2, "valid", "found", 1, FALSE), Get(1, "valid", "found", 2, FALSE),
     Get(2, "valid", "not found", 0, TRUE), Get(2, "malformed", "found", 1, FALSE),
     Get(0, "valid", "found", 1, FALSE), Get(3, "valid", "found", 1, FALSE)}
=============================================================================
