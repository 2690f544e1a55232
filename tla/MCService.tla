----------------------------- MODULE MCService -----------------------------
(* Service on small instances: integers of 2, 3 and 4 bits, arguments that *)
(* import_value takes, cuts or refuses.                                    *)
EXTENDS Service

MCSamples == {-2, 5}

MCPushed == {Value("int32", -2), Value("double", 1)}

MCForeign == {Value("int64", 5)}
=============================================================================
