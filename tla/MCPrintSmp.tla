----------------------------- MODULE MCPrintSmp -----------------------------
EXTENDS PrintSmp, TLC

CONSTANTS bsp, ap

MCTexts == (bsp :> {<<"a", NL>>, <<"b", "c", "d">>, <<"e", BS>>})
           @@ (ap :> {<<"h", NL>>})

MCCalls == (bsp :> 2) @@ (ap :> 1)
=============================================================================
